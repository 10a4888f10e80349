--------------------------- MODULE QuotaProposals ---------------------------
(***************************************************************************)
(* What the confirmation of quota adjustments promises about each          *)
(* adjustment that the assistant proposes, whatever tabs, administrators,  *)
(* lost answers, expiries and kills do underneath:                         *)
(*  - it is taken up by one decision, and only after somebody saw it;      *)
(*  - that decision executes it, or it is never executed;                  *)
(*  - the record of outcomes may lose some, but holds no false one, and    *)
(*    none of an adjustment that could still be decided otherwise.         *)
(***************************************************************************)
CONSTANT Proposals

VARIABLES
    stage,    \* stage[c]: "absent", "open", taken by a decision, or "closed" for good
    shown,    \* the proposals that somebody has seen
    result,   \* result[c]: how the execution went, if there was one
    record    \* the outcomes on record, of what each says

vars == <<stage, shown, result, record>>

Init ==
    /\ stage = [c \in Proposals |-> "absent"]
    /\ shown = {}
    /\ result = [c \in Proposals |-> "none"]
    /\ record = {}

Make(c) ==
    /\ stage[c] = "absent"
    /\ stage' = [stage EXCEPT ![c] = "open"]
    /\ UNCHANGED <<shown, result, record>>

Show(c) ==
    /\ stage[c] # "absent"
    /\ shown' = shown \cup {c}
    /\ UNCHANGED <<stage, result, record>>

Take(c) ==
    /\ stage[c] = "open" /\ c \in shown
    /\ stage' = [stage EXCEPT ![c] = "taken"]
    /\ UNCHANGED <<shown, result, record>>

\* It expires, or whoever took it cancels it, is refused, or dies
Drop(c) ==
    /\ stage[c] \in {"open", "taken"}
    /\ stage' = [stage EXCEPT ![c] = "closed"]
    /\ UNCHANGED <<shown, result, record>>

Execute(c) ==
    /\ stage[c] = "taken"
    /\ stage' = [stage EXCEPT ![c] = "closed"]
    /\ \E o \in {"succeeded", "failed"} : result' = [result EXCEPT ![c] = o]
    /\ UNCHANGED <<shown, record>>

Truths ==
    {<<c, result[c]>> : c \in {p \in Proposals : result[p] # "none"}}
        \cup {<<c, "cancelled">> : c \in {p \in Proposals : stage[p] = "closed" /\ result[p] = "none"}}

Record ==
    /\ record' \subseteq Truths
    /\ UNCHANGED <<stage, shown, result>>

Next ==
    \/ \E c \in Proposals : Make(c) \/ Show(c) \/ Take(c) \/ Drop(c) \/ Execute(c)
    \/ Record

Spec == Init /\ [][Next]_vars
=============================================================================
