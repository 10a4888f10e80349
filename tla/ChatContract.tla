---------------------------- MODULE ChatContract ----------------------------
(***************************************************************************)
(* What the assistant promises about the turns of a conversation, whatever *)
(* its model answers, in whatever order tabs, disconnections, repairs and  *)
(* dying processes come:                                                   *)
(*  - a turn executes calls within the user's access, never one that       *)
(*    somebody has to confirm, and each at most once if it reuses results; *)
(*  - it ends once, in one step with its reply, or is abandoned without    *)
(*    one; nothing is executed or replied afterwards;                      *)
(*  - a reply speaks only of what the calls of its turn returned and of    *)
(*    what earlier replies of the conversation said;                       *)
(*  - a deleted conversation gets no replies any more.                     *)
(***************************************************************************)
EXTENDS Naturals

CONSTANTS
    Turns, Projects, Calls,
    Reusing,    \* the turns that answer a call with its earlier result
    ScopeOf,    \* the projects that the result of a call speaks of
    Direct,     \* the calls that a turn may execute on its own
    Outcomes    \* how a turn may end

VARIABLES
    access,     \* the projects that the user can read
    state,      \* state[t]: "none", "running", "abandoned" or the outcome of the turn
    ran,        \* ran[t][c]: how often the turn has executed the call
    learned,    \* learned[t]: the projects that the model of the turn knows of
    answer,     \* answer[t]: whether there is a reply, the projects it speaks of
    deleted

vars == <<access, state, ran, learned, answer, deleted>>

NoAnswer == [text |-> FALSE, from |-> {}]

Init ==
    /\ access = Projects
    /\ state = [t \in Turns |-> "none"]
    /\ ran = [t \in Turns |-> [c \in Calls |-> 0]]
    /\ learned = [t \in Turns |-> {}]
    /\ answer = [t \in Turns |-> NoAnswer]
    /\ deleted = FALSE

Begin(t) ==
    /\ state[t] = "none" /\ ~deleted
    /\ state' = [state EXCEPT ![t] = "running"]
    /\ UNCHANGED <<access, ran, learned, answer, deleted>>

Recall(t, R) ==
    /\ state[t] = "running"
    /\ \A u \in R : u # t /\ answer[u].text
    /\ learned' = [learned EXCEPT ![t] = @ \cup UNION {answer[u].from : u \in R}]
    /\ UNCHANGED <<access, state, ran, answer, deleted>>

Run(t, c) ==
    /\ state[t] = "running" /\ (t \in Reusing => ran[t][c] = 0)
    /\ c \in Direct /\ ScopeOf[c] \subseteq access
    /\ ran' = [ran EXCEPT ![t][c] = @ + 1]
    /\ learned' = [learned EXCEPT ![t] = @ \cup ScopeOf[c]]
    /\ UNCHANGED <<access, state, answer, deleted>>

\* Only a turn that the user has broken off may end without a reply
Settle(t, o, a) ==
    /\ state[t] = "running" /\ ~deleted
    /\ o # "cancelled" => a.text
    /\ a.from \subseteq learned[t]
    /\ state' = [state EXCEPT ![t] = o]
    /\ answer' = [answer EXCEPT ![t] = a]
    /\ UNCHANGED <<access, ran, learned, deleted>>

Abandon(t) ==
    /\ state[t] = "running"
    /\ state' = [state EXCEPT ![t] = "abandoned"]
    /\ UNCHANGED <<access, ran, learned, answer, deleted>>

LoseAccess ==
    /\ access' \subseteq access
    /\ UNCHANGED <<state, ran, learned, answer, deleted>>

Delete ==
    /\ deleted' = TRUE
    /\ answer' = [t \in Turns |-> NoAnswer]
    /\ UNCHANGED <<access, state, ran, learned>>

Next ==
    \/ \E t \in Turns :
         \/ Begin(t) \/ Abandon(t)
         \/ \E R \in SUBSET Turns : Recall(t, R)
         \/ \E c \in Calls : Run(t, c)
         \/ \E o \in Outcomes : Settle(t, o, answer'[t])
    \/ LoseAccess \/ Delete

Spec == Init /\ [][Next]_vars
=============================================================================
