---------------------------- MODULE AlertOutbox ----------------------------
(***************************************************************************)
(* What the storage-alert notification pipeline promises about each alert  *)
(* row, whatever workers, leases, retries and crashes do underneath:       *)
(*  - an alert that is owed to its recipients is settled exactly once;     *)
(*  - nobody is notified before the alert exists or after it was settled;  *)
(*  - "sent" is only claimed once every recipient has been notified.       *)
(* A recipient may be notified more than once while the alert is owed: the *)
(* pipeline delivers at least once, not exactly once.                      *)
(***************************************************************************)
EXTENDS Naturals

CONSTANTS
    Alerts,       \* rows of the table storage_alerts that have recipients
    Recipients    \* length of the recipient list of each of them

VARIABLES
    outcome,      \* outcome[a]: "absent", "owed" or how the alert was settled
    received      \* received[a]: the recipients notified at least once

vars == <<outcome, received>>

Outcome == {"absent", "owed", "sent", "failed", "skipped"}

TypeOK ==
    /\ outcome \in [Alerts -> Outcome]
    /\ received \in [Alerts -> SUBSET (1..Recipients)]

Init ==
    /\ outcome = [a \in Alerts |-> "absent"]
    /\ received = [a \in Alerts |-> {}]

Raise(a) ==
    /\ outcome[a] = "absent"
    /\ outcome' = [outcome EXCEPT ![a] = "owed"]
    /\ UNCHANGED received

Notify(a, r) ==
    /\ outcome[a] = "owed"
    /\ received' = [received EXCEPT ![a] = @ \cup {r}]
    /\ UNCHANGED outcome

Settle(a) ==
    /\ outcome[a] = "owed"
    /\ \E o \in {"sent", "failed", "skipped"} :
         /\ o = "sent" => received[a] = 1..Recipients
         /\ outcome' = [outcome EXCEPT ![a] = o]
    /\ UNCHANGED received

Next ==
    \E a \in Alerts :
        \/ Raise(a)
        \/ \E r \in 1..Recipients : Notify(a, r)
        \/ Settle(a)

Spec == Init /\ [][Next]_vars
=============================================================================
