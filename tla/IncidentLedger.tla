--------------------------- MODULE IncidentLedger ---------------------------
(***************************************************************************)
(* What correlation promises about evidence, whatever tasks overlap on a   *)
(* key, fail or are killed, and in whatever order events are delivered:    *)
(*  - one piece of evidence is placed after the other, each against all    *)
(*    that was placed before, as if the tasks took turns;                  *)
(*  - it joins the incident of the newest evidence of its key when it is   *)
(*    near in time, and opens an incident of its own otherwise;            *)
(*  - it is placed once, stays where it is once committed, and is          *)
(*    announced only then.                                                 *)
(***************************************************************************)
EXTENDS Integers

CONSTANTS
    Evidence,     \* events that may become evidence: those that pass the admission
    KeyOf,        \* the correlation key of each
    TimeOf,       \* when each was observed
    OwnIncident,  \* the incident that each opens when it joins none
    Window,       \* how far from the newest evidence other evidence may lie
    NoIncident

VARIABLES
    committed,   \* the incident of each piece of evidence, or none
    placed,      \* the same with the work of open transactions
    announced    \* the incidents, with their keys, that notifications have been sent about

vars == <<committed, placed, announced>>

Init ==
    /\ committed = [e \in Evidence |-> NoIncident]
    /\ placed = [e \in Evidence |-> NoIncident]
    /\ announced = {}

Placed(k) == {e \in Evidence : KeyOf[e] = k /\ placed[e] # NoIncident}
Newest(k) == {e \in Placed(k) : \A f \in Placed(k) : TimeOf[f] <= TimeOf[e]}
Near(e, f) == TimeOf[e] - TimeOf[f] \in -Window..Window

Joins(e, i) == \E f \in Newest(KeyOf[e]) : Near(e, f) /\ placed[f] = i

Opens(e, i) ==
    /\ \A f \in Newest(KeyOf[e]) : ~Near(e, f)
    /\ i = OwnIncident[e]
    /\ \A f \in Placed(KeyOf[e]) : placed[f] # i

Place(e, i) ==
    /\ placed[e] = NoIncident /\ i # NoIncident
    /\ placed' = [placed EXCEPT ![e] = i]
    /\ UNCHANGED <<committed, announced>>
    /\ Joins(e, i) \/ Opens(e, i)

\* A transaction ends; the keys that it worked on are its own until then
Commit(K) ==
    /\ committed' = [e \in Evidence |-> IF KeyOf[e] \in K THEN placed[e] ELSE committed[e]]
    /\ UNCHANGED <<placed, announced>>

RollBack(K) ==
    /\ placed' = [e \in Evidence |-> IF KeyOf[e] \in K THEN committed[e] ELSE placed[e]]
    /\ UNCHANGED <<committed, announced>>

Announceable == {<<KeyOf[e], committed[e]>> : e \in {f \in Evidence : committed[f] # NoIncident}}

Announce ==
    /\ announced \subseteq announced'
    /\ announced' \subseteq announced \cup Announceable
    /\ UNCHANGED <<committed, placed>>

KeysInUse == {KeyOf[e] : e \in Evidence}

Next ==
    \/ \E e \in Evidence : Place(e, placed'[e])
    \/ \E K \in SUBSET KeysInUse : Commit(K) \/ RollBack(K)
    \/ Announce

Spec == Init /\ [][Next]_vars
=============================================================================
