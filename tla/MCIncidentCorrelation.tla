----------------------- MODULE MCIncidentCorrelation -----------------------
(* TLC instances of IncidentCorrelation: events, their keys and times. *)
EXTENDS IncidentCorrelation, TLC

CONSTANTS v1, v2, v3, a1, a2, f1, faults, pressure

KeyFn == [e \in Events |-> IF e \in VendorEvents THEN faults ELSE pressure]

Times == (v1 :> 9) @@ (v2 :> 7) @@ (v3 :> 4) @@ (a1 :> 1) @@ (a2 :> 3) @@ (f1 :> 2)

\* v2 is within the window of v1, v3 is a historical event of its own bucket
Spread == [e \in Events |-> Times[e]]

\* v2 and v3 are historical events of one bucket
Crowded == [Spread EXCEPT ![v2] = 5]

\* Events of one category: the categories share neither keys nor tasks that wait for them
OneCategory == arrived' \subseteq VendorEvents \/ arrived' \subseteq Alerts \cup Forecasts

\* A killed transaction or a maintenance window of the vendor events' asset
OneTrouble == crashes' + windows' <= 1 /\ covered' = (IF windows' = 1 THEN {v2, v3} ELSE {})

MCNext == CorrelationNext /\ OneCategory /\ OneTrouble

MCSpec == CorrelationInit /\ [][MCNext]_correlationVars /\ CorrelationFairness
=============================================================================
