------------------------------ MODULE MCRecords ------------------------------
(***************************************************************************)
(* TLC instances of two components that keep records of the outside world: *)
(* the limits of a device, and the evidence of incidents.  They share no   *)
(* state: "part" says which one moves, the other stays in an initial state.*)
(***************************************************************************)
EXTENDS QuotaAdjustment, MCIncidentCorrelation

VARIABLE part

\* The limits are interchangeable: the device starts at one of them.  While the
\* incidents move nothing corrects the row of the quota: then it is correct.
RecordsInit ==
    /\ part \in {"adjustment", "incidents"} /\ Init /\ CorrelationInit
    /\ device = CHOOSE l \in Limits : TRUE
    /\ part = "incidents" => local = device

\* Once the limit was changed on the device itself requests come one at a time: the
\* theorems of RecordsProofs cover safety for any number of them.
OneByOne == Cardinality({r \in Requests : req'[r].pc # "free"}) <= 2 - byHand'

RecordsNext ==
    \/ part = "adjustment" /\ Next /\ OneByOne /\ UNCHANGED <<part, correlationVars>>
    \/ part = "incidents" /\ MCNext /\ UNCHANGED <<part, vars>>

\* That of FairSpec and CorrelationFairness, of the part that moves
RecordsFairness ==
    /\ \A c \in Collectors : WF_vars(part = "adjustment" /\ Collect(c))
    /\ WF_vars(part = "adjustment" /\ LockExpires)
    /\ SF_correlationVars(part = "incidents" /\ \E t \in Tasks : BeginScan(t))
    /\ \A t \in Tasks : /\ WF_correlationVars(part = "incidents" /\ Step(t))
                       /\ SF_correlationVars(part = "incidents" /\ Lock(t))

RecordsSpec == RecordsInit /\ [][RecordsNext]_<<part, vars, correlationVars>> /\ RecordsFairness
=============================================================================
