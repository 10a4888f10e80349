----------------------------- MODULE MCProgress -----------------------------
(***************************************************************************)
(* TLC instances of four components that promise progress.  They share no  *)
(* state: "part" says which one moves, the others stay in an initial       *)
(* state, and the state spaces add up.  The fairness of a component is     *)
(* stated for the behaviours in which it moves.                            *)
(***************************************************************************)
EXTENDS AlertDelivery, MCChatTurn, ProjectMembership, VendorEventIntake, TLC

CONSTANTS u1, e1, e2, e3, e4

VARIABLE part

progressVars == <<part, vars, chatVars, memberVars, intakeVars>>

\* Back-off delays, in ticks, growing as 60, 300, 900 s do
ShortDelays == [n \in 1..(MaxDeliveryAttempts - 1) |-> n]

Times == (e1 :> 1) @@ (e2 :> 2) @@ (e3 :> 5) @@ (e4 :> 7)
Occurred == [e \in DeviceEvents |-> Times[e]]

-----------------------------------------------------------------------------
ProgressInit ==
    /\ part \in {"delivery", "chat", "membership", "intake"}
    /\ Init /\ ChatInit /\ IntakeInit
    /\ MemberInit /\ owner = u1

ProgressNext ==
    \/ /\ part = "delivery" /\ Next
       /\ UNCHANGED <<part, chatVars, memberVars, intakeVars>>
    \/ /\ part = "chat" /\ ChatNext /\ ~BothTurns
       /\ UNCHANGED <<part, vars, memberVars, intakeVars>>
    \/ /\ part = "membership" /\ MemberNext
       /\ UNCHANGED <<part, vars, chatVars, intakeVars>>
    \/ /\ part = "intake" /\ IntakeNext
       /\ UNCHANGED <<part, vars, chatVars, memberVars>>

\* Fairness, ChatFairness, MemberFairness and IntakeFairness, of the part that moves
ProgressFairness ==
    /\ WF_vars(part = "delivery" /\ RetryScan)
    /\ WF_vars(part = "delivery" /\ Tick)
    /\ \A w \in Workers : WF_vars(part = "delivery" /\ WorkerStep(w))
    /\ \A t \in Turns : WF_chatVars(part = "chat" /\ TurnStep(t))
    /\ WF_memberVars(part = "membership" /\ RoundReads)
    /\ WF_memberVars(part = "membership" /\ RoundInserts)
    /\ WF_intakeVars(part = "intake" /\ StartFetch)
    /\ WF_intakeVars(part = "intake" /\ ReadGroups)
    /\ WF_intakeVars(part = "intake" /\ ReadLists)
    /\ WF_intakeVars(part = "intake" /\ StoreEvents)

ProgressSpec == ProgressInit /\ [][ProgressNext]_progressVars /\ ProgressFairness
=============================================================================
