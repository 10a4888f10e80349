-------------------------- MODULE MCAlertsAndChat --------------------------
(***************************************************************************)
(* TLC instances of two components that share no state: one group under    *)
(* alert rules, in two scenarios, and two turns of the chat.  "scenario"   *)
(* says which one moves, the other stays in an initial state.              *)
(***************************************************************************)
EXTENDS MCAlertEvaluation, MCChatTurn

VARIABLE scenario

groupVars == <<scenario, vars, chatVars>>

\* Evaluators overlap after a lock expired, under one rule and with ratios above
\* and below it, before the last tick; or one evaluator at a time meets edits of the
\* rule and all ratios.
OneByOne == ~ \E d, e \in Evaluators : d # e /\ ev'[d] # Resting /\ ev'[e] # Resting
Overlap ==
    /\ changes' = 0 /\ ~ \E t \in Targets : row'[t] # NoRow /\ row'[t].ratio \notin {0, 2}
    /\ clock' = MaxTime => OneByOne

ScenarioInit ==
    /\ scenario \in {"overlap", "rules", "chat"}
    /\ Init /\ ChatInit /\ rule = [t \in Targets |-> FirstRule]

\* No turn of the chat is under way
ChatIsOver == \A t \in Turns : stream[t].pc \in {"none", "settled", "lost"}

ScenarioNext ==
    \/ scenario = "overlap" /\ Next /\ Overlap /\ UNCHANGED <<scenario, chatVars>>
    \/ scenario = "rules" /\ Next /\ OneByOne /\ UNCHANGED <<scenario, chatVars>>
    \/ scenario = "chat" /\ ChatNext /\ ~TooBusyTurns /\ UNCHANGED <<scenario, vars>>
    \/ scenario = "chat" /\ ChatIsOver /\ UNCHANGED groupVars

ScenarioSpec == ScenarioInit /\ [][ScenarioNext]_groupVars
=============================================================================
