----------------------------- MODULE MCChatTurn -----------------------------
(***************************************************************************)
(* Constants and bounds for TLC: an ordinary turn and one of an agent.     *)
(***************************************************************************)
EXTENDS ChatTurn

CONSTANTS p, t1, t2, detail

\* Every call is a tool of its own, and names the one project
Names == [c \in Calls |-> c]
Scopes == [c \in Calls |-> {p}]

\* Bounds for both turns: the first uses every path; the agent's is sent second, and then the
\* first has had one batch of one call without a failure, and no tool of the agent is blocked; a
\* deletion and a loss not together
TooBusyTurns ==
    \/ gone' /\ losses' > 0
    \/ Len(stream'[t1].todo) = 2 /\ stream'[t1].todo[1] # detail
    \/ /\ stream'[t2].pc # "none"
       /\ \/ stream'[t1].pc = "none" \/ stream'[t1].asked > 1 \/ stream'[t1].repairs > 0
          \/ Len(stream'[t1].todo) > 1 \/ stream'[t1].failed \/ stream'[t1].reused
          \/ stream'[t2].blocked # {}

\* Bound: only one of the turns is sent
BothTurns == stream'[t1].pc # "none" /\ stream'[t2].pc # "none"
=============================================================================
