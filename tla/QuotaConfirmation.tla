------------------------- MODULE QuotaConfirmation -------------------------
(***************************************************************************)
(* Confirmation of a quota adjustment that the chat assistant proposed:    *)
(* backend/services/ai_quota_confirmation_service.py with the turn that    *)
(* proposes it (ai_chat_service.py, stream of one message).                *)
(*                                                                         *)
(* The turn stores the proposal under a one-time key in Redis, commits the *)
(* audit row of the turn, sends the card to the browser and, later, writes *)
(* the same audit row once more when it ends.  A decision consumes the key *)
(* (GET, then compare and delete), loads the audit row, executes or        *)
(* cancels, and commits its outcome into the row, whole JSON column over   *)
(* whole JSON column.  A conversation that is loaded again shows the card  *)
(* or the outcome from the audit row.                                      *)
(***************************************************************************)
EXTENDS Naturals, Sequences

CONSTANTS
    Confirmations,     \* confirmation ids that one turn may create
    Deciders,          \* API workers that serve decisions
    None,              \* no confirmation
    SeveralProposals   \* the provider runs tools in its own loop (claude_code):
                       \* a turn goes on after its first proposal

ASSUME NoneAssumption == None \notin Confirmations
ASSUME PathAssumption == SeveralProposals \in BOOLEAN

VARIABLES
    token,      \* the Redis key of each confirmation
    overdue,    \* the confirmations whose expires_at has passed
    turn,       \* the turn's stream, and the proposals in its tool_trace
    audit,      \* the turn's row of ai_audit_logs, committed
    known,      \* the confirmations that the browser has seen
    req,        \* what each API worker is doing
    executed,   \* history: executions of each confirmed adjustment
    went        \* history: how the last of them went

vars == <<token, overdue, turn, audit, known, req, executed, went>>

Outcomes == {"succeeded", "failed", "cancelled"}   \* _TERMINAL_CONFIRMATION_STATUSES
Statuses == Outcomes \cup {"running", "awaiting_confirmation", "degraded"}

Free == [pc |-> "free", c |-> None, decision |-> "none", mine |-> FALSE,
         status |-> "running", detail |-> <<>>, outcome |-> "none"]

\* A request on its way, found in the key.
Asked(c, decision, mine) ==
    [pc |-> "read", c |-> c, decision |-> decision, mine |-> mine,
     status |-> "running", detail |-> <<>>, outcome |-> "none"]

Init ==
    /\ token = [c \in Confirmations |-> "none"]
    /\ overdue = {}
    /\ turn = [pc |-> "running", trace |-> <<>>]
    /\ audit = [status |-> "running", detail |-> <<>>]
    /\ known = {}
    /\ req = [d \in Deciders |-> Free]
    /\ executed = [c \in Confirmations |-> 0]
    /\ went = [c \in Confirmations |-> "none"]

Entry(c, status) == [c |-> c, status |-> status]
Traced == [i \in DOMAIN turn.trace |-> Entry(turn.trace[i], "awaiting_confirmation")]

-----------------------------------------------------------------------------
(* What a reloaded conversation shows                                      *)

IsPending(i) ==
    audit.detail[i].status = "awaiting_confirmation" /\ audit.detail[i].c \notin overdue

\* pending_confirmation_from_audit: the newest card that is not overdue.
IsCard(c) ==
    /\ audit.status = "awaiting_confirmation"
    /\ \E i \in DOMAIN audit.detail :
        /\ audit.detail[i].c = c
        /\ IsPending(i)
        /\ \A j \in DOMAIN audit.detail : j > i => ~ IsPending(j)

\* completed_confirmation_from_audit: the newest outcome.
IsShownAs(c, outcome) ==
    /\ audit.status \in Outcomes
    /\ \E i \in DOMAIN audit.detail :
        /\ audit.detail[i] = Entry(c, outcome)
        /\ \A j \in DOMAIN audit.detail : j > i => audit.detail[j].status \notin Outcomes

-----------------------------------------------------------------------------
(* The turn                                                                *)

\* prepare_confirmation: the key is stored, the audit row is changed and not
\* yet committed.
Propose ==
    /\ turn.pc = "running" \/ (SeveralProposals /\ turn.pc = "proposed")
    /\ \E c \in Confirmations :
        /\ token[c] = "none"
        /\ token' = [token EXCEPT ![c] = "live"]
        /\ turn' = [pc |-> "flushed", trace |-> Append(turn.trace, c)]
    /\ UNCHANGED <<overdue, audit, known, req, executed, went>>

\* _persist_running_audit commits the trace, with the status that
\* prepare_confirmation has set: a later proposal leaves the status as it is
\* when a decision came between its load and its flush.
Persist ==
    /\ turn.pc = "flushed"
    /\ \E s \in {"awaiting_confirmation", audit.status} :
        /\ Len(turn.trace) = 1 => s = "awaiting_confirmation"
        /\ audit' = [status |-> s, detail |-> Traced]
    /\ turn' = [turn EXCEPT !.pc = "proposed"]
    /\ UNCHANGED <<token, overdue, known, req, executed, went>>

\* A further tool of the provider's loop: the trace replaces the detail, the
\* status keeps what is committed.
PersistTool ==
    /\ SeveralProposals
    /\ turn.pc = "proposed"
    /\ audit' = [audit EXCEPT !.detail = Traced]
    /\ UNCHANGED <<token, overdue, turn, known, req, executed, went>>

\* The event quota_confirmation_required, with the last proposal.
ShowCard ==
    /\ turn.pc = "proposed"
    /\ turn' = [turn EXCEPT !.pc = "shown"]
    /\ known' = known \cup {turn.trace[Len(turn.trace)]}
    /\ UNCHANGED <<token, overdue, audit, req, executed, went>>

\* Where a turn's stream ends, and with which status: without a proposal, with
\* its card shown, closed by the client at a yield, or with an error anywhere.
Endings ==
    {<<"running", "succeeded">>, <<"running", "degraded">>, <<"shown", "awaiting_confirmation">>}
        \cup {"running", "proposed", "shown"} \X {"cancelled"}
        \cup {"running", "flushed", "proposed", "shown"} \X {"failed"}

\* _terminal_message writes status and trace over the row.
EndTurn ==
    /\ \E s \in Statuses :
        /\ <<turn.pc, s>> \in Endings
        /\ audit' = [status |-> s, detail |-> Traced]
    /\ turn' = [turn EXCEPT !.pc = "over"]
    /\ UNCHANGED <<token, overdue, known, req, executed, went>>

\* The process dies: what it had not committed is gone, the key is not.
KillTurn ==
    /\ turn.pc # "over"
    /\ turn' = [turn EXCEPT !.pc = "over"]
    /\ UNCHANGED <<token, overdue, audit, known, req, executed, went>>

\* The conversation is loaded again, in this browser or another.
Reload ==
    /\ \E c \in Confirmations : IsCard(c) /\ known' = known \cup {c}
    /\ UNCHANGED <<token, overdue, turn, audit, req, executed, went>>

-----------------------------------------------------------------------------
(* decide_confirmation                                                     *)

\* GET finds the key; otherwise the request ends with 409.  The request may name
\* another conversation or come from another administrator.
Ask(d) ==
    /\ req[d].pc = "free"
    /\ \E c \in known, decision \in {"confirm", "cancel"}, mine \in BOOLEAN :
        /\ token[c] = "live"
        /\ req' = [req EXCEPT ![d] = Asked(c, decision, mine)]
    /\ UNCHANGED <<token, overdue, turn, audit, known, executed, went>>

\* Mutant: the key is read and left to expire.
Consume_GetOnly(d) ==
    /\ req[d].pc = "read"
    /\ req' = [req EXCEPT ![d].pc = "consumed"]
    /\ UNCHANGED <<token, overdue, turn, audit, known, executed, went>>

\* Compare and delete; the answer may get lost (503).
Consume(d) ==
    /\ req[d].pc = "read"
    /\ token[req[d].c] = "live"
    /\ token' = [token EXCEPT ![req[d].c] = "gone"]
    /\ \/ req' = [req EXCEPT ![d].pc = "consumed"]
       \/ req' = [req EXCEPT ![d] = Free]
    /\ UNCHANGED <<overdue, turn, audit, known, executed, went>>

\* 409, somebody else consumed it; or, consumed, 403 for a stranger, or 409
\* because the tool is not registered any more (the failure it writes is rolled back).
Refuse(d) ==
    /\ \/ req[d].pc = "read"
       \/ req[d].pc = "consumed" /\ ~ req[d].mine
       \/ req[d].pc = "loaded" /\ req[d].decision = "confirm"
    /\ req' = [req EXCEPT ![d] = Free]
    /\ UNCHANGED <<token, overdue, turn, audit, known, executed, went>>

\* db.get of the audit row, for the owner.
LoadAudit(d) ==
    /\ req[d].pc = "consumed"
    /\ req[d].mine
    /\ req' = [req EXCEPT ![d].pc = "loaded", ![d].status = audit.status,
                          ![d].detail = audit.detail]
    /\ UNCHANGED <<token, overdue, turn, audit, known, executed, went>>

\* Mutant: a cancellation does without the key.
Cancel_Unconsumed(d) ==
    /\ req[d].pc \in {"read", "loaded"}
    /\ req[d].decision = "cancel"
    /\ req' = [req EXCEPT ![d].pc = "decided", ![d].outcome = "cancelled"]
    /\ UNCHANGED <<token, overdue, turn, audit, known, executed, went>>

Cancel(d) ==
    /\ req[d].pc = "loaded"
    /\ req[d].decision = "cancel"
    /\ req' = [req EXCEPT ![d].pc = "decided", ![d].outcome = "cancelled"]
    /\ UNCHANGED <<token, overdue, turn, audit, known, executed, went>>

\* Mutant: what is recorded is that the tool ran, not how.
Execute_AlwaysSucceeded(d) ==
    /\ req[d].pc = "loaded"
    /\ req[d].decision = "confirm"
    /\ executed' = [executed EXCEPT ![req[d].c] = @ + 1]
    /\ \E outcome \in {"succeeded", "failed"} :
        /\ went' = [went EXCEPT ![req[d].c] = outcome]
        /\ req' = [req EXCEPT ![d].pc = "decided", ![d].outcome = "succeeded"]
    /\ UNCHANGED <<token, overdue, turn, audit, known>>

\* execute_tool calls the adjustment of quotaService as a request of its own.
Execute(d) ==
    /\ req[d].pc = "loaded"
    /\ req[d].decision = "confirm"
    /\ executed' = [executed EXCEPT ![req[d].c] = @ + 1]
    /\ \E outcome \in {"succeeded", "failed"} :
        /\ went' = [went EXCEPT ![req[d].c] = outcome]
        /\ req' = [req EXCEPT ![d].pc = "decided", ![d].outcome = outcome]
    /\ UNCHANGED <<token, overdue, turn, audit, known>>

\* What a flush leaves in a column that the session loaded before.
Written(loaded, new, current) == IF loaded = new THEN current ELSE new

\* _complete_confirmation and the commit of the route; the row lock of a turn
\* that has flushed is waited for.
CommitDecision(d) ==
    /\ req[d].pc = "decided"
    /\ turn.pc # "flushed"
    /\ audit' = [status |-> Written(req[d].status, req[d].outcome, audit.status),
                 detail |-> Append(req[d].detail, Entry(req[d].c, req[d].outcome))]
    /\ req' = [req EXCEPT ![d] = Free]
    /\ UNCHANGED <<token, overdue, turn, known, executed, went>>

\* The process dies, or the commit fails.
KillDecision(d) ==
    /\ req[d].pc # "free"
    /\ req' = [req EXCEPT ![d] = Free]
    /\ UNCHANGED <<token, overdue, turn, audit, known, executed, went>>

\* expires_at passes, computed before the key is stored ...
CardExpires(c) ==
    /\ token[c] # "none"
    /\ c \notin overdue
    /\ overdue' = overdue \cup {c}
    /\ UNCHANGED <<token, turn, audit, known, req, executed, went>>

\* ... then the TTL of the key runs out.
TokenExpires(c) ==
    /\ c \in overdue
    /\ token[c] = "live"
    /\ token' = [token EXCEPT ![c] = "gone"]
    /\ UNCHANGED <<overdue, turn, audit, known, req, executed, went>>

Turn == Propose \/ Persist \/ PersistTool \/ ShowCard \/ EndTurn \/ KillTurn

Decide(d) ==
    \/ Ask(d) \/ Consume(d) \/ Refuse(d) \/ LoadAudit(d)
    \/ Cancel(d) \/ Execute(d) \/ CommitDecision(d) \/ KillDecision(d)

Next ==
    \/ Turn
    \/ Reload
    \/ \E d \in Deciders : Decide(d)
    \/ \E c \in Confirmations : CardExpires(c) \/ TokenExpires(c)

Spec == Init /\ [][Next]_vars

-----------------------------------------------------------------------------
(* Properties                                                              *)

Detail == Seq([c : Confirmations, status : Outcomes \cup {"awaiting_confirmation"}])
Request == [pc : {"free", "read", "consumed", "loaded", "decided"},
            c : Confirmations \cup {None}, decision : {"none", "confirm", "cancel"},
            mine : BOOLEAN, status : Statuses, detail : Detail,
            outcome : Outcomes \cup {"none"}]

\* The audit row holds one of its statuses and a list of entries.
TypeOK ==
    /\ token \in [Confirmations -> {"none", "live", "gone"}]
    /\ overdue \subseteq Confirmations
    /\ turn \in [pc : {"running", "flushed", "proposed", "shown", "over"},
                 trace : Seq(Confirmations)]
    /\ audit \in [status : Statuses, detail : Detail]
    /\ known \subseteq Confirmations
    /\ req \in [Deciders -> Request]
    /\ executed \in [Confirmations -> Nat]
    /\ went \in [Confirmations -> {"none", "succeeded", "failed"}]

\* A proposal is executed at most once: two tabs, a repeated click, a lost
\* answer, an expiry in between and a second administrator included.
ExecutedAtMostOnce == \A c \in Confirmations : executed[c] <= 1

\* An outcome in the audit row is what happened: the adjustment ran and went as
\* the entry says, or it was cancelled and never ran.
OutcomeIsTrue ==
    \A i \in DOMAIN audit.detail :
        LET e == audit.detail[i] IN
        /\ e.status \in {"succeeded", "failed"} => executed[e.c] = 1 /\ went[e.c] = e.status
        /\ e.status = "cancelled" => executed[e.c] = 0

\* Once a turn is over that made no second proposal, the outcome that a reload shows stays,
\* whatever requests still run: none of them carries an older copy of the row that it could write
\* over the outcome.
OutcomeFinal ==
    [][turn.pc = "over" /\ Len(turn.trace) <= 1 =>
        \A c \in Confirmations : \A o \in Outcomes : IsShownAs(c, o) => IsShownAs(c, o)']_vars

\* The documentation says that outcomes are restored with the conversation, so
\* that a reload does not lose them.
OutcomeSurvives ==
    [][\A c \in Confirmations : \A o \in Outcomes : IsShownAs(c, o) => IsShownAs(c, o)']_vars

-----------------------------------------------------------------------------
(* Refinement                                                              *)

\* The request has consumed the confirmation and not decided it yet.
Holds(d, c) == req[d].pc \in {"consumed", "loaded"} /\ req[d].c = c

StageOf(c) ==
    CASE token[c] = "none" -> "absent"
      [] token[c] = "live" -> "open"
      [] token[c] = "gone" /\ (\E d \in Deciders : Holds(d, c)) -> "taken"
      [] OTHER -> "closed"

\* The outcomes that the audit row names
OnRecord == {<<e.c, e.status>> : e \in {audit.detail[i] : i \in DOMAIN audit.detail}}
               \cap (Confirmations \X Outcomes)

Proposals == INSTANCE QuotaProposals WITH
    Proposals <- Confirmations, stage <- [c \in Confirmations |-> StageOf(c)], shown <- known,
    result <- went, record <- OnRecord

\* Keys, requests and the audit row implement QuotaProposals: what a request holds nobody else
\* decides, and no copy of the row, however old, brings back what is not true.
ImplementsProposals == Proposals!Spec
=============================================================================
