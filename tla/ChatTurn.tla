------------------------------ MODULE ChatTurn ------------------------------
(***************************************************************************)
(* The turns of one conversation of an ordinary user.  A turn commits its  *)
(* message and a running audit, notes the scope of the turns before it,    *)
(* reads their replies as history, and lets the model call tools for a     *)
(* bounded number of rounds.  Every reply is stored with the projects it   *)
(* may speak of, so that it can be hidden when the user loses one of them. *)
(* Requests of one conversation may overlap (two tabs); a client may       *)
(* disconnect at any event that it is sent.                                *)
(* A turn whose model is of the provider claude_code is answered in one    *)
(* completion, in which an agent calls the tools itself.                   *)
(***************************************************************************)
EXTENDS Integers, Sequences, FiniteSets

CONSTANTS
    Turns,         \* messages that the user sends
    AgentTurns,    \* the turns that the provider claude_code answers
    ReadableProjects,  \* projects; administration is one that ordinary users do not have
    Calls,         \* tool calls: name and arguments
    NameOf,        \* the tool of a call
    ScopeOf,       \* the projects that its arguments or its result name
    QuotaCalls,    \* calls of the two tools that need a confirmation
    Unlisted,      \* calls of names that the registry does not have
    MaxIterations, \* ai.chat_tool_max_iterations
    MaxArgumentRepairs, MaxFailureRepairs,
    MaxBatch,      \* bound: calls in one answer of the model
    MaxRuns,       \* bound: how often an agent runs one call
    MaxLosses      \* bound: processes that die, losses of access

ASSUME ChatAssumption ==
    /\ ScopeOf \in [Calls -> SUBSET ReadableProjects]
    /\ AgentTurns \subseteq Turns /\ MaxRuns \in Nat
    /\ QuotaCalls \subseteq Calls /\ Unlisted \subseteq Calls \ QuotaCalls
    /\ MaxIterations \in Nat \ {0} /\ MaxArgumentRepairs \in Nat /\ MaxFailureRepairs \in Nat
    /\ MaxBatch \in Nat \ {0} /\ MaxLosses \in Nat

VARIABLES
    access,   \* the projects that the user can read now
    record,   \* record[t]: the row of ai_audit_logs, its visibility marker and tool trace included
    reply,    \* reply[t]: the assistant's message: whether it has text, the projects it speaks of
    stream,   \* what the generator of each turn is doing
    losses, gone   \* count towards MaxLosses; the conversation has been deleted

chatVars == <<access, record, reply, stream, losses, gone>>

Visibility == [known : BOOLEAN, projects : SUBSET ReadableProjects]
Known(S) == [known |-> TRUE, projects |-> S]
Unknown == [known |-> FALSE, projects |-> {}]
NoMarker == [known |-> FALSE, projects |-> ReadableProjects]

\* _combine_visibility of all of them
Combined(V) ==
    IF \A v \in V : v.known THEN Known(UNION {v.projects : v \in V}) ELSE Unknown

SettledStatuses == {"succeeded", "degraded", "awaiting_confirmation", "cancelled", "failed"}

NoAudit == [status |-> "none", marker |-> NoMarker, trace |-> {}, open |-> FALSE]
NoReply == [text |-> FALSE, from |-> {}]
NotSent == [pc |-> "none", scope |-> Unknown, knew |-> {}, raced |-> FALSE, sources |-> {},
            emitted |-> NoReply, iteration |-> 1, repairs |-> 0, failures |-> 0, tools |-> TRUE,
            cached |-> {}, blocked |-> {}, todo |-> <<>>, failed |-> FALSE, hard |-> FALSE,
            reused |-> FALSE, asked |-> 0, ran |-> [c \in Calls |-> 0]]

ChatInit ==
    /\ access = ReadableProjects
    /\ record = [t \in Turns |-> NoAudit]
    /\ reply = [t \in Turns |-> NoReply]
    /\ stream = [t \in Turns |-> NotSent]
    /\ losses = 0 /\ gone = FALSE

-----------------------------------------------------------------------------
(* Visibility.                                                             *)

\* An entry has its visibility when the call has finished
TraceOf(t) == record[t].trace \cup (IF record[t].open THEN {Unknown} ELSE {})

\* _visibility_for_audit: without a marker, a trace is needed
VisibilityOf(t) ==
    CASE record[t].marker # NoMarker -> Combined({record[t].marker} \cup TraceOf(t))
      [] record[t].marker = NoMarker /\ TraceOf(t) # {} -> Combined(TraceOf(t))
      [] OTHER -> Unknown

\* _visibility_is_allowed
Allowed(v) == v.known /\ v.projects \subseteq access

\* get_conversation
Shown(t) == reply[t].text /\ Allowed(VisibilityOf(t))

Answered == {t \in Turns : reply[t].text}

\* _historical_visibility
HistoricalVisibility(t) ==
    IF gone THEN Known({})
    ELSE Combined({VisibilityOf(u) : u \in {u \in Turns \ {t} : record[u].status # "none"}})

-----------------------------------------------------------------------------
(* The end of a turn.                                                      *)

\* Mutant: the scope of the turns before is not kept.
ScopeKept_TraceOnly(t) == Combined(TraceOf(t))

\* What _terminal_message records of the turn
ScopeKept(t) == Combined({stream[t].scope} \cup TraceOf(t))

\* _terminal_message and _finish_audit, one commit; without the conversation the flush fails
\* and so does the handler of the failure
Settle(t, status, text) ==
    IF gone
    THEN /\ stream' = [stream EXCEPT ![t].pc = "lost"]
         /\ UNCHANGED <<record, reply>>
    ELSE /\ stream' = [stream EXCEPT ![t].pc = "settled"]
         /\ reply' = [reply EXCEPT ![t] = text]
         /\ record' = [record EXCEPT ![t].status = status, ![t].marker = ScopeKept(t)]

\* What the model writes speaks of everything that it has been told
Generated(t) == [text |-> TRUE, from |-> stream[t].sources]
Canned == [text |-> TRUE, from |-> {}]

-----------------------------------------------------------------------------
(* stream_message.                                                         *)

Send(t) ==
    /\ stream[t].pc = "none" /\ ~gone
    /\ stream' = [stream EXCEPT ![t].pc = "sent"]
    /\ record' = [record EXCEPT ![t].status = "running"]
    /\ UNCHANGED <<access, reply, losses, gone>>

ReadScope(t) ==
    /\ stream[t].pc = "sent"
    /\ stream' = [stream EXCEPT ![t].pc = "scoped", ![t].scope = HistoricalVisibility(t),
                            ![t].knew = Answered]
    /\ UNCHANGED <<access, record, reply, losses, gone>>

\* The replies that _history passes on; others are replaced by a notice
Quoted(t) == IF gone THEN {} ELSE {u \in Turns \ {t} : Shown(u)}

\* After three events have been sent and the tools are registered
ReadHistory(t) ==
    /\ stream[t].pc = "scoped"
    /\ stream' = [stream EXCEPT ![t].pc = "ask",
                            ![t].raced = Answered # stream[t].knew,
                            ![t].sources = UNION {reply[u].from : u \in Quoted(t)}]
    /\ UNCHANGED <<access, record, reply, losses, gone>>

\* Text that was streamed before the answer turned out to be what it is; none next to a card
Emissions(t) ==
    IF stream[t].pc = "ask" THEN {stream[t].emitted, Generated(t)} ELSE {stream[t].emitted}

\* The final answer; an empty one is an error
AnswerText(t) ==
    /\ stream[t].pc = "ask"
    /\ Settle(t, "succeeded", Generated(t))
    /\ UNCHANGED <<access, losses, gone>>

\* The provider fails, or answers nothing: the text so far, or an apology; also after a card
AnswerFails(t) ==
    /\ stream[t].pc \in {"ask", "card"}
    /\ \E e \in Emissions(t) : Settle(t, "failed", IF e.text THEN e ELSE Canned)
    /\ UNCHANGED <<access, losses, gone>>

\* Repairs of one round
RepairsOver(n) == n > MaxArgumentRepairs

\* AIClientToolArgumentsError: a bounded number of repairs in each round
AnswerInvalid(t) ==
    /\ stream[t].pc = "ask" /\ stream[t].tools /\ t \notin AgentTurns
    /\ record' = [record EXCEPT ![t].trace = @ \cup {Known({})}]
    /\ \E e \in Emissions(t) :
         stream' = [stream EXCEPT ![t].emitted = e, ![t].repairs = @ + 1, ![t].asked = @ + 1,
                              ![t].pc = IF RepairsOver(stream[t].repairs + 1) THEN "summary" ELSE "ask"]
    /\ UNCHANGED <<access, reply, losses, gone>>

AnswerCalls(t) ==
    /\ stream[t].pc = "ask" /\ stream[t].tools /\ t \notin AgentTurns
    /\ \E n \in 1..MaxBatch : \E batch \in [1..n -> Calls], e \in Emissions(t) :
         stream' = [stream EXCEPT ![t].pc = "call", ![t].todo = batch, ![t].emitted = e,
                              ![t].asked = @ + 1, ![t].failed = FALSE, ![t].hard = FALSE,
                              ![t].reused = FALSE]
    /\ UNCHANGED <<access, record, reply, losses, gone>>

\* The running entry is committed, then announced
StartCall(t) ==
    /\ stream[t].pc = "call" /\ stream[t].todo # <<>>
    /\ stream' = [stream EXCEPT ![t].pc = "execute"]
    /\ record' = [record EXCEPT ![t].open = TRUE]
    /\ UNCHANGED <<access, reply, losses, gone>>

\* _tool_visibility; a name that the registry does not have is unknown
EntryOf(c) == IF c \in Unlisted THEN Unknown ELSE Known(ScopeOf[c])

\* The entry is completed and committed
Complete(t, c, fields) ==
    /\ stream' = [stream EXCEPT ![t] = fields]
    /\ record' = [record EXCEPT ![t].open = FALSE, ![t].trace = @ \cup {EntryOf(c)}]

After(t) == [stream[t] EXCEPT !.pc = "call", !.todo = Tail(@)]

\* Mutant: only failures are remembered.
Executes_NoCache(t, c) == NameOf[c] \notin stream[t].blocked

\* Neither blocked nor answered before in this turn
Executes(t, c) == NameOf[c] \notin stream[t].blocked /\ c \notin stream[t].cached

CallSucceeds(t) ==
    LET c == Head(stream[t].todo)
    IN  /\ stream[t].pc = "execute" /\ c \notin QuotaCalls \cup Unlisted /\ Executes(t, c)
        /\ ScopeOf[c] \subseteq access
        /\ Complete(t, c, [After(t) EXCEPT !.cached = @ \cup {c}, !.sources = @ \cup ScopeOf[c],
                                           !.ran[c] = @ + 1])
        /\ UNCHANGED <<access, reply, losses, gone>>

\* An error of the route, of the arguments or of a quota preview; server errors are not retryable
CallFails(t) ==
    LET c == Head(stream[t].todo)
    IN  /\ stream[t].pc = "execute" /\ Executes(t, c)
        /\ \E hard \in IF c \in QuotaCalls \cup Unlisted THEN {FALSE} ELSE BOOLEAN :
             Complete(t, c, [After(t) EXCEPT !.failed = TRUE, !.hard = @ \/ hard,
                                 !.blocked = IF hard THEN @ \cup {NameOf[c]} ELSE @])
        /\ UNCHANGED <<access, reply, losses, gone>>

\* The first result again: of a failure that cannot be retried, or of the same call
CallIsAnswered(t) ==
    LET c == Head(stream[t].todo)
        blocked == NameOf[c] \in stream[t].blocked
    IN  /\ stream[t].pc = "execute" /\ ~Executes(t, c)
        /\ Complete(t, c, [After(t) EXCEPT !.failed = @ \/ blocked, !.hard = @ \/ blocked,
                                           !.reused = @ \/ ~blocked])
        /\ UNCHANGED <<access, reply, losses, gone>>

\* prepare_confirmation: the rest of the batch is dropped
CallNeedsConfirmation(t) ==
    LET c == Head(stream[t].todo)
    IN  /\ stream[t].pc = "execute" /\ c \in QuotaCalls
        /\ Complete(t, c, [After(t) EXCEPT !.pc = "confirm"])
        /\ UNCHANGED <<access, reply, losses, gone>>

\* prepare_confirmation for a quota tool that the user's registry does not have: a KeyError
QuotaToolMissing(t) ==
    /\ stream[t].pc = "execute" /\ Head(stream[t].todo) \in QuotaCalls
    /\ Settle(t, "failed", IF stream[t].emitted.text THEN stream[t].emitted ELSE Canned)
    /\ UNCHANGED <<access, losses, gone>>

AwaitConfirmation(t) ==
    /\ stream[t].pc = "confirm"
    /\ Settle(t, "awaiting_confirmation", Canned)
    /\ UNCHANGED <<access, losses, gone>>

\* claude_code_completion_stream: the SDK has a registered tool called while the agent answers;
\* execute_claude_code_tool, then record_claude_code_tool, with no event in between
AgentCall(t, c, fields) ==
    /\ t \in AgentTurns /\ stream[t].pc \in {"ask", "card"} /\ c \notin Unlisted
    /\ \E e \in Emissions(t) : stream' = [stream EXCEPT ![t] = [fields EXCEPT !.emitted = e]]
    /\ record' = [record EXCEPT ![t].trace = @ \cup {EntryOf(c)}]
    /\ UNCHANGED <<access, reply, losses, gone>>

\* No earlier result answers it
AgentCallSucceeds(t) ==
    \E c \in Calls \ QuotaCalls :
        /\ NameOf[c] \notin stream[t].blocked /\ ScopeOf[c] \subseteq access
        /\ stream[t].ran[c] < MaxRuns
        /\ AgentCall(t, c, [stream[t] EXCEPT !.sources = @ \cup ScopeOf[c], !.ran[c] = @ + 1])

\* An error, or the failure of before that cannot be retried
AgentCallFails(t) ==
    \E c \in Calls : \E hard \in IF c \in QuotaCalls THEN {FALSE} ELSE BOOLEAN :
        AgentCall(t, c, [stream[t] EXCEPT !.blocked = IF hard THEN @ \cup {NameOf[c]} ELSE @])

\* The agent goes on; what it says from now on is dropped
AgentCallNeedsConfirmation(t) ==
    \E c \in QuotaCalls : AgentCall(t, c, [stream[t] EXCEPT !.pc = "card"])

\* The card is shown when the agent has finished
AgentFinishes(t) ==
    /\ stream[t].pc = "card"
    /\ stream' = [stream EXCEPT ![t].pc = "confirm"]
    /\ UNCHANGED <<access, record, reply, losses, gone>>

LastRound(i) == i = MaxIterations

\* What the calls decide about the next round
FinishRound(t) ==
    LET r == stream[t]
        again == r.failed /\ ~r.hard
        over == (again /\ r.failures + 1 > MaxFailureRepairs) \/ LastRound(r.iteration)
    IN  /\ r.pc = "call" /\ r.todo = <<>>
        /\ stream' = [stream EXCEPT ![t] = [r EXCEPT
               !.pc = IF over THEN "summary" ELSE "ask",
               !.failures = IF again THEN @ + 1 ELSE @,
               !.tools = @ /\ ~r.hard /\ (r.failed \/ ~r.reused),
               !.iteration = @ + 1,
               !.repairs = 0]]
        /\ UNCHANGED <<access, record, reply, losses, gone>>

\* One more completion, without tools; a fixed text when it fails
Summarize(t) ==
    /\ stream[t].pc = "summary"
    /\ \E text \in {Generated(t), Canned} : Settle(t, "degraded", text)
    /\ UNCHANGED <<access, losses, gone>>

\* Mutant: a disconnection is also recorded after the turn has ended.
IsStreaming_Always(t) == stream[t].pc # "none"

IsStreaming(t) == stream[t].pc \in {"scoped", "ask", "call", "execute", "confirm", "summary"}

\* Mutant: a disconnection ends the turn silently.
Disconnect_Unrecorded(t) ==
    /\ IsStreaming(t)
    /\ stream' = [stream EXCEPT ![t].pc = "settled"]
    /\ UNCHANGED <<access, record, reply, losses, gone>>

\* GeneratorExit at an event: the text that was emitted, half of a reply perhaps
Disconnect(t) ==
    /\ IsStreaming(t)
    /\ \E e \in Emissions(t) : Settle(t, "cancelled", e)
    /\ UNCHANGED <<access, losses, gone>>

\* The process dies: audit and reply stay as they are
Die(t) ==
    /\ stream[t].pc \notin {"none", "settled", "lost"} /\ losses < MaxLosses
    /\ stream' = [stream EXCEPT ![t].pc = "lost"]
    /\ losses' = losses + 1
    /\ UNCHANGED <<access, record, reply, gone>>

LoseAccess ==
    /\ losses < MaxLosses
    /\ \E p \in access : access' = access \ {p}
    /\ losses' = losses + 1
    /\ UNCHANGED <<record, reply, stream, gone>>

\* delete_conversation: the messages go with it, the audits lose their conversation
DeleteConversation ==
    /\ ~gone
    /\ gone' = TRUE
    /\ reply' = [t \in Turns |-> NoReply]
    /\ UNCHANGED <<access, record, stream, losses>>

TurnStep(t) ==
    \/ ReadScope(t) \/ ReadHistory(t)
    \/ AnswerText(t) \/ AnswerFails(t) \/ AnswerInvalid(t) \/ AnswerCalls(t)
    \/ StartCall(t) \/ CallSucceeds(t) \/ CallFails(t) \/ CallIsAnswered(t)
    \/ CallNeedsConfirmation(t) \/ QuotaToolMissing(t) \/ AwaitConfirmation(t)
    \/ AgentCallSucceeds(t) \/ AgentCallFails(t) \/ AgentCallNeedsConfirmation(t) \/ AgentFinishes(t)
    \/ FinishRound(t) \/ Summarize(t)

ChatNext ==
    \/ \E t \in Turns : Send(t) \/ TurnStep(t) \/ Disconnect(t) \/ Die(t)
    \/ LoseAccess \/ DeleteConversation

ChatSpec == ChatInit /\ [][ChatNext]_chatVars

\* A generator is driven until it ends; calls and completions have time limits
ChatFairness == \A t \in Turns : WF_chatVars(TurnStep(t))

-----------------------------------------------------------------------------
(* Correctness.                                                            *)

\* Type invariant; the completions that a turn asks for are bounded by the settings, however
\* repairs, failures and rounds alternate.
ChatTypeOK ==
    /\ access \subseteq ReadableProjects
    /\ \A t \in Turns :
         /\ record[t].status \in {"none", "running"} \cup SettledStatuses
         /\ record[t].marker \in Visibility /\ record[t].trace \subseteq Visibility
         /\ record[t].open \in BOOLEAN
         /\ reply[t].text \in BOOLEAN /\ reply[t].from \subseteq ReadableProjects
         /\ stream[t].scope \in Visibility /\ stream[t].sources \subseteq ReadableProjects
         /\ stream[t].iteration \in 1..(MaxIterations + 1)
         /\ stream[t].repairs \in 0..(MaxArgumentRepairs + 1)
         /\ stream[t].failures \in 0..(MaxFailureRepairs + 1)
         /\ stream[t].asked \in 0..(MaxIterations * (MaxArgumentRepairs + 1))
    /\ losses \in 0..MaxLosses /\ gone \in BOOLEAN

\* A reply that the user can open speaks only of projects that the user can still read, though
\* it may summarize tool results of earlier turns through the history: the scope that a turn
\* keeps covers what its model was told.  It does not when another turn of the conversation is
\* written between the look at the scopes and the look at the history; "raced" marks these.
ShownWithinAccess ==
    (\A t \in Turns : ~stream[t].raced) => \A t \in Turns : Shown(t) => reply[t].from \subseteq access

\* A call that succeeded is not executed again in its turn, whatever the model asks for in one
\* batch or in later rounds: a write of a management tool happens once.  Not so in the turns
\* that an agent of claude_code answers, although docs/features/ai/chat/overview.md:71 says it of
\* every turn.
CallsRunOnce == \A t \in Turns \ AgentTurns, c \in Calls : stream[t].ran[c] <= 1

\* The outcome of a turn and its text are written once: a disconnection that comes after the
\* reply was stored does not turn it into a cancelled one.
OutcomesAreFinal ==
    [][\A t \in Turns : record[t].status \in SettledStatuses =>
          record'[t].status = record[t].status /\ (reply'[t] = reply[t] \/ gone')]_chatVars

\* Every turn ends with a settled audit, unless its process dies or its conversation is deleted.
TurnsSettle ==
    \A t \in Turns : record[t].status = "running" ~>
        record[t].status \in SettledStatuses \/ stream[t].pc = "lost"

-----------------------------------------------------------------------------
(* Refinement.                                                             *)

\* The row says "running" for ever when the generator is lost
StateOf(t) == IF stream[t].pc = "lost" THEN "abandoned" ELSE record[t].status

TurnStates == [t \in Turns |-> StateOf(t)]
Ran == [t \in Turns |-> stream[t].ran]
Learned == [t \in Turns |-> stream[t].sources]

Direct == Calls \ (QuotaCalls \cup Unlisted)

Contract == INSTANCE ChatContract WITH
    Projects <- ReadableProjects, Reusing <- Turns \ AgentTurns, Outcomes <- SettledStatuses,
    state <- TurnStates, ran <- Ran, learned <- Learned, answer <- reply, deleted <- gone

\* Generators, audits and messages implement ChatContract: whatever the model answers and however
\* the stream ends, a turn executes what it may, once unless an agent asks again, and writes its
\* outcome and reply together.
ImplementsContract == Contract!Spec
=============================================================================
