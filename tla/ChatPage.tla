------------------------------ MODULE ChatPage ------------------------------
(***************************************************************************)
(* The chat page of one browser tab.  It lists conversations, shows the    *)
(* messages of one of them and sends prompts; every request is answered    *)
(* while the user goes on clicking.  A prompt without an open conversation *)
(* creates one first.  A turn that prepares a quota adjustment shows a     *)
(* card, and the user decides while the response is read or later.  What   *)
(* the server does is the subject of ChatTurn and QuotaConfirmation: here  *)
(* it emits the events of a turn, stores how the turn ended and answers.   *)
(***************************************************************************)
EXTENDS Naturals, Sequences, FiniteSets

CONSTANTS
    Conversations,       \* those of the user, the ones that are still to be created included
    FirstConversations,  \* those that are there when the page is opened
    Prompts,             \* calls of send() that get past its first line, each with one turn
    Clicks,              \* bound: calls of getConversation under way at a time
    MaxWire,             \* bound: events of a response that are not yet read
    Nowhere, NoPrompt

ASSUME PageAssumption ==
    /\ FirstConversations \subseteq Conversations
    /\ Nowhere \notin Conversations /\ NoPrompt \notin Prompts
    /\ MaxWire \in Nat \ {0}

VARIABLES
    stored,      \* the conversations that the server has
    saved,       \* saved[s]: the status of the turn's assistant message on the server
    wire,        \* wire[s]: events of the response that the page has not read
    decided,     \* the prompts with a decision that the server has carried out
    listed,      \* conversations: the list on the left
    active,      \* activeConversationId
    shown,       \* messages: the status of each assistant message that is displayed, by its turn
    cards,       \* the displayed messages whose card has not been decided
    streaming,
    activeTurn,  \* activeTurnId
    controller,  \* abortController: the prompt whose request it aborts
    sending,     \* what each call of send() is doing, and its requestConversationId
    opening,     \* what each call of openConversation() is doing
    deciding,    \* the call of decideQuotaConfirmation() for each prompt, and what is still
                 \* displayed of what it was called for: the card, the message only, or neither
    removing     \* the conversations whose deletion the page has asked for

serverVars == <<stored, saved, wire, decided>>
viewVars == <<active, shown, activeTurn, cards, deciding>>
pageVars == <<stored, saved, wire, decided, listed, active, shown, cards, streaming, activeTurn,
              controller, sending, opening, deciding, removing>>

TerminalEvents == {"succeeded", "awaiting", "failed", "cancelled"}
MessageStatuses == {"none", "running", "streaming", "asking"} \cup TerminalEvents
Events == {"accepted", "delta", "card"} \cup TerminalEvents
SendStates == {"idle", "creating", "reading", "ending", "refreshing", "aborted", "done"}
NoMessages == [s \in Prompts |-> "none"]
NotOpening == [pc |-> "idle", at |-> Nowhere, messages |-> NoMessages]
NotDeciding == [pc |-> "idle", of |-> "nothing"]

PageTypeOK ==
    /\ stored \subseteq Conversations /\ listed \subseteq Conversations
    /\ removing \subseteq Conversations
    /\ active \in Conversations \cup {Nowhere}
    /\ saved \in [Prompts -> MessageStatuses] /\ shown \in [Prompts -> MessageStatuses]
    /\ wire \in [Prompts -> Seq(Events)] /\ \A s \in Prompts : Len(wire[s]) <= MaxWire
    /\ streaming \in BOOLEAN
    /\ activeTurn \in Prompts \cup {NoPrompt} /\ controller \in Prompts \cup {NoPrompt}
    /\ sending \in [Prompts -> [pc : SendStates, at : Conversations \cup {Nowhere}]]
    /\ opening \in [Clicks -> [pc : {"idle", "asked", "answered"},
                               at : Conversations \cup {Nowhere},
                               messages : [Prompts -> MessageStatuses]]]
    /\ decided \subseteq Prompts /\ cards \subseteq Prompts
    /\ deciding \in [Prompts -> [pc : {"idle", "asked", "done", "refused"},
                                of : {"card", "message", "nothing"}]]

PageInit ==
    /\ stored = FirstConversations /\ listed = FirstConversations /\ removing = {}
    /\ saved = NoMessages /\ shown = NoMessages
    /\ wire = [s \in Prompts |-> <<>>]
    /\ active = Nowhere /\ streaming = FALSE
    /\ activeTurn = NoPrompt /\ controller = NoPrompt
    /\ sending = [s \in Prompts |-> [pc |-> "idle", at |-> Nowhere]]
    /\ opening = [o \in Clicks |-> NotOpening]
    /\ decided = {} /\ cards = {} /\ deciding = [s \in Prompts |-> NotDeciding]

-----------------------------------------------------------------------------
(* send()                                                                  *)

\* From the first line after the conversation is known to the call of streamMessage
StartStream(s, c) ==
    /\ sending' = [sending EXCEPT ![s] = [pc |-> "reading", at |-> c]]
    /\ streaming' = TRUE /\ activeTurn' = NoPrompt /\ controller' = s

\* finally: of this send(), whichever request streams by now
EndSend(s) ==
    /\ sending' = [sending EXCEPT ![s].pc = "done"]
    /\ streaming' = FALSE /\ controller' = NoPrompt

\* The list of messages is a new one: a card comes with a message that awaits a decision, and
\* what a decision under way was made on is not displayed any more
ReplaceMessages(new) ==
    /\ shown' = new /\ cards' = {s \in Prompts : new[s] = "awaiting"}
    /\ deciding' = [s \in Prompts |-> [deciding[s] EXCEPT !.of = "nothing"]]

\* The message of the active turn, if it is displayed, gets this status
MarkActive(statuses, status) ==
    shown' = [s \in Prompts |->
                 IF s = activeTurn /\ shown[s] \in statuses THEN status ELSE shown[s]]

\* Send, retry, or going on after a degraded answer; activeConversation looks in the list
PressSend(s) ==
    /\ sending[s].pc = "idle" /\ ~streaming
    /\ \/ active \in listed /\ StartStream(s, active)
       \/ /\ active \notin listed
          /\ sending' = [sending EXCEPT ![s].pc = "creating"]
          /\ UNCHANGED <<streaming, activeTurn, controller>>
    /\ UNCHANGED <<serverVars, listed, active, shown, cards, deciding, opening, removing>>

ConversationCreated(s, c) ==
    /\ sending[s].pc = "creating"
    /\ c \in Conversations \ FirstConversations /\ \A r \in Prompts : sending[r].at # c
    /\ stored' = stored \cup {c} /\ listed' = listed \cup {c}
    /\ active' = c /\ ReplaceMessages(NoMessages)
    /\ StartStream(s, c)
    /\ UNCHANGED <<saved, wire, decided, opening, removing>>

\* The request fails; nothing that this send() set is there to be undone
CreationFails(s) ==
    /\ sending[s].pc = "creating"
    /\ MarkActive(MessageStatuses \ {"none"}, "failed")
    /\ EndSend(s)
    /\ UNCHANGED <<serverVars, listed, active, activeTurn, cards, deciding, opening, removing>>

-----------------------------------------------------------------------------
(* The response                                                            *)

Emit(s, event) ==
    /\ Len(wire[s]) < MaxWire
    /\ wire' = [wire EXCEPT ![s] = Append(@, event)]

\* The turn is stored; a request that the page aborts later may get here first
AcceptTurn(s) ==
    /\ sending[s].pc \in {"reading", "aborted"} /\ saved[s] = "none" /\ sending[s].at \in stored
    /\ saved' = [saved EXCEPT ![s] = "running"]
    /\ Emit(s, "accepted")

EmitDelta(s) ==
    /\ sending[s].pc = "reading" /\ saved[s] = "running"
    /\ Emit(s, "delta") /\ UNCHANGED saved

\* prepare_confirmation: the audit awaits a decision before the card is sent.  An agent may go
\* on and prepare another one.
EmitCard(s) ==
    /\ sending[s].pc = "reading" /\ saved[s] \in {"running", "asking"}
    /\ saved' = [saved EXCEPT ![s] = "asking"]
    /\ Emit(s, "card")

\* _terminal_message commits before the event is sent; a turn with a card awaits its decision
EndStoredTurn(s) ==
    /\ saved[s] \in {"running", "asking"} /\ sending[s].at \in stored
    /\ \E status \in TerminalEvents \ {IF saved[s] = "asking" THEN "succeeded" ELSE "awaiting"} :
           /\ saved' = [saved EXCEPT ![s] = status]
           /\ IF sending[s].pc = "reading" THEN Emit(s, status) ELSE UNCHANGED wire

ServerStep(s) ==
    /\ AcceptTurn(s) \/ EmitDelta(s) \/ EmitCard(s) \/ EndStoredTurn(s)
    /\ UNCHANGED <<stored, decided, listed, viewVars, streaming, controller, sending, opening, removing>>

\* Mutant: they are not dropped.
IsForThisPage_Always(s) == TRUE

\* Events of a conversation that is not open any more are dropped
IsForThisPage(s) == active = sending[s].at

\* The message gets a card of its own, also when it has one
AttachCard(s) ==
    /\ cards' = cards \cup {s}
    /\ deciding' = IF deciding[s].of = "card" THEN [deciding EXCEPT ![s].of = "message"] ELSE deciding

\* applyEvent: events other than accepted need their message on the page
ApplyEvent(s, event) ==
    \/ /\ ~IsForThisPage(s) \/ (event # "accepted" /\ shown[s] = "none")
       /\ UNCHANGED <<shown, activeTurn, cards, deciding>>
    \/ /\ IsForThisPage(s) /\ event = "accepted"
       /\ shown' = [shown EXCEPT ![s] = "running"] /\ activeTurn' = s
       /\ UNCHANGED <<cards, deciding>>
    \/ /\ IsForThisPage(s) /\ event = "delta" /\ shown[s] # "none"
       /\ shown' = [shown EXCEPT ![s] = "streaming"] /\ UNCHANGED <<activeTurn, cards, deciding>>
    \/ /\ IsForThisPage(s) /\ event = "card" /\ shown[s] # "none"
       /\ AttachCard(s) /\ UNCHANGED <<shown, activeTurn>>
    \/ /\ IsForThisPage(s) /\ event \in TerminalEvents /\ shown[s] # "none"
       /\ shown' = [shown EXCEPT ![s] = event]
       /\ activeTurn' = IF activeTurn = s THEN NoPrompt ELSE activeTurn
       /\ IF event = "awaiting" THEN AttachCard(s) ELSE UNCHANGED <<cards, deciding>>

\* dispatchSseEvent notes the terminal event whether or not the page uses it
ReadEvent(s) ==
    /\ sending[s].pc = "reading" /\ wire[s] # <<>>
    /\ LET event == Head(wire[s])
       IN  /\ ApplyEvent(s, event)
           /\ sending' = IF event \in TerminalEvents THEN [sending EXCEPT ![s].pc = "ending"] ELSE sending
    /\ wire' = [wire EXCEPT ![s] = Tail(@)]
    /\ UNCHANGED <<stored, saved, decided, listed, active, streaming, controller, opening, removing>>

StreamEnds(s) ==
    /\ sending[s].pc \in {"ending", "refreshing"}
    /\ EndSend(s)
    /\ UNCHANGED <<serverVars, listed, viewVars, opening, removing>>

\* Refused, cut off, or without a terminal event: the active turn is the one that fails
StreamFails(s) ==
    /\ sending[s].pc \in {"reading", "ending"}
    /\ wire' = [wire EXCEPT ![s] = <<>>]
    /\ MarkActive(MessageStatuses \ {"none"}, "failed")
    /\ EndSend(s)
    /\ UNCHANGED <<stored, saved, decided, listed, active, activeTurn, cards, deciding, opening,
                   removing>>

\* Status 422: the models are loaded again before finally; no message is marked
RefuseReasoning(s) ==
    /\ sending[s].pc = "reading" /\ saved[s] = "none"
    /\ sending' = [sending EXCEPT ![s].pc = "refreshing"]
    /\ UNCHANGED <<serverVars, listed, viewVars, streaming, controller, opening, removing>>

\* stop(): the button is there while streaming is set
PressStop ==
    /\ streaming
    /\ MarkActive({"streaming"}, "cancelled")
    /\ sending' = [s \in Prompts |->
                      IF s = controller /\ sending[s].pc \in {"reading", "ending"}
                      THEN [sending[s] EXCEPT !.pc = "aborted"] ELSE sending[s]]
    /\ UNCHANGED <<serverVars, listed, active, activeTurn, cards, deciding, streaming, controller,
                   opening, removing>>

\* AbortError reaches send()
AbortLands(s) ==
    /\ sending[s].pc = "aborted"
    /\ wire' = [wire EXCEPT ![s] = <<>>]
    /\ MarkActive({"streaming"}, "cancelled")
    /\ EndSend(s)
    /\ UNCHANGED <<stored, saved, decided, listed, active, activeTurn, cards, deciding, opening,
                   removing>>

-----------------------------------------------------------------------------
(* The card of a quota adjustment                                          *)

\* Cancel or confirm: whatever the status of the message.  The request names the conversation
\* that is open.  Bound: one call at a time for the cards of a prompt.
PressDecide(s) ==
    /\ s \in cards /\ deciding[s].pc = "idle"
    /\ deciding' = [deciding EXCEPT ![s] = [pc |-> "asked", of |-> "card"]]
    /\ UNCHANGED <<serverVars, listed, active, shown, activeTurn, cards, streaming, controller,
                   sending, opening, removing>>

\* decide_confirmation carries it out or refuses, or its answer does not arrive
AnswerDecision(s) ==
    /\ deciding[s].pc = "asked"
    /\ \/ /\ decided' = decided \cup {s}
          /\ \E pc \in {"done", "refused"} : deciding' = [deciding EXCEPT ![s].pc = pc]
       \/ /\ UNCHANGED decided
          /\ deciding' = [deciding EXCEPT ![s].pc = "refused"]
    /\ UNCHANGED <<stored, saved, wire, listed, active, shown, activeTurn, cards, streaming,
                   controller, sending, opening, removing>>

\* Mutant: an error marks the message, too.
IsGranted_Always(s) == TRUE

IsGranted(s) == deciding[s].pc = "done"

\* After the await: the message that was clicked is a success, also a cancelled or failed
\* adjustment; an error is written on the card
DecisionLands(s) ==
    /\ deciding[s].pc \in {"done", "refused"}
    /\ shown' = IF IsGranted(s) /\ deciding[s].of # "nothing"
                THEN [shown EXCEPT ![s] = "succeeded"] ELSE shown
    /\ cards' = IF IsGranted(s) /\ deciding[s].of = "card" THEN cards \ {s} ELSE cards
    /\ deciding' = [deciding EXCEPT ![s] = NotDeciding]
    /\ UNCHANGED <<serverVars, listed, active, activeTurn, streaming, controller, sending, opening,
                   removing>>

-----------------------------------------------------------------------------
(* The list of conversations                                               *)

OpenConversation(o, c) ==
    /\ ~streaming /\ opening[o].pc = "idle" /\ c \in listed
    /\ opening' = [opening EXCEPT ![o] = [NotOpening EXCEPT !.pc = "asked", !.at = c]]
    /\ UNCHANGED <<serverVars, listed, viewVars, streaming, controller, sending, removing>>

\* A row that tells of a decision is served as a success
StoredMessages(c, told) ==
    [s \in Prompts |-> CASE sending[s].at # c -> "none"
                         [] sending[s].at = c /\ s \in told -> "succeeded"
                         [] sending[s].at = c /\ s \notin told ->
                                IF saved[s] = "asking" THEN "awaiting" ELSE saved[s]]

\* The messages as they are when the server reads them, or not found.  The end of the turn may
\* have overwritten what a row told of a decision (QuotaConfirmation).
AnswerOpen(o) ==
    /\ opening[o].pc = "asked"
    /\ \E told \in SUBSET decided :
           opening' = [opening EXCEPT ![o] =
                          IF opening[o].at \in stored
                          THEN [pc |-> "answered", at |-> opening[o].at,
                                messages |-> StoredMessages(opening[o].at, told)]
                          ELSE NotOpening]
    /\ UNCHANGED <<serverVars, listed, viewVars, streaming, controller, sending, removing>>

\* After the await: whatever the page shows or streams by now is replaced
ShowConversation(o) ==
    /\ opening[o].pc = "answered"
    /\ active' = opening[o].at /\ ReplaceMessages(opening[o].messages)
    /\ opening' = [opening EXCEPT ![o] = NotOpening]
    /\ UNCHANGED <<serverVars, listed, streaming, activeTurn, controller, sending, removing>>

StartNewConversation ==
    /\ ~streaming
    /\ active' = Nowhere /\ ReplaceMessages(NoMessages) /\ activeTurn' = NoPrompt
    /\ UNCHANGED <<serverVars, listed, streaming, controller, sending, opening, removing>>

RemoveConversation(c) ==
    /\ c \in listed \ removing
    /\ removing' = removing \cup {c}
    /\ UNCHANGED <<serverVars, listed, viewVars, streaming, controller, sending, opening>>

\* The server deletes it, or refuses and the page keeps it
AnswerRemoval(c) ==
    /\ c \in removing \cap stored
    /\ \/ stored' = stored \ {c} /\ UNCHANGED removing
       \/ removing' = removing \ {c} /\ UNCHANGED stored
    /\ UNCHANGED <<saved, wire, decided, listed, viewVars, streaming, controller, sending, opening>>

ConversationRemoved(c) ==
    /\ c \in removing \ stored
    /\ removing' = removing \ {c} /\ listed' = listed \ {c}
    /\ IF active = c THEN active' = Nowhere /\ ReplaceMessages(NoMessages)
                     ELSE UNCHANGED <<active, shown, cards, deciding>>
    /\ UNCHANGED <<serverVars, streaming, activeTurn, controller, sending, opening>>

-----------------------------------------------------------------------------
PageNext ==
    \/ \E s \in Prompts :
           \/ PressSend(s) \/ CreationFails(s)
           \/ \E c \in Conversations : ConversationCreated(s, c)
           \/ ServerStep(s) \/ ReadEvent(s) \/ StreamEnds(s) \/ StreamFails(s)
           \/ RefuseReasoning(s) \/ AbortLands(s)
           \/ PressDecide(s) \/ AnswerDecision(s) \/ DecisionLands(s)
    \/ \E o \in Clicks :
           \/ \E c \in Conversations : OpenConversation(o, c)
           \/ AnswerOpen(o) \/ ShowConversation(o)
    \/ \E c \in Conversations :
           RemoveConversation(c) \/ AnswerRemoval(c) \/ ConversationRemoved(c)
    \/ PressStop \/ StartNewConversation

PageSpec == PageInit /\ [][PageNext]_pageVars

-----------------------------------------------------------------------------
\* An answer is displayed only in the conversation that its prompt was sent to, so a decision on
\* its card names the right one.  One that is displayed as succeeded is stored as such, or the
\* server has carried out a decision on its card, whatever became of the turn: applyEvent drops
\* events of a conversation that is not open, what opens another one replaces the messages in the
\* same step, and a decision marks the message that was clicked.
TurnsShownAtHome ==
    \A s \in Prompts :
        /\ shown[s] # "none" => sending[s].at = active
        /\ shown[s] = "succeeded" => saved[s] = "succeeded" \/ s \in decided

\* The design says that the page marks a stopped answer itself, since the terminal event may not
\* arrive any more.  stop() and the end of send() do so for messages in status "streaming".
StoppedIsMarked ==
    [][\A s \in Prompts :
          sending[s].pc = "aborted" /\ sending'[s].pc = "done" /\ shown[s] # "none"
              => shown'[s] \in TerminalEvents]_pageVars
=============================================================================
