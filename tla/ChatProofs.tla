----------------------------- MODULE ChatProofs -----------------------------
(***************************************************************************)
(* Theorems about QuotaConfirmation and about ChatPage.                    *)
(*                                                                         *)
(* A confirmation passes from its key to at most one request, the one that *)
(* deleted it (Single), and from there to an outcome that nothing changes  *)
(* any more (Settled).  Whatever a stale copy of the audit row brings back *)
(* is therefore still true (Truthful).                                     *)
(*                                                                         *)
(* The page displays the messages of the conversation that is open         *)
(* (ShownFits), because every answer on its way holds messages of one      *)
(* conversation (AnswersFit), every response tells what is stored          *)
(* (WireFits), and a prompt keeps its conversation (TargetsFit).           *)
(***************************************************************************)
EXTENDS QuotaConfirmation, ChatPage, TLAPS

\* Until its key is gone a confirmation has no holder, then at most one; it is
\* executed at most once, and not before its holder lets go.
Single ==
    \A c \in Confirmations :
        /\ executed[c] <= 1
        /\ token[c] # "gone" => executed[c] = 0 /\ \A d \in Deciders : ~ Holds(d, c)
        /\ \A d \in Deciders : Holds(d, c) =>
              executed[c] = 0 /\ \A e \in Deciders : Holds(e, c) => d = e

\* The outcome is what happened and nobody can change it.
Settled(c, outcome) ==
    /\ token[c] = "gone"
    /\ \A d \in Deciders : ~ Holds(d, c)
    /\ outcome \in {"succeeded", "failed"} => executed[c] = 1 /\ went[c] = outcome
    /\ outcome = "cancelled" => executed[c] = 0

Mentions(detail, c, outcome) == \E i \in DOMAIN detail : detail[i] = Entry(c, outcome)

\* The committed row says so, or the copy of a request, or a decision to come.
Recorded(c, outcome) ==
    \/ Mentions(audit.detail, c, outcome)
    \/ \E d \in Deciders : /\ req[d].pc \in {"loaded", "decided"}
                           /\ Mentions(req[d].detail, c, outcome)
    \/ \E d \in Deciders : req[d].pc = "decided" /\ req[d].c = c /\ req[d].outcome = outcome

Truthful ==
    \A c \in Confirmations, outcome \in Outcomes : Recorded(c, outcome) => Settled(c, outcome)

\* A request that is at work names a confirmation, and the outcome it decided;
\* a turn that has something to show has proposed something.
Shaped ==
    /\ \A d \in Deciders :
        /\ req[d].pc # "free" => req[d].c \in Confirmations
        /\ req[d].pc = "decided" => req[d].outcome \in Outcomes
    /\ turn.pc \in {"flushed", "proposed", "shown"} => turn.trace # <<>>

TypeInv == TypeOK /\ Shaped

LEMMA FreeRequest == Free \in Request /\ Free.pc = "free"
  BY DEF Free, Request, Detail, Statuses

\* A request that starts.
LEMMA AskedRequest ==
  ASSUME TypeInv, NEW d \in Deciders, Ask(d)
  PROVE \E q \in Request : /\ q.pc = "read"
                          /\ q.c \in Confirmations
                          /\ req' = [req EXCEPT ![d] = q]
<1>1. PICK c \in known : \E decision \in {"confirm", "cancel"}, mine \in BOOLEAN :
        req' = [req EXCEPT ![d] = Asked(c, decision, mine)]
  BY DEF Ask
<1>2. PICK decision \in {"confirm", "cancel"}, mine \in BOOLEAN :
        req' = [req EXCEPT ![d] = Asked(c, decision, mine)]
  BY <1>1
<1>3. c \in Confirmations BY DEF TypeInv, TypeOK
<1>4. <<>> \in Detail BY DEF Detail
<1>5. "running" \in Statuses BY DEF Statuses
<1>6. Asked(c, decision, mine) \in Request BY <1>3, <1>4, <1>5 DEF Asked, Request
<1>7. Asked(c, decision, mine).pc = "read" /\ Asked(c, decision, mine).c = c BY DEF Asked
<1> QED BY <1>2, <1>3, <1>6, <1>7

\* The trace of a turn, as entries of the audit row.
LEMMA TracedType == ASSUME TypeOK PROVE Traced \in Detail
<1>1. turn.trace \in Seq(Confirmations) BY DEF TypeOK
<1>2. \A i \in DOMAIN turn.trace : Entry(turn.trace[i], "awaiting_confirmation")
         \in [c : Confirmations, status : Outcomes \cup {"awaiting_confirmation"}]
  BY <1>1 DEF Entry
<1>3. DOMAIN turn.trace = 1..Len(turn.trace) /\ Len(turn.trace) \in Nat BY <1>1
<1> QED BY <1>2, <1>3 DEF Traced, Detail

\* The turn keeps its types.
LEMMA TurnTypes == ASSUME TypeInv, Turn \/ Reload PROVE TypeInv'
<1> USE DEF TypeInv, TypeOK, Shaped
<1>0. turn.trace \in Seq(Confirmations) OBVIOUS
<1>1. CASE Propose
  <2>1. PICK c \in Confirmations : /\ token' = [token EXCEPT ![c] = "live"]
                                   /\ turn' = [pc |-> "flushed", trace |-> Append(turn.trace, c)]
    BY <1>1 DEF Propose
  <2>2. Append(turn.trace, c) \in Seq(Confirmations) BY <1>0
  <2>3. Len(Append(turn.trace, c)) # Len(<<>>) BY <1>0
  <2> QED BY <1>1, <2>1, <2>2, <2>3 DEF Propose
<1>2. CASE Persist
  <2>1. PICK s \in {"awaiting_confirmation", audit.status} :
          audit' = [status |-> s, detail |-> Traced]
    BY <1>2 DEF Persist
  <2>2. s \in Statuses BY <2>1 DEF Statuses
  <2>3. audit' \in [status : Statuses, detail : Detail] BY <2>1, <2>2, TracedType
  <2>4. turn.pc = "flushed" /\ turn' = [turn EXCEPT !.pc = "proposed"]
        /\ UNCHANGED <<token, overdue, known, req, executed, went>>
    BY <1>2 DEF Persist
  <2>5. turn' \in [pc : {"running", "flushed", "proposed", "shown", "over"},
                   trace : Seq(Confirmations)]
        /\ turn'.pc = "proposed" /\ turn'.trace = turn.trace
    BY <2>4
  <2>6. TypeOK' BY <2>3, <2>4, <2>5
  <2>7. Shaped' BY <2>4, <2>5
  <2> HIDE DEF TypeOK, Shaped
  <2> QED BY <2>6, <2>7
<1>3. CASE PersistTool BY <1>3, TracedType DEF PersistTool
<1>4. CASE ShowCard
  <2>1. turn.trace # <<>> BY <1>4 DEF ShowCard
  <2>2. Len(turn.trace) \in 1..Len(turn.trace) BY <1>0, <2>1
  <2>3. turn.trace[Len(turn.trace)] \in Confirmations BY <1>0, <2>2
  <2>4. turn' = [turn EXCEPT !.pc = "shown"] BY <1>4 DEF ShowCard
  <2>5. turn'.trace = turn.trace /\ turn'.pc = "shown" BY <2>4
  <2>6. turn' \in [pc : {"running", "flushed", "proposed", "shown", "over"},
                   trace : Seq(Confirmations)]
    BY <2>4
  <2>7. known' \subseteq Confirmations BY <1>4, <2>3 DEF ShowCard
  <2>8. UNCHANGED <<token, overdue, audit, req, executed, went>> BY <1>4 DEF ShowCard
  <2>9. TypeOK' BY <2>6, <2>7, <2>8
  <2>10. Shaped' BY <2>1, <2>5, <2>8
  <2> HIDE DEF TypeOK, Shaped
  <2> QED BY <2>9, <2>10
<1>5. CASE EndTurn
  <2>1. PICK s \in Statuses : audit' = [status |-> s, detail |-> Traced]
    BY <1>5 DEF EndTurn
  <2>2. audit' \in [status : Statuses, detail : Detail] BY <2>1, TracedType
  <2>3. turn' = [turn EXCEPT !.pc = "over"] /\ UNCHANGED <<token, overdue, known, req, executed, went>>
    BY <1>5 DEF EndTurn
  <2>4. turn' \in [pc : {"running", "flushed", "proposed", "shown", "over"},
                   trace : Seq(Confirmations)] /\ turn'.pc = "over"
    BY <2>3
  <2>5. TypeOK' BY <2>2, <2>3, <2>4
  <2>6. Shaped' BY <2>3, <2>4
  <2> HIDE DEF TypeOK, Shaped
  <2> QED BY <2>5, <2>6
<1>6. CASE KillTurn BY <1>6 DEF KillTurn
<1>7. CASE Reload BY <1>7 DEF Reload
<1> QED BY <1>1, <1>2, <1>3, <1>4, <1>5, <1>6, <1>7 DEF Turn

\* A request that takes one of its own steps keeps the types of all of them.
LEMMA RequestTypes ==
  ASSUME TypeInv, NEW d \in Deciders, NEW q \in Request,
         req' = [req EXCEPT ![d] = q],
         q.pc # "free" => q.c \in Confirmations,
         q.pc = "decided" => q.outcome \in Outcomes,
         UNCHANGED turn
  PROVE req' \in [Deciders -> Request] /\ Shaped'
<1>1. req' \in [Deciders -> Request] BY DEF TypeInv, TypeOK
<1>2. \A e \in Deciders : req'[e] = IF e = d THEN q ELSE req[e] BY DEF TypeInv, TypeOK
<1> QED BY <1>1, <1>2 DEF TypeInv, Shaped

\* So does a request.
LEMMA DecideTypes == ASSUME TypeInv, NEW d \in Deciders, Decide(d) PROVE TypeInv'
<1>0. /\ token \in [Confirmations -> {"none", "live", "gone"}]
      /\ overdue \subseteq Confirmations
      /\ turn \in [pc : {"running", "flushed", "proposed", "shown", "over"},
                   trace : Seq(Confirmations)]
      /\ audit \in [status : Statuses, detail : Detail]
      /\ known \subseteq Confirmations
      /\ executed \in [Confirmations -> Nat]
      /\ went \in [Confirmations -> {"none", "succeeded", "failed"}]
  BY DEF TypeInv, TypeOK
<1>q. /\ req[d] \in Request
      /\ req[d].pc # "free" => req[d].c \in Confirmations
      /\ req[d].pc = "decided" => req[d].outcome \in Outcomes
  BY DEF TypeInv, TypeOK, Shaped
<1>f. ASSUME req' = [req EXCEPT ![d] = Free], UNCHANGED turn
      PROVE req' \in [Deciders -> Request] /\ Shaped'
  BY <1>f, FreeRequest, RequestTypes
<1>1. CASE Ask(d)
  <2>1. PICK q \in Request : /\ q.pc = "read"
                           /\ q.c \in Confirmations
                           /\ req' = [req EXCEPT ![d] = q]
    BY <1>1, AskedRequest
  <2>2. UNCHANGED <<token, overdue, turn, audit, known, executed, went>> BY <1>1 DEF Ask
  <2>3. req' \in [Deciders -> Request] /\ Shaped' BY <2>1, <2>2, RequestTypes
  <2> QED BY <1>0, <2>2, <2>3 DEF TypeInv, TypeOK
<1>2. CASE Consume(d)
  <2> DEFINE q == [req[d] EXCEPT !.pc = "consumed"]
  <2>1. q \in Request /\ q.pc = "consumed" /\ q.c = req[d].c BY <1>q DEF Request
  <2>2. CASE req' = [req EXCEPT ![d].pc = "consumed"]
    <3>1. req' = [req EXCEPT ![d] = q] BY <2>2
    <3>2. req[d].pc # "free" BY <1>2 DEF Consume
    <3> HIDE DEF q
    <3>3. req' \in [Deciders -> Request] /\ Shaped'
      BY <1>2, <1>q, <2>1, <3>1, <3>2, RequestTypes DEF Consume
    <3> QED BY <1>0, <1>2, <3>3 DEF Consume, TypeInv, TypeOK
  <2>3. CASE req' = [req EXCEPT ![d] = Free]
    BY <1>0, <1>2, <1>f, <2>3 DEF Consume, TypeInv, TypeOK
  <2> QED BY <1>2, <2>2, <2>3 DEF Consume
<1>3. CASE Refuse(d) BY <1>0, <1>3, <1>f DEF Refuse, TypeInv, TypeOK
<1>4. CASE LoadAudit(d)
  <2> DEFINE q == [req[d] EXCEPT !.pc = "loaded", !.status = audit.status,
                                 !.detail = audit.detail]
  <2>1. audit.status \in Statuses /\ audit.detail \in Detail BY <1>0
  <2>2. q \in Request /\ q.pc = "loaded" /\ q.c = req[d].c BY <1>q, <2>1 DEF Request
  <2>3. req' = [req EXCEPT ![d] = q] BY <1>4 DEF LoadAudit
  <2>4. req[d].pc # "free" BY <1>4 DEF LoadAudit
  <2> HIDE DEF q
  <2>5. req' \in [Deciders -> Request] /\ Shaped'
    BY <1>4, <1>q, <2>2, <2>3, <2>4, RequestTypes DEF LoadAudit
  <2> QED BY <1>0, <1>4, <2>5 DEF LoadAudit, TypeInv, TypeOK
<1>d. ASSUME NEW outcome \in Outcomes, req[d].pc # "free", UNCHANGED turn,
             req' = [req EXCEPT ![d].pc = "decided", ![d].outcome = outcome]
      PROVE req' \in [Deciders -> Request] /\ Shaped'
  <2> DEFINE q == [req[d] EXCEPT !.pc = "decided", !.outcome = outcome]
  <2>1. q \in Request /\ q.outcome = outcome /\ q.c = req[d].c BY <1>q DEF Request
  <2>2. req' = [req EXCEPT ![d] = q] BY <1>d
  <2> HIDE DEF q
  <2> QED BY <1>d, <1>q, <2>1, <2>2, RequestTypes
<1>5. CASE Cancel(d)
  <2>1. "cancelled" \in Outcomes BY DEF Outcomes
  <2> QED BY <1>0, <1>5, <1>d, <2>1 DEF Cancel, TypeInv, TypeOK
<1>6. CASE Execute(d)
  <2>1. PICK outcome \in {"succeeded", "failed"} :
          /\ went' = [went EXCEPT ![req[d].c] = outcome]
          /\ req' = [req EXCEPT ![d].pc = "decided", ![d].outcome = outcome]
    BY <1>6 DEF Execute
  <2>2. outcome \in Outcomes BY DEF Outcomes
  <2>3. req' \in [Deciders -> Request] /\ Shaped'
    BY <1>6, <1>d, <2>1, <2>2 DEF Execute
  <2>4. executed' \in [Confirmations -> Nat] /\ went' \in [Confirmations -> {"none", "succeeded", "failed"}]
    BY <1>0, <1>6, <1>q, <2>1 DEF Execute
  <2> QED BY <1>0, <1>6, <2>3, <2>4 DEF Execute, TypeInv, TypeOK
<1>7. CASE CommitDecision(d)
  <2> DEFINE E == [c : Confirmations, status : Outcomes \cup {"awaiting_confirmation"}]
  <2>1. Entry(req[d].c, req[d].outcome) \in E
    BY <1>7, <1>q DEF CommitDecision, Entry
  <2>2. req[d].detail \in Seq(E) BY <1>q DEF Request, Detail
  <2> HIDE DEF E
  <2>3. Append(req[d].detail, Entry(req[d].c, req[d].outcome)) \in Seq(E)
    BY <2>1, <2>2
  <2>4. Written(req[d].status, req[d].outcome, audit.status) \in Statuses
    BY <1>0, <1>7, <1>q DEF CommitDecision, Written, Statuses
  <2>5. audit' \in [status : Statuses, detail : Detail]
    BY <1>7, <2>3, <2>4 DEF CommitDecision, Detail, E
  <2> QED BY <1>0, <1>7, <1>f, <2>5 DEF CommitDecision, TypeInv, TypeOK
<1>8. CASE KillDecision(d) BY <1>0, <1>8, <1>f DEF KillDecision, TypeInv, TypeOK
<1> QED BY <1>1, <1>2, <1>3, <1>4, <1>5, <1>6, <1>7, <1>8 DEF Decide

LEMMA TypeStep == TypeInv /\ [Next]_vars => TypeInv'
<1> SUFFICES ASSUME TypeInv, [Next]_vars PROVE TypeInv'
  OBVIOUS
<1>1. CASE Turn \/ Reload BY <1>1, TurnTypes
<1>2. CASE \E d \in Deciders : Decide(d) BY <1>2, DecideTypes
<1>3. CASE \E c \in Confirmations : CardExpires(c) \/ TokenExpires(c)
  BY <1>3 DEF CardExpires, TokenExpires, TypeInv, TypeOK, Shaped
<1>4. CASE UNCHANGED vars BY <1>4 DEF vars, TypeInv, TypeOK, Shaped
<1> QED BY <1>1, <1>2, <1>3, <1>4 DEF Next

LEMMA InitTypes == Init => TypeInv
  BY FreeRequest DEF Init, TypeInv, TypeOK, Shaped, Detail, Statuses, Free

\* The types are an invariant.
THEOREM TypeCorrect == Spec => []TypeOK
<1>1. TypeInv => TypeOK BY DEF TypeInv
<1> QED BY InitTypes, TypeStep, <1>1, PTL DEF Spec

-----------------------------------------------------------------------------
(* At most one execution                                                   *)

LEMMA SingleStep == ASSUME TypeInv, Single, [Next]_vars PROVE Single'
<1>0. ASSUME UNCHANGED <<token, executed, went>>,
             \A e \in Deciders : \A x \in Confirmations : Holds(e, x)' => Holds(e, x)
      PROVE Single'
  BY <1>0 DEF Single
<1> USE DEF Single, Holds
<1>1. ASSUME NEW d \in Deciders, Decide(d) PROVE Single'
  <2> USE DEF TypeInv, TypeOK, Shaped
  <2>1. CASE Ask(d)
    <3>1. PICK q \in Request : q.pc = "read" /\ req' = [req EXCEPT ![d] = q]
      BY <2>1, AskedRequest
    <3>2. UNCHANGED <<token, executed, went>> BY <2>1 DEF Ask
    <3>3. \A e \in Deciders : req'[e].pc \in {"consumed", "loaded"} => req'[e] = req[e]
      BY <3>1
    <3>4. \A e \in Deciders : \A x \in Confirmations : Holds(e, x)' => Holds(e, x)
      BY <3>3 DEF Holds
    <3> HIDE DEF Single, Holds
    <3> QED BY <3>2, <3>4, <1>0
  <2>2. CASE Consume(d)
    <3>1. /\ token[req[d].c] = "live"
          /\ token' = [token EXCEPT ![req[d].c] = "gone"]
          /\ UNCHANGED <<executed, went>>
      BY <2>2 DEF Consume
    <3>2. \A e \in Deciders : e # d => req'[e] = req[e] BY <2>2 DEF Consume
    <3>3. req'[d].pc = "free" \/ req'[d].c = req[d].c
      <4>1. CASE req' = [req EXCEPT ![d] = Free] BY <4>1, FreeRequest
      <4>2. CASE req' = [req EXCEPT ![d].pc = "consumed"] BY <4>2
      <4> QED BY <2>2, <4>1, <4>2 DEF Consume
    <3>4. req[d].c \in Confirmations BY <2>2 DEF Consume
    <3>5. token \in [Confirmations -> {"none", "live", "gone"}] OBVIOUS
    <3> HIDE DEF TypeInv, TypeOK, Shaped
    <3> QED BY <3>1, <3>2, <3>3, <3>4, <3>5
  <2>3. CASE Refuse(d) BY <2>3, FreeRequest DEF Refuse
  <2>4. CASE LoadAudit(d) BY <2>4 DEF LoadAudit
  <2>5. CASE Cancel(d) BY <2>5 DEF Cancel
  <2>6. CASE Execute(d) BY <2>6 DEF Execute
  <2>7. CASE CommitDecision(d) BY <2>7, FreeRequest DEF CommitDecision
  <2>8. CASE KillDecision(d) BY <2>8, FreeRequest DEF KillDecision
  <2> QED BY <1>1, <2>1, <2>2, <2>3, <2>4, <2>5, <2>6, <2>7, <2>8 DEF Decide
<1>2. CASE Propose BY <1>2 DEF Propose, TypeInv, TypeOK
<1>3. CASE Persist \/ PersistTool \/ ShowCard \/ EndTurn \/ KillTurn \/ Reload \/ UNCHANGED vars
  BY <1>3 DEF Persist, PersistTool, ShowCard, EndTurn, KillTurn, Reload, vars
<1>4. CASE \E c \in Confirmations : CardExpires(c) \/ TokenExpires(c)
  BY <1>4 DEF CardExpires, TokenExpires, TypeInv, TypeOK
<1> QED BY <1>1, <1>2, <1>3, <1>4 DEF Next, Turn

\* However many administrators, tabs and lost answers: one execution at most.
THEOREM AtMostOnce == Spec => []ExecutedAtMostOnce
<1>1. Init => TypeInv /\ Single
  BY InitTypes DEF Init, Single, Holds, Free
<1>2. TypeInv /\ Single /\ [Next]_vars => TypeInv' /\ Single'
  BY TypeStep, SingleStep
<1>3. Single => ExecutedAtMostOnce BY DEF Single, ExecutedAtMostOnce
<1> QED BY <1>1, <1>2, <1>3, PTL DEF Spec

-----------------------------------------------------------------------------
(* Outcomes are true                                                       *)

\* No step undoes a settled outcome.
LEMMA SettledStays ==
  ASSUME TypeInv, [Next]_vars, NEW c \in Confirmations, NEW o, Settled(c, o)
  PROVE Settled(c, o)'
<1>0. ASSUME UNCHANGED <<token, executed, went>>,
             \A e \in Deciders : \A x \in Confirmations : Holds(e, x)' => Holds(e, x)
      PROVE Settled(c, o)'
  BY <1>0 DEF Settled
<1> USE DEF Settled, Holds
<1>1. ASSUME NEW d \in Deciders, Decide(d) PROVE Settled(c, o)'
  <2> USE DEF TypeInv, TypeOK, Shaped
  <2>1. CASE Ask(d)
    <3>1. PICK q \in Request : q.pc = "read" /\ req' = [req EXCEPT ![d] = q]
      BY <2>1, AskedRequest
    <3>2. UNCHANGED <<token, executed, went>> BY <2>1 DEF Ask
    <3>3. \A e \in Deciders : req'[e].pc \in {"consumed", "loaded"} => req'[e] = req[e]
      BY <3>1
    <3>4. \A e \in Deciders : \A x \in Confirmations : Holds(e, x)' => Holds(e, x)
      BY <3>3 DEF Holds
    <3> HIDE DEF Settled, Holds
    <3> QED BY <3>2, <3>4, <1>0
  <2>2. CASE Consume(d)
    <3>1. /\ token[req[d].c] = "live"
          /\ token' = [token EXCEPT ![req[d].c] = "gone"]
          /\ UNCHANGED <<executed, went>>
      BY <2>2 DEF Consume
    <3>2. \A e \in Deciders : e # d => req'[e] = req[e] BY <2>2 DEF Consume
    <3>3. req'[d].pc = "free" \/ req'[d].c = req[d].c
      <4>1. CASE req' = [req EXCEPT ![d] = Free] BY <4>1, FreeRequest
      <4>2. CASE req' = [req EXCEPT ![d].pc = "consumed"] BY <4>2
      <4> QED BY <2>2, <4>1, <4>2 DEF Consume
    <3>4. req[d].c \in Confirmations BY <2>2 DEF Consume
    <3>5. token \in [Confirmations -> {"none", "live", "gone"}] OBVIOUS
    <3> HIDE DEF TypeInv, TypeOK, Shaped
    <3> QED BY <3>1, <3>2, <3>3, <3>4, <3>5
  <2>3. CASE Refuse(d) BY <2>3, FreeRequest DEF Refuse
  <2>4. CASE LoadAudit(d) BY <2>4 DEF LoadAudit
  <2>5. CASE Cancel(d) BY <2>5 DEF Cancel
  <2>6. CASE Execute(d) BY <2>6 DEF Execute
  <2>7. CASE CommitDecision(d) BY <2>7, FreeRequest DEF CommitDecision
  <2>8. CASE KillDecision(d) BY <2>8, FreeRequest DEF KillDecision
  <2> QED BY <1>1, <2>1, <2>2, <2>3, <2>4, <2>5, <2>6, <2>7, <2>8 DEF Decide
<1>2. CASE Propose BY <1>2 DEF Propose, TypeInv, TypeOK
<1>3. CASE Persist \/ PersistTool \/ ShowCard \/ EndTurn \/ KillTurn \/ Reload \/ UNCHANGED vars
  BY <1>3 DEF Persist, PersistTool, ShowCard, EndTurn, KillTurn, Reload, vars
<1>4. CASE \E x \in Confirmations : CardExpires(x) \/ TokenExpires(x)
  BY <1>4 DEF CardExpires, TokenExpires, TypeInv, TypeOK
<1> QED BY <1>1, <1>2, <1>3, <1>4 DEF Next, Turn

\* A step of a request records nothing but what was recorded, or what it decides.
LEMMA RequestRecords ==
  ASSUME TypeInv, Single, NEW d \in Deciders, Decide(d),
         NEW c \in Confirmations, NEW o \in Outcomes, Recorded(c, o)'
  PROVE Recorded(c, o) \/ Settled(c, o)'
<1>q. req \in [Deciders -> Request] BY DEF TypeInv, TypeOK
<1>0. ASSUME UNCHANGED audit, \A e \in Deciders : e # d => req'[e] = req[e],
             req'[d].pc \notin {"loaded", "decided"}
      PROVE Recorded(c, o)
  BY <1>0 DEF Recorded
<1>f. ASSUME req' = [req EXCEPT ![d] = Free]
      PROVE (\A e \in Deciders : e # d => req'[e] = req[e]) /\ req'[d].pc = "free"
  BY <1>q, <1>f, FreeRequest
<1>1. CASE Ask(d)
  <2>1. PICK q \in Request : q.pc = "read" /\ req' = [req EXCEPT ![d] = q]
    BY <1>1, AskedRequest
  <2>2. (\A e \in Deciders : e # d => req'[e] = req[e]) /\ req'[d].pc = "read"
    BY <1>q, <2>1
  <2>3. UNCHANGED audit BY <1>1 DEF Ask
  <2> QED BY <1>0, <2>2, <2>3
<1>2. CASE Consume(d)
  <2>1. UNCHANGED audit BY <1>2 DEF Consume
  <2>2. CASE req' = [req EXCEPT ![d] = Free] BY <1>0, <1>f, <2>1, <2>2
  <2>3. CASE req' = [req EXCEPT ![d].pc = "consumed"]
    <3>1. (\A e \in Deciders : e # d => req'[e] = req[e]) /\ req'[d].pc = "consumed"
      BY <1>q, <2>3 DEF Request
    <3> QED BY <1>0, <2>1, <3>1
  <2> QED BY <1>2, <2>2, <2>3 DEF Consume
<1>3. CASE Refuse(d) \/ KillDecision(d)
  <2>1. UNCHANGED audit /\ req' = [req EXCEPT ![d] = Free] BY <1>3 DEF Refuse, KillDecision
  <2> QED BY <1>0, <1>f, <2>1
<1>4. CASE LoadAudit(d)
  <2>1. req' = [req EXCEPT ![d].pc = "loaded", ![d].status = audit.status,
                           ![d].detail = audit.detail]
        /\ UNCHANGED audit
    BY <1>4 DEF LoadAudit
  <2>2. /\ \A e \in Deciders : e # d => req'[e] = req[e]
        /\ req'[d].pc = "loaded" /\ req'[d].detail = audit.detail
    BY <1>q, <2>1 DEF Request
  <2> QED BY <2>1, <2>2 DEF Recorded
\* The holder decides: nobody else holds the confirmation, and its key is gone.
<1>d. ASSUME NEW outcome \in Outcomes, req[d].pc = "loaded", UNCHANGED <<audit, token>>,
             req' = [req EXCEPT ![d].pc = "decided", ![d].outcome = outcome],
             \/ outcome = "cancelled" /\ executed' = executed
             \/ /\ outcome \in {"succeeded", "failed"}
                /\ executed' = [executed EXCEPT ![req[d].c] = @ + 1]
                /\ went' = [went EXCEPT ![req[d].c] = outcome]
      PROVE Recorded(c, o) \/ Settled(c, o)'
  <2> DEFINE x == req[d].c
  <2>1. /\ \A e \in Deciders : e # d => req'[e] = req[e]
        /\ req'[d].pc = "decided" /\ req'[d].outcome = outcome
        /\ req'[d].c = x /\ req'[d].detail = req[d].detail
    BY <1>q, <1>d DEF Request
  <2>2. x \in Confirmations BY <1>d DEF TypeInv, Shaped
  <2>3. token[x] \in {"none", "live", "gone"} BY <2>2 DEF TypeInv, TypeOK
  <2>4. Holds(d, x) BY <1>d DEF Holds
  <2>5. token[x] = "gone" /\ executed[x] = 0 BY <2>2, <2>3, <2>4 DEF Single
  <2>6. \A e \in Deciders : e # d => ~ Holds(e, x) BY <2>2, <2>4 DEF Single
  <2>7. Recorded(c, o) \/ (c = x /\ o = outcome) BY <1>d, <2>1 DEF Recorded
  <2>8. CASE c = x /\ o = outcome
    <3>1. token'[c] = "gone" BY <1>d, <2>5, <2>8
    <3>2. \A e \in Deciders : ~ (req'[e].pc \in {"consumed", "loaded"} /\ req'[e].c = c)
      BY <2>1, <2>6, <2>8 DEF Holds
    <3>3. /\ o \in {"succeeded", "failed"} => executed'[c] = 1 /\ went'[c] = o
          /\ o = "cancelled" => executed'[c] = 0
      BY <1>d, <2>2, <2>5, <2>8 DEF TypeInv, TypeOK
    <3> QED BY <3>1, <3>2, <3>3 DEF Settled, Holds
  <2> QED BY <2>7, <2>8
<1>5. CASE Cancel(d)
  <2>1. "cancelled" \in Outcomes BY DEF Outcomes
  <2> QED BY <1>5, <1>d, <2>1 DEF Cancel
<1>6. CASE Execute(d)
  <2>1. PICK outcome \in {"succeeded", "failed"} :
          /\ went' = [went EXCEPT ![req[d].c] = outcome]
          /\ req' = [req EXCEPT ![d].pc = "decided", ![d].outcome = outcome]
    BY <1>6 DEF Execute
  <2>2. outcome \in Outcomes BY DEF Outcomes
  <2> QED BY <1>6, <1>d, <2>1, <2>2 DEF Execute
<1>7. CASE CommitDecision(d)
  <2> DEFINE E == [c : Confirmations, status : Outcomes \cup {"awaiting_confirmation"}]
             n == Entry(req[d].c, req[d].outcome)
  <2>1. /\ req[d].pc = "decided" /\ req' = [req EXCEPT ![d] = Free]
        /\ audit'.detail = Append(req[d].detail, n)
    BY <1>7 DEF CommitDecision
  <2>2. req[d].detail \in Seq(E) BY <1>q DEF Request, Detail
  <2>3. Mentions(audit'.detail, c, o) => Mentions(req[d].detail, c, o) \/ Entry(c, o) = n
    <3> SUFFICES ASSUME NEW i \in DOMAIN audit'.detail, audit'.detail[i] = Entry(c, o)
                 PROVE Mentions(req[d].detail, c, o) \/ Entry(c, o) = n
      BY DEF Mentions
    <3> HIDE DEF E, n
    <3>1. i \in 1..(Len(req[d].detail) + 1) BY <2>1, <2>2
    <3>2. CASE i = Len(req[d].detail) + 1 BY <2>1, <2>2, <3>2
    <3>3. CASE i \in 1..Len(req[d].detail)
      <4>1. req[d].detail[i] = Entry(c, o) BY <2>1, <2>2, <3>3
      <4> QED BY <2>2, <3>3, <4>1 DEF Mentions
    <3> QED BY <2>2, <3>1, <3>2, <3>3
  <2>4. Entry(c, o) = n => req[d].c = c /\ req[d].outcome = o BY DEF Entry
  <2>5. (\A e \in Deciders : e # d => req'[e] = req[e]) /\ req'[d].pc = "free"
    BY <1>f, <2>1
  <2>6. Recorded(c, o)' =>
          \/ Mentions(audit'.detail, c, o)
          \/ \E e \in Deciders : e # d /\ req'[e].pc \in {"loaded", "decided"}
                                        /\ Mentions(req'[e].detail, c, o)
          \/ \E e \in Deciders : e # d /\ req'[e].pc = "decided" /\ req'[e].c = c
                                        /\ req'[e].outcome = o
    BY <2>5 DEF Recorded, Mentions
  <2> HIDE DEF n
  <2> QED BY <2>1, <2>3, <2>4, <2>5, <2>6 DEF Recorded
<1> QED BY <1>1, <1>2, <1>3, <1>4, <1>5, <1>6, <1>7 DEF Decide

\* A step of the turn records nothing: what it writes is its trace.
LEMMA TurnRecords ==
  ASSUME TypeInv, Turn \/ Reload,
         NEW c \in Confirmations, NEW o \in Outcomes, Recorded(c, o)'
  PROVE Recorded(c, o)
<1>1. ~ Mentions(Traced, c, o) BY DEF Mentions, Traced, Entry, Outcomes
<1>2. audit'.detail = Traced \/ audit'.detail = audit.detail
  <2>1. CASE Persist BY <2>1 DEF Persist
  <2>2. CASE PersistTool BY <2>2 DEF PersistTool, TypeInv, TypeOK
  <2>3. CASE EndTurn BY <2>3 DEF EndTurn
  <2>4. CASE Propose \/ ShowCard \/ KillTurn \/ Reload
    BY <2>4 DEF Propose, ShowCard, KillTurn, Reload
  <2> QED BY <2>1, <2>2, <2>3, <2>4 DEF Turn
<1>3. req' = req
  BY DEF Turn, Propose, Persist, PersistTool, ShowCard, EndTurn, KillTurn, Reload
<1>4. Recorded(c, o)' =>
        \/ Mentions(audit'.detail, c, o)
        \/ \E d \in Deciders : /\ req[d].pc \in {"loaded", "decided"}
                               /\ Mentions(req[d].detail, c, o)
        \/ \E d \in Deciders : req[d].pc = "decided" /\ req[d].c = c /\ req[d].outcome = o
  BY <1>3 DEF Recorded, Mentions
<1> QED BY <1>1, <1>2, <1>4 DEF Recorded

LEMMA TruthfulStep == ASSUME TypeInv, Single, Truthful, [Next]_vars PROVE Truthful'
<1> SUFFICES ASSUME NEW c \in Confirmations, NEW o \in Outcomes, Recorded(c, o)'
             PROVE Settled(c, o)'
  BY DEF Truthful
<1>1. Recorded(c, o) \/ Settled(c, o)'
  <2>1. CASE Turn \/ Reload BY <2>1, TurnRecords
  <2>2. CASE \E d \in Deciders : Decide(d) BY <2>2, RequestRecords
  <2>3. CASE (\E x \in Confirmations : CardExpires(x) \/ TokenExpires(x)) \/ UNCHANGED vars
    <3>1. UNCHANGED <<audit, req>> BY <2>3 DEF CardExpires, TokenExpires, vars
    <3> QED BY <3>1 DEF Recorded, Mentions
  <2> QED BY <2>1, <2>2, <2>3 DEF Next
<1>2. Recorded(c, o) => Settled(c, o) BY DEF Truthful
<1> QED BY <1>1, <1>2, SettledStays

\* What the audit row says of a proposal is what happened to it.
THEOREM OutcomesTrue == Spec => []OutcomeIsTrue
<1>1. Init => TypeInv /\ Single /\ Truthful
  <2>1. Init => TypeInv /\ Single BY InitTypes DEF Init, Single, Holds, Free
  <2>2. Init => Truthful BY DEF Init, Truthful, Recorded, Mentions, Free
  <2> QED BY <2>1, <2>2
<1>2. TypeInv /\ Single /\ Truthful /\ [Next]_vars => TypeInv' /\ Single' /\ Truthful'
  BY TypeStep, SingleStep, TruthfulStep
<1>3. TypeInv /\ Truthful => OutcomeIsTrue
  <2> SUFFICES ASSUME TypeInv, Truthful, NEW i \in DOMAIN audit.detail,
                      audit.detail[i].status \in Outcomes
               PROVE Settled(audit.detail[i].c, audit.detail[i].status)
    BY DEF OutcomeIsTrue, Settled, Outcomes
  <2> DEFINE E == [c : Confirmations, status : Outcomes \cup {"awaiting_confirmation"}]
             e == audit.detail[i]
  <2>1. audit.detail \in Seq(E) BY DEF TypeInv, TypeOK, Detail
  <2> HIDE DEF E
  <2>2. e \in E BY <2>1
  <2>3. e.c \in Confirmations /\ e = Entry(e.c, e.status) BY <2>2 DEF E, Entry
  <2>4. Mentions(audit.detail, e.c, e.status) BY <2>3 DEF Mentions
  <2>5. Recorded(e.c, e.status) BY <2>4 DEF Recorded
  <2> QED BY <2>3, <2>5 DEF Truthful
<1> QED BY <1>1, <1>2, <1>3, PTL DEF Spec

-----------------------------------------------------------------------------
(* What a reload shows stays                                               *)

\* The request has consumed the key of the confirmation, decided or not.
Works(d, c) == req[d].pc \in {"consumed", "loaded", "decided"} /\ req[d].c = c

\* Some copy of the audit row has an outcome of the confirmation.
NotedIn(detail, c) == \E i \in DOMAIN detail : detail[i].c = c /\ detail[i].status \in Outcomes

Noted(c) ==
    \/ NotedIn(audit.detail, c)
    \/ \E d \in Deciders : req[d].pc \in {"loaded", "decided"} /\ NotedIn(req[d].detail, c)

\* One request at most works on a confirmation, after its key is gone and before an outcome of it
\* is noted anywhere.
Alone ==
    \A c \in Confirmations :
        /\ \A d, e \in Deciders : Works(d, c) /\ Works(e, c) => d = e
        /\ token[c] # "gone" => ~Noted(c) /\ \A d \in Deciders : ~Works(d, c)
        /\ Noted(c) => \A d \in Deciders : ~Works(d, c)

\* What has a key was proposed, and only that is in the row, in its copies and in the browser.
KeysFit ==
    /\ \A c \in Confirmations : token[c] # "none" <=> \E i \in DOMAIN turn.trace : turn.trace[i] = c
    /\ \A i \in DOMAIN audit.detail : token[audit.detail[i].c] # "none"
    /\ \A d \in Deciders : \A i \in DOMAIN req[d].detail : token[req[d].detail[i].c] # "none"
    /\ \A c \in known : token[c] # "none"
    /\ \A d \in Deciders : req[d].pc # "free" => req[d].c \in known

\* What was not executed went no way.
WentFits == \A c \in Confirmations : executed[c] = 0 => went[c] = "none"

\* One step of a request.
Moves(d) ==
    \/ req'[d].pc = "free" /\ req'[d].detail = <<>>
    \/ req'[d].pc = "read" /\ req'[d].c \in known /\ req'[d].detail = <<>>
    \/ /\ <<req[d].pc, req'[d].pc>> \in {<<"read", "consumed">>, <<"loaded", "decided">>}
       /\ req'[d].c = req[d].c /\ req'[d].detail = req[d].detail
    \/ /\ req[d].pc = "consumed" /\ req'[d].pc = "loaded"
       /\ req'[d].c = req[d].c /\ req'[d].detail = audit.detail

LEMMA RequestMoves ==
  ASSUME TypeInv, NEW d \in Deciders, Decide(d)
  PROVE  /\ \A e \in Deciders \ {d} : req'[e] = req[e]
         /\ Moves(d)
         /\ req[d].pc = "read" /\ req'[d].pc = "consumed" =>
                token[req[d].c] = "live" /\ token' = [token EXCEPT ![req[d].c] = "gone"]
<1>q. req \in [Deciders -> Request] /\ req[d] \in Request /\ known \subseteq Confirmations
  BY DEF TypeInv, TypeOK
<1>f. ASSUME req' = [req EXCEPT ![d] = Free]
      PROVE (\A e \in Deciders \ {d} : req'[e] = req[e]) /\ req'[d].pc = "free" /\ req'[d].detail = <<>>
  BY <1>q, <1>f DEF Free
<1>1. CASE Ask(d)
  <2>1. PICK c \in known, decision \in {"confirm", "cancel"}, mine \in BOOLEAN :
          req' = [req EXCEPT ![d] = Asked(c, decision, mine)]
    BY <1>1 DEF Ask
  <2>2. req'[d].pc = "read" /\ req'[d].c = c /\ req'[d].detail = <<>> /\ \A e \in Deciders \ {d} : req'[e] = req[e]
    BY <1>q, <2>1 DEF Asked
  <2> QED BY <2>2 DEF Moves
<1>2. CASE Consume(d)
  <2>1. CASE req' = [req EXCEPT ![d] = Free] BY <1>f, <2>1 DEF Moves
  <2>2. CASE req' = [req EXCEPT ![d].pc = "consumed"]
    <3>1. /\ req'[d].pc = "consumed" /\ req'[d].c = req[d].c /\ req'[d].detail = req[d].detail
          /\ \A e \in Deciders \ {d} : req'[e] = req[e]
      BY <1>q, <2>2 DEF Request
    <3> QED BY <1>2, <3>1 DEF Consume, Moves
  <2> QED BY <1>2, <2>1, <2>2 DEF Consume
<1>3. CASE Refuse(d) \/ KillDecision(d) \/ CommitDecision(d)
  BY <1>3, <1>f DEF Refuse, KillDecision, CommitDecision, Moves
<1>4. CASE LoadAudit(d)
  <2>1. /\ req'[d].pc = "loaded" /\ req'[d].c = req[d].c /\ req'[d].detail = audit.detail
        /\ \A e \in Deciders \ {d} : req'[e] = req[e]
    BY <1>q, <1>4 DEF LoadAudit, Request
  <2> QED BY <1>4, <2>1 DEF LoadAudit, Moves
<1>5. CASE Cancel(d) \/ Execute(d)
  <2>1. req[d].pc = "loaded" /\ \E outcome : req' = [req EXCEPT ![d].pc = "decided", ![d].outcome = outcome]
    BY <1>5 DEF Cancel, Execute
  <2>2. /\ req'[d].pc = "decided" /\ req'[d].c = req[d].c /\ req'[d].detail = req[d].detail
        /\ \A e \in Deciders \ {d} : req'[e] = req[e]
    BY <1>q, <2>1 DEF Request
  <2> QED BY <2>1, <2>2 DEF Moves
<1> QED BY <1>1, <1>2, <1>3, <1>4, <1>5 DEF Decide

\* Keys are stored by proposals, and gone for good.
LEMMA KeysMove ==
  ASSUME TypeInv, [Next]_vars, NEW c \in Confirmations
  PROVE  /\ token[c] # "none" => token'[c] # "none"
         /\ token[c] = "gone" => token'[c] = "gone"
         /\ token'[c] # "none" => token[c] # "none" \/ (Propose /\ turn'.trace = Append(turn.trace, c))
<1> USE DEF TypeInv, TypeOK
<1>1. CASE Propose
  <2>1. PICK b \in Confirmations : /\ token' = [token EXCEPT ![b] = "live"] /\ token[b] = "none"
                                   /\ turn' = [pc |-> "flushed", trace |-> Append(turn.trace, b)]
    BY <1>1 DEF Propose
  <2>2. CASE c = b BY <1>1, <2>1, <2>2
  <2>3. CASE c # b BY <2>1, <2>3
  <2> QED BY <2>2, <2>3
<1>2. CASE \E d \in Deciders : Decide(d)
  <2>1. PICK d \in Deciders : Decide(d) BY <1>2
  <2>2. CASE Consume(d) BY <2>2 DEF Consume
  <2>3. CASE ~Consume(d)
    <3>1. UNCHANGED token
      BY <2>1, <2>3 DEF Decide, Ask, Refuse, LoadAudit, Cancel, Execute, CommitDecision, KillDecision
    <3> QED BY <3>1
  <2> QED BY <2>2, <2>3
<1>3. CASE \E x \in Confirmations : CardExpires(x) \/ TokenExpires(x) BY <1>3 DEF CardExpires, TokenExpires
<1>4. CASE Persist \/ PersistTool \/ ShowCard \/ EndTurn \/ KillTurn \/ Reload \/ UNCHANGED vars
  BY <1>4 DEF Persist, PersistTool, ShowCard, EndTurn, KillTurn, Reload, vars
<1> QED BY <1>1, <1>2, <1>3, <1>4 DEF Next, Turn

\* The trace of a turn holds no outcome; a commit of a decision is the only other thing that is
\* written into the row.
LEMMA RowMoves ==
  ASSUME TypeInv, [Next]_vars
  PROVE  \/ audit'.detail \in {audit.detail, Traced} /\ (req' = req \/ \E d \in Deciders : Decide(d))
         \/ \E d \in Deciders : /\ CommitDecision(d) /\ Decide(d)
                                /\ audit'.detail = Append(req[d].detail, Entry(req[d].c, req[d].outcome))
<1>1. CASE Turn \/ Reload
  <2>1. UNCHANGED req
    BY <1>1 DEF Turn, Propose, Persist, PersistTool, ShowCard, EndTurn, KillTurn, Reload
  <2>2. CASE Persist BY <2>1, <2>2 DEF Persist
  <2>3. CASE PersistTool BY <2>1, <2>3 DEF PersistTool, TypeInv, TypeOK
  <2>4. CASE EndTurn BY <2>1, <2>4 DEF EndTurn
  <2>5. CASE Propose \/ ShowCard \/ KillTurn \/ Reload
    BY <2>1, <2>5 DEF Propose, ShowCard, KillTurn, Reload
  <2> QED BY <1>1, <2>2, <2>3, <2>4, <2>5 DEF Turn
<1>2. CASE \E d \in Deciders : Decide(d)
  <2>1. PICK d \in Deciders : Decide(d) BY <1>2
  <2>2. CASE CommitDecision(d) BY <2>1, <2>2 DEF CommitDecision
  <2>3. CASE ~CommitDecision(d)
    <3>1. UNCHANGED audit
      BY <2>1, <2>3 DEF Decide, Ask, Consume, Refuse, LoadAudit, Cancel, Execute, KillDecision
    <3> QED BY <2>1, <3>1
  <2> QED BY <2>2, <2>3
<1>3. CASE (\E x \in Confirmations : CardExpires(x) \/ TokenExpires(x)) \/ UNCHANGED vars
  BY <1>3 DEF CardExpires, TokenExpires, vars
<1> QED BY <1>1, <1>2, <1>3 DEF Next

LEMMA AppendedNotes ==
  ASSUME NEW x \in Detail, NEW c \in Confirmations, NEW o \in Outcomes, NEW b,
         NotedIn(Append(x, Entry(c, o)), b)
  PROVE  NotedIn(x, b) \/ b = c
<1> DEFINE y == Append(x, Entry(c, o))
<1>1. PICK i \in DOMAIN y : y[i].c = b BY DEF NotedIn
<1>2. PICK j \in DOMAIN y : y[j].c = b /\ y[j].status \in Outcomes BY DEF NotedIn
<1>3. DOMAIN y = 1..(Len(x) + 1) /\ Len(x) \in Nat /\ DOMAIN x = 1..Len(x) BY DEF Detail
<1>4. CASE j = Len(x) + 1
  <2>1. y[j] = Entry(c, o) BY <1>4 DEF Detail
  <2> QED BY <1>2, <2>1 DEF Entry
<1>5. CASE j \in 1..Len(x)
  <2>1. y[j] = x[j] BY <1>5 DEF Detail
  <2> QED BY <1>2, <1>3, <1>5, <2>1 DEF NotedIn
<1> QED BY <1>2, <1>3, <1>4, <1>5

LEMMA AloneStep == ASSUME TypeInv, Alone, [Next]_vars PROVE Alone'
<1>q. req \in [Deciders -> Request] /\ token \in [Confirmations -> {"none", "live", "gone"}]
      /\ audit.detail \in Detail
  BY DEF TypeInv, TypeOK
<1>t. \A c : ~NotedIn(Traced, c) BY DEF NotedIn, Traced, Entry, Outcomes
<1>1. CASE req' = req /\ audit'.detail \in {audit.detail, Traced}
  <2>1. \A c \in Confirmations : Noted(c)' => Noted(c) BY <1>1, <1>t DEF Noted, NotedIn
  <2>2. \A c \in Confirmations, d \in Deciders : Works(d, c)' <=> Works(d, c) BY <1>1 DEF Works
  <2>3. \A c \in Confirmations : token'[c] # "gone" => token[c] # "gone" BY KeysMove
  <2> QED BY <2>1, <2>2, <2>3 DEF Alone
<1>2. ASSUME NEW d \in Deciders, Decide(d) PROVE Alone'
  <2>1. /\ \A e \in Deciders \ {d} : req'[e] = req[e]
        /\ Moves(d)
        /\ req[d].pc = "read" /\ req'[d].pc = "consumed" =>
               token[req[d].c] = "live" /\ token' = [token EXCEPT ![req[d].c] = "gone"]
    BY <1>2, RequestMoves
  <2>2. ASSUME NEW c \in Confirmations, NEW e \in Deciders, Works(e, c)', ~Works(e, c)
        PROVE  /\ e = d /\ req[d].c = c /\ token[c] = "live" /\ token'[c] = "gone"
               /\ req[d].pc = "read" /\ req'[d].pc = "consumed"
    BY <1>q, <2>1, <2>2 DEF Works, Moves
  <2>3. CASE audit'.detail \in {audit.detail, Traced}
    <3>1. ASSUME NEW c \in Confirmations, Noted(c)' PROVE Noted(c)
      <4>1. CASE NotedIn(audit'.detail, c) BY <1>t, <2>3, <4>1 DEF Noted
      <4>2. ASSUME NEW e \in Deciders, req'[e].pc \in {"loaded", "decided"}, NotedIn(req'[e].detail, c)
            PROVE  Noted(c)
        <5>1. CASE e # d
          <6>1. req'[e] = req[e] BY <2>1, <5>1
          <6> QED BY <4>2, <6>1 DEF Noted
        <5>2. CASE e = d
          <6>1. \/ req[d].pc = "loaded" /\ req'[d].detail = req[d].detail
                \/ req'[d].detail = audit.detail
            BY <2>1, <4>2, <5>2 DEF Moves
          <6> QED BY <4>2, <5>2, <6>1 DEF Noted
        <5> QED BY <5>1, <5>2
      <4>3. NotedIn(audit'.detail, c) \/ \E e \in Deciders : req'[e].pc \in {"loaded", "decided"} /\ NotedIn(req'[e].detail, c)
        BY <3>1 DEF Noted, NotedIn
      <4> QED BY <4>1, <4>2, <4>3
    <3>2. \A c \in Confirmations : token'[c] # "gone" => token[c] # "gone" BY KeysMove
    <3> QED BY <2>2, <3>1, <3>2 DEF Alone
  <2>4. CASE CommitDecision(d) /\ audit'.detail = Append(req[d].detail, Entry(req[d].c, req[d].outcome))
    <3>1. req[d].pc = "decided" /\ req'[d].pc = "free"
      BY <1>q, <2>4, FreeRequest DEF CommitDecision
    <3>2. req[d].c \in Confirmations /\ req[d].outcome \in Outcomes /\ req[d].detail \in Detail
      BY <1>q, <3>1 DEF TypeInv, Shaped, Request
    <3>3. \A c \in Confirmations, e \in Deciders : Works(e, c)' => Works(e, c) /\ e # d
      BY <2>1, <3>1 DEF Works
    <3>4. Works(d, req[d].c) BY <3>1 DEF Works
    <3>5. ASSUME NEW c \in Confirmations, Noted(c)' PROVE Noted(c) \/ c = req[d].c
      <4>1. CASE NotedIn(audit'.detail, c)
        <5>1. NotedIn(req[d].detail, c) \/ c = req[d].c BY <2>4, <3>2, <4>1, AppendedNotes
        <5> QED BY <3>1, <5>1 DEF Noted
      <4>2. ASSUME NEW e \in Deciders, req'[e].pc \in {"loaded", "decided"}, NotedIn(req'[e].detail, c)
            PROVE  Noted(c)
        <5>1. e # d BY <3>1, <4>2
        <5>2. req'[e] = req[e] BY <2>1, <5>1
        <5> QED BY <4>2, <5>2 DEF Noted
      <4>3. NotedIn(audit'.detail, c) \/ \E e \in Deciders : req'[e].pc \in {"loaded", "decided"} /\ NotedIn(req'[e].detail, c)
        BY <3>5 DEF Noted, NotedIn
      <4> QED BY <4>1, <4>2, <4>3
    <3>6. UNCHANGED token BY <2>4 DEF CommitDecision
    <3> QED BY <3>2, <3>3, <3>4, <3>5, <3>6 DEF Alone
  <2>5. CASE req' = req /\ audit'.detail \in {audit.detail, Traced} BY <1>1, <2>5
  <2>6. ASSUME NEW e \in Deciders, CommitDecision(e),
               audit'.detail = Append(req[e].detail, Entry(req[e].c, req[e].outcome))
        PROVE  e = d \/ req'[e] = req[e]
    BY <2>1
  <2>7. ASSUME NEW e \in Deciders, CommitDecision(e) PROVE e = d
    <3>1. req[e].pc = "decided" /\ req'[e].pc = "free" BY <1>q, <2>7, FreeRequest DEF CommitDecision
    <3> QED BY <2>1, <3>1
  <2> QED BY <2>3, <2>4, <2>7, RowMoves
<1> QED BY <1>1, <1>2, RowMoves

LEMMA KeysFitStep == ASSUME TypeInv, KeysFit, [Next]_vars PROVE KeysFit'
<1>q. /\ req \in [Deciders -> Request] /\ token \in [Confirmations -> {"none", "live", "gone"}]
      /\ audit.detail \in Detail /\ turn.trace \in Seq(Confirmations) /\ known \subseteq Confirmations
  BY DEF TypeInv, TypeOK
<1>k. \A c \in Confirmations : token[c] # "none" => token'[c] # "none" BY KeysMove
<1>d. ASSUME NEW x \in Detail, NEW i \in DOMAIN x PROVE x[i].c \in Confirmations
  <2> DEFINE E == [c : Confirmations, status : Outcomes \cup {"awaiting_confirmation"}]
  <2>1. x \in Seq(E) BY DEF Detail
  <2> HIDE DEF E
  <2>2. x[i] \in E BY <2>1
  <2> QED BY <2>2 DEF E
<1>1. \A c \in Confirmations : token'[c] # "none" <=> \E i \in DOMAIN turn'.trace : turn'.trace[i] = c
  <2>1. CASE Propose
    <3>1. PICK c \in Confirmations : /\ token' = [token EXCEPT ![c] = "live"]
                                     /\ turn' = [pc |-> "flushed", trace |-> Append(turn.trace, c)]
      BY <2>1 DEF Propose
    <3>2. /\ DOMAIN turn'.trace = 1..(Len(turn.trace) + 1) /\ DOMAIN turn.trace = 1..Len(turn.trace)
          /\ Len(turn.trace) \in Nat /\ turn'.trace[Len(turn.trace) + 1] = c
          /\ \A i \in DOMAIN turn.trace : turn'.trace[i] = turn.trace[i]
      BY <1>q, <3>1
    <3>3. \A b \in Confirmations : (\E i \in DOMAIN turn'.trace : turn'.trace[i] = b)
                                     <=> b = c \/ \E i \in DOMAIN turn.trace : turn.trace[i] = b
      BY <3>2
    <3> QED BY <1>q, <3>1, <3>3 DEF KeysFit
  <2>2. CASE ~Propose
    <3>1. turn'.trace = turn.trace
      BY <2>2 DEF Next, Turn, Persist, PersistTool, ShowCard, EndTurn, KillTurn, Reload, CardExpires, TokenExpires,
                  Decide, Ask, Consume, Refuse, LoadAudit, Cancel, Execute, CommitDecision, KillDecision, vars, TypeInv, TypeOK
    <3>2. \A c \in Confirmations : token'[c] # "none" <=> token[c] # "none" BY <2>2, KeysMove
    <3> QED BY <3>1, <3>2 DEF KeysFit
  <2> QED BY <2>1, <2>2
<1>2. \A d \in Deciders : \A i \in DOMAIN req'[d].detail : token'[req'[d].detail[i].c] # "none"
  <2>1. ASSUME NEW d \in Deciders, Decide(d), NEW e \in Deciders
        PROVE  req'[e].detail \in {req[e].detail, audit.detail, <<>>}
    BY <2>1, RequestMoves DEF Moves
  <2>2. req' = req \/ \E d \in Deciders : Decide(d) BY RowMoves
  <2>3. ASSUME NEW e \in Deciders PROVE req'[e].detail \in {req[e].detail, audit.detail, <<>>}
    BY <2>1, <2>2
  <2>4. \A e \in Deciders : req[e].detail \in Detail BY <1>q DEF Request
  <2> QED BY <1>q, <1>k, <1>d, <2>3, <2>4 DEF KeysFit
<1>3. \A i \in DOMAIN audit'.detail : token'[audit'.detail[i].c] # "none"
  <2>1. CASE audit'.detail = audit.detail BY <1>q, <1>k, <1>d, <2>1 DEF KeysFit
  <2>2. CASE audit'.detail = Traced
    <3>1. \A i \in DOMAIN Traced : i \in DOMAIN turn.trace /\ Traced[i].c = turn.trace[i] BY DEF Traced, Entry
    <3>2. \A i \in DOMAIN turn.trace : turn.trace[i] \in Confirmations BY <1>q
    <3> QED BY <1>k, <2>2, <3>1, <3>2 DEF KeysFit
  <2>3. ASSUME NEW d \in Deciders, CommitDecision(d),
               audit'.detail = Append(req[d].detail, Entry(req[d].c, req[d].outcome))
        PROVE  \A i \in DOMAIN audit'.detail : token'[audit'.detail[i].c] # "none"
    <3> DEFINE x == req[d].detail
               n == Entry(req[d].c, req[d].outcome)
    <3>1. x \in Detail /\ req[d].pc = "decided" BY <1>q, <2>3 DEF Request, CommitDecision
    <3>2. req[d].c \in Confirmations /\ token[req[d].c] # "none" BY <1>q, <3>1 DEF KeysFit
    <3>3. n.c = req[d].c BY DEF Entry
    <3> HIDE DEF n
    <3>4. \A i \in DOMAIN audit'.detail : audit'.detail[i] = n \/ (i \in DOMAIN x /\ audit'.detail[i] = x[i])
      BY <2>3, <3>1 DEF Detail, n
    <3> QED BY <1>k, <1>d, <3>1, <3>2, <3>3, <3>4 DEF KeysFit
  <2> QED BY <2>1, <2>2, <2>3, RowMoves
<1>4. known \subseteq known' /\ \A c \in known' : token'[c] # "none"
  <2>1. CASE ShowCard
    <3>1. turn.trace # <<>> BY <2>1 DEF TypeInv, Shaped, ShowCard
    <3>2. Len(turn.trace) \in DOMAIN turn.trace BY <1>q, <3>1
    <3>3. turn.trace[Len(turn.trace)] \in Confirmations /\ token[turn.trace[Len(turn.trace)]] # "none"
      BY <1>q, <3>2 DEF KeysFit
    <3> QED BY <1>q, <1>k, <2>1, <3>3 DEF ShowCard, KeysFit
  <2>2. CASE Reload
    <3>1. PICK c \in Confirmations : IsCard(c) /\ known' = known \cup {c} BY <2>2 DEF Reload
    <3>2. token[c] # "none" BY <3>1 DEF IsCard, KeysFit
    <3> QED BY <1>q, <1>k, <3>1, <3>2 DEF KeysFit
  <2>3. CASE ~ShowCard /\ ~Reload
    <3>1. UNCHANGED known
      BY <2>3 DEF Next, Turn, Propose, Persist, PersistTool, EndTurn, KillTurn, CardExpires, TokenExpires,
                  Decide, Ask, Consume, Refuse, LoadAudit, Cancel, Execute, CommitDecision, KillDecision, vars
    <3> QED BY <1>q, <1>k, <3>1 DEF KeysFit
  <2> QED BY <2>1, <2>2, <2>3
<1>5. \A d \in Deciders : req'[d].pc # "free" => req'[d].c \in known'
  <2>1. ASSUME NEW d \in Deciders, Decide(d), NEW e \in Deciders, req'[e].pc # "free"
        PROVE  req'[e].c \in known
    <3>1. CASE e = d BY <2>1, <3>1, RequestMoves DEF Moves, KeysFit
    <3>2. CASE e # d BY <2>1, <3>2, RequestMoves DEF KeysFit
    <3> QED BY <3>1, <3>2
  <2>2. req' = req \/ \E d \in Deciders : Decide(d) BY RowMoves
  <2> QED BY <1>4, <2>1, <2>2 DEF KeysFit
<1> QED BY <1>1, <1>2, <1>3, <1>4, <1>5 DEF KeysFit

LEMMA WentFitsStep == ASSUME TypeInv, WentFits, [Next]_vars PROVE WentFits'
<1>1. CASE \E d \in Deciders : Execute(d)
  <2>1. PICK d \in Deciders : Execute(d) BY <1>1
  <2>2. PICK o \in {"succeeded", "failed"} : went' = [went EXCEPT ![req[d].c] = o] BY <2>1 DEF Execute
  <2>3. executed' = [executed EXCEPT ![req[d].c] = @ + 1] /\ req[d].pc = "loaded" BY <2>1 DEF Execute
  <2>4. req[d].c \in Confirmations BY <2>3 DEF TypeInv, Shaped
  <2> QED BY <2>2, <2>3, <2>4 DEF TypeInv, TypeOK, WentFits
<1>2. CASE ~\E d \in Deciders : Execute(d)
  <2>1. UNCHANGED <<executed, went>>
    BY <1>2 DEF Next, Turn, Propose, Persist, PersistTool, ShowCard, EndTurn, KillTurn, Reload, CardExpires,
                TokenExpires, Decide, Ask, Consume, Refuse, LoadAudit, Cancel, CommitDecision, KillDecision, vars
  <2> QED BY <2>1 DEF WentFits
<1> QED BY <1>1, <1>2

ConfirmationInv == TypeInv /\ Single /\ Truthful /\ Alone /\ KeysFit /\ WentFits

LEMMA InitConfirmationInv == Init => ConfirmationInv
<1> SUFFICES ASSUME Init PROVE ConfirmationInv OBVIOUS
<1>1. TypeInv /\ Single BY InitTypes DEF Init, Single, Holds, Free
<1>2. Truthful BY DEF Init, Truthful, Recorded, Mentions, Free
<1>3. Alone
  <2>1. \A c \in Confirmations, d \in Deciders : ~Works(d, c) BY DEF Init, Works, Free
  <2>2. \A c : ~NotedIn(<<>>, c) BY DEF NotedIn
  <2>3. audit.detail = <<>> /\ \A d \in Deciders : req[d].pc = "free" BY DEF Init, Free
  <2>4. \A c \in Confirmations : ~Noted(c) BY <2>2, <2>3 DEF Noted
  <2> QED BY <2>1, <2>4 DEF Alone
<1>4. KeysFit BY DEF Init, KeysFit, Free
<1>5. WentFits BY DEF Init, WentFits
<1> QED BY <1>1, <1>2, <1>3, <1>4, <1>5 DEF ConfirmationInv

LEMMA NextConfirmationInv == ConfirmationInv /\ [Next]_vars => ConfirmationInv'
  BY TypeStep, SingleStep, TruthfulStep, AloneStep, KeysFitStep, WentFitsStep DEF ConfirmationInv

LEMMA OutcomeStays ==
  ASSUME ConfirmationInv, [Next]_vars, turn.pc = "over", Len(turn.trace) <= 1,
         NEW c \in Confirmations, NEW o \in Outcomes, IsShownAs(c, o)
  PROVE  IsShownAs(c, o)'
<1>1. CASE audit' = audit BY <1>1 DEF IsShownAs
\* The one proposal of the turn has its outcome, so that no request works on it any more.
<1>2. ASSUME NEW d \in Deciders, CommitDecision(d) PROVE FALSE
  <2>1. req[d].pc = "decided" BY <1>2 DEF CommitDecision
  <2>2. req[d].c \in Confirmations /\ token[req[d].c] # "none"
    BY <2>1 DEF ConfirmationInv, TypeInv, Shaped, KeysFit
  <2>3. PICK i \in DOMAIN audit.detail : audit.detail[i] = Entry(c, o) BY DEF IsShownAs
  <2>4. audit.detail[i].c = c /\ audit.detail[i].status = o BY <2>3 DEF Entry
  <2>5. token[c] # "none" BY <2>3, <2>4 DEF ConfirmationInv, KeysFit
  <2>6. PICK j, k \in DOMAIN turn.trace : turn.trace[j] = req[d].c /\ turn.trace[k] = c
    BY <2>2, <2>5 DEF ConfirmationInv, KeysFit
  <2>7. DOMAIN turn.trace = 1..Len(turn.trace) /\ Len(turn.trace) \in Nat
    BY DEF ConfirmationInv, TypeInv, TypeOK
  <2>8. req[d].c = c BY <2>6, <2>7
  <2>9. Noted(c) BY <2>3, <2>4 DEF Noted, NotedIn
  <2> QED BY <2>1, <2>8, <2>9 DEF ConfirmationInv, Alone, Works
<1>3. CASE Turn \/ Reload
  BY <1>1, <1>3 DEF Turn, Propose, Persist, PersistTool, ShowCard, EndTurn, Endings, KillTurn, Reload
<1>4. ASSUME NEW d \in Deciders, Decide(d) PROVE IsShownAs(c, o)'
  BY <1>1, <1>2, <1>4 DEF Decide, Ask, Consume, Refuse, LoadAudit, Cancel, Execute, KillDecision
<1>5. CASE (\E x \in Confirmations : CardExpires(x) \/ TokenExpires(x)) \/ UNCHANGED vars
  BY <1>1, <1>5 DEF CardExpires, TokenExpires, vars
<1> QED BY <1>3, <1>4, <1>5 DEF Next

\* After a turn with at most one proposal, no request takes back the outcome that a reload shows,
\* for any number of requests, tabs and lost answers.
THEOREM FinalOutcome == Spec => OutcomeFinal
<1>1. ConfirmationInv /\ [Next]_vars =>
        [turn.pc = "over" /\ Len(turn.trace) <= 1 =>
           \A c \in Confirmations : \A o \in Outcomes : IsShownAs(c, o) => IsShownAs(c, o)']_vars
  BY OutcomeStays
<1> QED BY <1>1, InitConfirmationInv, NextConfirmationInv, PTL DEF Spec, OutcomeFinal

-----------------------------------------------------------------------------
(* Keys, requests and the row implement QuotaProposals                     *)

Stages == [c \in Confirmations |-> StageOf(c)]

LEMMA StageValues ==
  ASSUME TypeInv, NEW c \in Confirmations
  PROVE  /\ token[c] = "none" <=> StageOf(c) = "absent"
         /\ token[c] = "live" <=> StageOf(c) = "open"
         /\ (token[c] = "gone" /\ \E d \in Deciders : Holds(d, c)) <=> StageOf(c) = "taken"
         /\ (token[c] = "gone" /\ \A d \in Deciders : ~Holds(d, c)) <=> StageOf(c) = "closed"
<1>1. token[c] \in {"none", "live", "gone"} BY DEF TypeInv, TypeOK
<1> QED BY <1>1 DEF StageOf

LEMMA QuietStep ==
  ASSUME UNCHANGED token, \A d \in Deciders, c \in Confirmations : Holds(d, c)' <=> Holds(d, c)
  PROVE  Stages' = Stages
<1>1. \A c \in Confirmations : StageOf(c)' = StageOf(c) BY DEF StageOf
<1> QED BY <1>1 DEF Stages

\* Whoever held a confirmation lets go of it.
LEMMA ReleaseStep ==
  ASSUME TypeInv, Single, NEW d \in Deciders, NEW x, req[d].c = x, req[d].pc \in {"consumed", "loaded"},
         req'[d].pc \notin {"consumed", "loaded"}, \A e \in Deciders \ {d} : req'[e] = req[e],
         UNCHANGED token
  PROVE  /\ x \in Confirmations /\ Stages[x] = "taken"
         /\ Stages' = [Stages EXCEPT ![x] = "closed"]
<1>1. x \in Confirmations /\ Holds(d, x) BY DEF TypeInv, Shaped, Holds
<1>2. token[x] = "gone" /\ \A e \in Deciders \ {d} : ~Holds(e, x) BY <1>1 DEF Single, TypeInv, TypeOK
<1>3. \A e \in Deciders : ~Holds(e, x)' BY <1>2 DEF Holds
<1>4. \A e \in Deciders, c \in Confirmations \ {x} : Holds(e, c)' <=> Holds(e, c) BY DEF Holds
<1>5. StageOf(x) = "taken" BY <1>1, <1>2, StageValues
<1>6. StageOf(x)' = "closed" BY <1>2, <1>3 DEF StageOf
<1>7. \A c \in Confirmations \ {x} : StageOf(c)' = StageOf(c) BY <1>4 DEF StageOf
<1> QED BY <1>1, <1>5, <1>6, <1>7 DEF Stages

\* The key of a confirmation is deleted or expires: nobody held it.
LEMMA KeyGoes ==
  ASSUME TypeInv, Single, NEW x \in Confirmations, token[x] = "live", token' = [token EXCEPT ![x] = "gone"],
         \A e \in Deciders, c \in Confirmations \ {x} : Holds(e, c)' <=> Holds(e, c)
  PROVE  /\ Stages[x] = "open"
         /\ (\E e \in Deciders : Holds(e, x)') => Stages' = [Stages EXCEPT ![x] = "taken"]
         /\ (\A e \in Deciders : ~Holds(e, x)') => Stages' = [Stages EXCEPT ![x] = "closed"]
<1>1. \A c \in Confirmations \ {x} : token'[c] = token[c] BY DEF TypeInv, TypeOK
<1>2. token'[x] = "gone" BY DEF TypeInv, TypeOK
<1>3. StageOf(x) = "open" BY DEF StageOf
<1>4. \A c \in Confirmations \ {x} : StageOf(c)' = StageOf(c) BY <1>1 DEF StageOf
<1>5. (\E e \in Deciders : Holds(e, x)') => StageOf(x)' = "taken" BY <1>2 DEF StageOf
<1>6. (\A e \in Deciders : ~Holds(e, x)') => StageOf(x)' = "closed" BY <1>2 DEF StageOf
<1> QED BY <1>3, <1>4, <1>5, <1>6 DEF Stages

LEMMA RecordedTruths ==
  ASSUME ConfirmationInv, ConfirmationInv', UNCHANGED <<token, executed, went>>, Stages' = Stages
  PROVE  OnRecord' \subseteq Proposals!Truths
<1> SUFFICES ASSUME NEW p \in OnRecord' PROVE p \in Proposals!Truths OBVIOUS
<1>1. PICK i \in DOMAIN audit'.detail : p = <<audit'.detail[i].c, audit'.detail[i].status>> BY DEF OnRecord
<1> DEFINE c == p[1]
           o == p[2]
<1>2. p = <<c, o>> /\ c \in Confirmations /\ o \in Outcomes BY DEF OnRecord
<1>3. audit'.detail[i] = Entry(c, o)
  <2> DEFINE E == [c : Confirmations, status : Outcomes \cup {"awaiting_confirmation"}]
  <2>1. audit'.detail \in Seq(E) BY DEF ConfirmationInv, TypeInv, TypeOK, Detail
  <2> HIDE DEF E
  <2>2. audit'.detail[i] \in E BY <1>1, <2>1
  <2>3. audit'.detail[i].c = c /\ audit'.detail[i].status = o BY <1>1
  <2> QED BY <2>2, <2>3 DEF E, Entry
<1> HIDE DEF c, o
<1>4. Mentions(audit.detail, c, o)' BY <1>1, <1>3 DEF Mentions
<1>5. Recorded(c, o)' BY <1>4 DEF Recorded
<1>6. Settled(c, o)' BY <1>2, <1>5 DEF ConfirmationInv, Truthful
<1>7. CASE o \in {"succeeded", "failed"}
  <2>1. went[c] = o BY <1>6, <1>7 DEF Settled
  <2> QED BY <1>2, <1>7, <2>1 DEF Proposals!Truths
<1>8. CASE o = "cancelled"
  <2>1. executed[c] = 0 BY <1>6, <1>8 DEF Settled
  <2>2. went[c] = "none" BY <1>2, <2>1 DEF ConfirmationInv, WentFits
  <2>3. StageOf(c)' = "closed" BY <1>2, <1>6, StageValues DEF ConfirmationInv, Settled, StageOf
  <2>4. Stages[c] = "closed" BY <1>2, <2>3 DEF Stages
  <2> QED BY <1>2, <1>8, <2>2, <2>4 DEF Proposals!Truths, Stages
<1> QED BY <1>2, <1>7, <1>8 DEF Outcomes

LEMMA ProposalsStep ==
  ASSUME ConfirmationInv, ConfirmationInv', [Next]_vars
  PROVE  [Proposals!Next]_(Proposals!vars)
<1> USE DEF Proposals!Next, Proposals!vars
<1>t. TypeInv /\ TypeInv' /\ Single BY DEF ConfirmationInv
<1>q. req \in [Deciders -> Request] /\ token \in [Confirmations -> {"none", "live", "gone"}]
  BY <1>t DEF TypeInv, TypeOK
<1>0. ASSUME Stages' = Stages, UNCHANGED <<known, went, audit>> PROVE UNCHANGED Proposals!vars
  BY <1>0 DEF Stages, OnRecord
<1>h. ASSUME UNCHANGED req
      PROVE  \A d \in Deciders, c \in Confirmations : Holds(d, c)' <=> Holds(d, c)
  BY <1>h DEF Holds
<1>d. ASSUME NEW c \in Confirmations, Stages[c] \in {"open", "taken"},
             Stages' = [Stages EXCEPT ![c] = "closed"], UNCHANGED <<known, went, audit>>
      PROVE  Proposals!Drop(c)
  BY <1>d DEF Proposals!Drop, Stages, OnRecord
<1>s. ASSUME NEW c \in Confirmations, token[c] # "none", known' = known \cup {c},
             UNCHANGED <<token, req, went, audit>>
      PROVE  Proposals!Show(c)
  <2>1. Stages' = Stages BY <1>h, <1>s, QuietStep
  <2>2. StageOf(c) # "absent" BY <1>t, <1>s, StageValues
  <2> QED BY <1>s, <2>1, <2>2 DEF Proposals!Show, Stages, OnRecord
<1>r. ASSUME Stages' = Stages, UNCHANGED <<token, executed, known, went>> PROVE Proposals!Record
  <2>1. OnRecord' \subseteq Proposals!Truths BY <1>r, RecordedTruths
  <2> QED BY <1>r, <2>1 DEF Proposals!Record, Stages
<1>1. CASE Propose
  <2>1. PICK c \in Confirmations : token[c] = "none" /\ token' = [token EXCEPT ![c] = "live"] BY <1>1 DEF Propose
  <2>2. UNCHANGED <<known, audit, req, went>> BY <1>1 DEF Propose
  <2>3. \A b \in Confirmations \ {c} : StageOf(b)' = StageOf(b) BY <1>h, <1>q, <2>1, <2>2 DEF StageOf
  <2>4. StageOf(c) = "absent" /\ StageOf(c)' = "open" BY <1>q, <2>1 DEF StageOf
  <2>5. Stages[c] = "absent" /\ Stages' = [Stages EXCEPT ![c] = "open"] BY <2>3, <2>4 DEF Stages
  <2>6. Proposals!Make(c) BY <2>2, <2>5 DEF Proposals!Make, Stages, OnRecord
  <2> QED BY <2>6
<1>2. CASE Persist \/ PersistTool \/ EndTurn
  <2>1. UNCHANGED <<token, known, req, executed, went>> BY <1>2 DEF Persist, PersistTool, EndTurn
  <2>2. Stages' = Stages BY <1>h, <2>1, QuietStep
  <2> QED BY <1>r, <2>1, <2>2
<1>3. CASE ShowCard
  <2> DEFINE c == turn.trace[Len(turn.trace)]
  <2>1. turn.trace \in Seq(Confirmations) /\ turn.trace # <<>> BY <1>3, <1>t DEF ShowCard, TypeInv, TypeOK, Shaped
  <2>2. Len(turn.trace) \in DOMAIN turn.trace /\ c \in Confirmations BY <2>1
  <2>3. token[c] # "none" BY <2>2 DEF ConfirmationInv, KeysFit
  <2>4. known' = known \cup {c} /\ UNCHANGED <<token, req, went, audit>> BY <1>3 DEF ShowCard
  <2> QED BY <1>s, <2>2, <2>3, <2>4
<1>4. CASE Reload
  <2>1. PICK c \in Confirmations : IsCard(c) /\ known' = known \cup {c} BY <1>4 DEF Reload
  <2>2. token[c] # "none" BY <2>1 DEF IsCard, ConfirmationInv, KeysFit
  <2>3. UNCHANGED <<token, req, went, audit>> BY <1>4 DEF Reload
  <2> QED BY <1>s, <2>1, <2>2, <2>3
<1>5. CASE KillTurn \/ (\E c \in Confirmations : CardExpires(c)) \/ UNCHANGED vars
  <2>1. UNCHANGED <<token, known, audit, req, went>> BY <1>5 DEF KillTurn, CardExpires, vars
  <2>2. Stages' = Stages BY <1>h, <2>1, QuietStep
  <2> QED BY <1>0, <2>1, <2>2
<1>6. ASSUME NEW c \in Confirmations, TokenExpires(c) PROVE Proposals!Drop(c)
  <2>1. token[c] = "live" /\ token' = [token EXCEPT ![c] = "gone"] /\ UNCHANGED <<known, audit, req, went>>
    BY <1>6 DEF TokenExpires
  <2>2. \A e \in Deciders : ~Holds(e, c)' BY <1>h, <1>t, <2>1 DEF Single
  <2>3. Stages[c] = "open" /\ Stages' = [Stages EXCEPT ![c] = "closed"] BY <1>h, <1>t, <2>1, <2>2, KeyGoes
  <2> QED BY <1>d, <2>1, <2>3
<1>7. ASSUME NEW d \in Deciders, Decide(d) PROVE [Proposals!Next]_(Proposals!vars)
  <2>0. PICK x : x = req[d].c OBVIOUS
  <2>1. (\A e \in Deciders \ {d} : req'[e] = req[e]) /\ Moves(d) BY <1>7, <1>t, RequestMoves
  <2>2. req[d].pc # "free" => x \in Confirmations BY <1>t, <2>0 DEF TypeInv, Shaped
  <2>3. \A e \in Deciders \ {d}, c \in Confirmations : Holds(e, c)' <=> Holds(e, c) BY <2>1 DEF Holds
  <2>4. CASE Ask(d)
    <3>1. req'[d].pc = "read" /\ req[d].pc = "free" BY <1>q, <2>4 DEF Ask, Asked
    <3>2. \A e \in Deciders, c \in Confirmations : Holds(e, c)' <=> Holds(e, c) BY <2>3, <3>1 DEF Holds
    <3>3. UNCHANGED <<token, known, audit, went>> BY <2>4 DEF Ask
    <3> QED BY <1>0, <3>2, <3>3, QuietStep
  <2>5. CASE Consume(d)
    <3>1. /\ req[d].pc = "read" /\ token[x] = "live" /\ token' = [token EXCEPT ![x] = "gone"]
          /\ UNCHANGED <<known, audit, went>>
      BY <2>0, <2>5 DEF Consume
    <3>2. x \in Confirmations /\ x \in known BY <2>0, <2>2, <3>1 DEF ConfirmationInv, KeysFit
    <3>3. req'[d].pc = "free" \/ (req'[d].pc = "consumed" /\ req'[d].c = x) BY <1>q, <2>0, <2>5, FreeRequest DEF Consume, Request
    <3>4. \A c \in Confirmations \ {x} : ~Holds(d, c) /\ ~Holds(d, c)' BY <2>0, <3>1, <3>3 DEF Holds
    <3>5. \A e \in Deciders, c \in Confirmations \ {x} : Holds(e, c)' <=> Holds(e, c) BY <2>3, <3>4
    <3>6. \A e \in Deciders \ {d} : ~Holds(e, x)' BY <1>t, <2>3, <3>1, <3>2 DEF Single
    <3>7. CASE req'[d].pc = "free"
      <4>1. \A e \in Deciders : ~Holds(e, x)' BY <3>6, <3>7 DEF Holds
      <4>2. Stages[x] = "open" /\ Stages' = [Stages EXCEPT ![x] = "closed"] BY <1>t, <3>1, <3>2, <3>5, <4>1, KeyGoes
      <4>3. Proposals!Drop(x) BY <1>d, <3>1, <3>2, <4>2
      <4> QED BY <3>2, <4>3
    <3>8. CASE req'[d].pc = "consumed" /\ req'[d].c = x
      <4>1. Holds(d, x)' BY <3>8 DEF Holds
      <4>2. Stages[x] = "open" /\ Stages' = [Stages EXCEPT ![x] = "taken"] BY <1>t, <3>1, <3>2, <3>5, <4>1, KeyGoes
      <4>3. Proposals!Take(x) BY <3>1, <3>2, <4>2 DEF Proposals!Take, Stages, OnRecord
      <4> QED BY <3>2, <4>3
    <3> QED BY <3>3, <3>7, <3>8
  <2>6. CASE LoadAudit(d)
    <3>1. req[d].pc = "consumed" /\ req'[d].pc = "loaded" /\ req'[d].c = req[d].c BY <1>q, <2>6 DEF LoadAudit, Request
    <3>2. \A e \in Deciders, c \in Confirmations : Holds(e, c)' <=> Holds(e, c) BY <2>3, <3>1 DEF Holds
    <3>3. UNCHANGED <<token, known, audit, went>> BY <2>6 DEF LoadAudit
    <3> QED BY <1>0, <3>2, <3>3, QuietStep
  <2>7. CASE Refuse(d) \/ KillDecision(d) \/ Cancel(d)
    <3>1. UNCHANGED <<token, known, audit, went>> /\ req[d].pc # "free" BY <2>7 DEF Refuse, KillDecision, Cancel
    <3>2. req'[d].pc \in {"free", "decided"} BY <1>q, <2>7, FreeRequest DEF Refuse, KillDecision, Cancel, Request
    <3>3. CASE req[d].pc \in {"consumed", "loaded"}
      <4>1. x \in Confirmations /\ Stages[x] = "taken" /\ Stages' = [Stages EXCEPT ![x] = "closed"]
        BY <1>t, <2>1, <3>1, <3>2, <3>3, <2>0, ReleaseStep
      <4>2. Proposals!Drop(x) BY <1>d, <3>1, <4>1
      <4> QED BY <4>1, <4>2
    <3>4. CASE req[d].pc \notin {"consumed", "loaded"}
      <4>1. \A e \in Deciders, c \in Confirmations : Holds(e, c)' <=> Holds(e, c) BY <2>3, <3>2, <3>4 DEF Holds
      <4> QED BY <1>0, <3>1, <4>1, QuietStep
    <3> QED BY <3>3, <3>4
  <2>8. CASE Execute(d)
    <3>1. PICK o \in {"succeeded", "failed"} : went' = [went EXCEPT ![x] = o] BY <2>0, <2>8 DEF Execute
    <3>2. req[d].pc = "loaded" /\ req'[d].pc = "decided" /\ UNCHANGED <<token, known, audit>>
      BY <1>q, <2>8 DEF Execute, Request
    <3>3. x \in Confirmations /\ Stages[x] = "taken" /\ Stages' = [Stages EXCEPT ![x] = "closed"]
      BY <1>t, <2>0, <2>1, <3>2, ReleaseStep
    <3>4. \E r \in {"succeeded", "failed"} : went' = [went EXCEPT ![x] = r] BY <3>1
    <3>5. UNCHANGED <<known, OnRecord>> BY <3>2 DEF OnRecord
    <3>6. Proposals!Execute(x) BY <3>3, <3>4, <3>5 DEF Proposals!Execute, Stages
    <3> QED BY <3>3, <3>6
  <2>9. CASE CommitDecision(d)
    <3>1. UNCHANGED <<token, known, executed, went>> /\ req[d].pc = "decided" BY <2>9 DEF CommitDecision
    <3>2. req'[d].pc = "free" BY <1>q, <2>9, FreeRequest DEF CommitDecision
    <3>3. \A e \in Deciders, c \in Confirmations : Holds(e, c)' <=> Holds(e, c) BY <2>3, <3>1, <3>2 DEF Holds
    <3> QED BY <1>r, <3>1, <3>3, QuietStep
  <2> QED BY <1>7, <2>4, <2>5, <2>6, <2>7, <2>8, <2>9 DEF Decide
<1> QED BY <1>1, <1>2, <1>3, <1>4, <1>5, <1>6, <1>7 DEF Next, Turn

\* Each proposal is taken up by one decision, executed by it or never, and what the audit row
\* says of it is true, however often old copies of the row are written back.
THEOREM ProposalsImplemented == Spec => ImplementsProposals
<1>1. Init => Proposals!Init
  <2> SUFFICES ASSUME Init PROVE Proposals!Init OBVIOUS
  <2>1. \A c \in Confirmations : StageOf(c) = "absent" BY DEF Init, StageOf
  <2>2. OnRecord = {} BY DEF Init, OnRecord
  <2> QED BY <2>1, <2>2 DEF Init, Proposals!Init
<1>2. ConfirmationInv /\ ConfirmationInv' /\ [Next]_vars => [Proposals!Next]_(Proposals!vars)
  BY ProposalsStep
<1> QED BY <1>1, <1>2, InitConfirmationInv, NextConfirmationInv, PTL DEF Spec, ImplementsProposals, Proposals!Spec

-----------------------------------------------------------------------------
(* ChatPage                                                                *)

\* A success that the server knows of: of the turn, or of a decision
Succeeded(s) == saved[s] = "succeeded" \/ s \in decided

\* What is displayed belongs to the open conversation
ShownFits ==
    \A s \in Prompts :
        /\ shown[s] # "none" => sending[s].at = active /\ active # Nowhere
        /\ shown[s] = "succeeded" => Succeeded(s)

\* The messages of an answer belong to the conversation that it will open
AnswersFit ==
    \A o \in Clicks, s \in Prompts :
        /\ opening[o].messages[s] # "none" =>
               sending[s].at = opening[o].at /\ opening[o].at # Nowhere
        /\ opening[o].messages[s] = "succeeded" => Succeeded(s)

\* No success is announced before it is stored
WireFits ==
    \A s \in Prompts : \A i \in 1..Len(wire[s]) : wire[s][i] = "succeeded" => saved[s] = "succeeded"

\* What a decision was made on is displayed, unless the messages were replaced; it ends well only
\* when the server has carried it out
DecidingFits ==
    \A s \in Prompts :
        /\ deciding[s].of # "nothing" => shown[s] # "none"
        /\ s \in cards => shown[s] # "none"
        /\ IsGranted(s) => s \in decided

\* A prompt has its conversation from the start of its stream on, and the button aborts a stream
TargetsFit ==
    /\ \A s \in Prompts :
          /\ sending[s].pc \in {"idle", "creating"} => sending[s].at = Nowhere
          /\ sending[s].pc \in {"reading", "ending", "refreshing", "aborted"} => sending[s].at # Nowhere
    /\ controller \in Prompts => sending[controller].pc \in {"reading", "ending", "refreshing", "aborted"}

PageIInv == PageTypeOK /\ ShownFits /\ AnswersFit /\ WireFits /\ DecidingFits /\ TargetsFit

LEMMA PageInitial == PageInit => PageIInv
<1>1. ASSUME PageInit PROVE PageTypeOK
  <2>1. NoMessages \in [Prompts -> MessageStatuses]
      BY DEF NoMessages, MessageStatuses
  <2>2. wire \in [Prompts -> Seq(Events)] /\ \A s \in Prompts : Len(wire[s]) <= MaxWire
    <3>1. <<>> \in Seq(Events) /\ Len(<<>>) <= MaxWire
        BY PageAssumption
    <3> QED
        BY <1>1, <3>1 DEF PageInit
  <2>3. opening \in [Clicks -> [pc : {"idle", "asked", "answered"},
                                at : Conversations \cup {Nowhere},
                                messages : [Prompts -> MessageStatuses]]]
      BY <1>1, <2>1 DEF PageInit, NotOpening
  <2>4. sending \in [Prompts -> [pc : SendStates, at : Conversations \cup {Nowhere}]]
      BY <1>1 DEF PageInit, SendStates
  <2> QED
      BY <1>1, <2>1, <2>2, <2>3, <2>4, PageAssumption DEF PageInit, PageTypeOK, NotDeciding
<1>2. PageInit => ShownFits /\ AnswersFit /\ WireFits /\ DecidingFits /\ TargetsFit
    BY PageAssumption DEF PageInit, ShownFits, AnswersFit, WireFits, DecidingFits, TargetsFit, NoMessages,
       NotOpening, NotDeciding, IsGranted
<1> QED
    BY <1>1, <1>2 DEF PageIInv

LEMMA NextState ==
    ASSUME NEW Where, NEW f \in [Prompts -> [pc : SendStates, at : Where]], NEW s \in Prompts,
           NEW state \in SendStates
    PROVE  [f EXCEPT ![s].pc = state] \in [Prompts -> [pc : SendStates, at : Where]]
  OBVIOUS

LEMMA NextDecision ==
    ASSUME NEW States, NEW Of, NEW f \in [Prompts -> [pc : States, of : Of]], NEW s \in Prompts
    PROVE  /\ \A state \in States : [f EXCEPT ![s].pc = state] \in [Prompts -> [pc : States, of : Of]]
           /\ \A of \in Of : [f EXCEPT ![s].of = of] \in [Prompts -> [pc : States, of : Of]]
  OBVIOUS

LEMMA PageTypeStep ==
    ASSUME PageTypeOK, [PageNext]_pageVars
    PROVE  PageTypeOK'
<1> USE PageAssumption DEF PageTypeOK, MessageStatuses, TerminalEvents, Events, SendStates
<1>1. CASE UNCHANGED pageVars
    BY <1>1 DEF pageVars
<1>0. ASSUME NEW new \in [Prompts -> MessageStatuses], ReplaceMessages(new)
      PROVE  /\ shown' \in [Prompts -> MessageStatuses] /\ cards' \subseteq Prompts
             /\ deciding' \in [Prompts -> [pc : {"idle", "asked", "done", "refused"},
                                         of : {"card", "message", "nothing"}]]
    BY <1>0 DEF ReplaceMessages
<1>21. NoMessages \in [Prompts -> MessageStatuses]
    BY DEF NoMessages
<1>22. ASSUME NEW s \in Prompts, NEW state \in SendStates
       PROVE  [sending EXCEPT ![s].pc = state]
                  \in [Prompts -> [pc : SendStates, at : Conversations \cup {Nowhere}]]
    BY NextState
<1>23. ASSUME NEW statuses, NEW status \in MessageStatuses, MarkActive(statuses, status)
       PROVE  shown' \in [Prompts -> MessageStatuses]
    BY <1>23 DEF MarkActive
<1>24. ASSUME NEW s \in Prompts, EndSend(s)
       PROVE  /\ sending' \in [Prompts -> [pc : SendStates, at : Conversations \cup {Nowhere}]]
              /\ streaming' \in BOOLEAN /\ controller' \in Prompts \cup {NoPrompt}
  <2>1. sending' = [sending EXCEPT ![s].pc = "done"] /\ streaming' = FALSE /\ controller' = NoPrompt
      BY <1>24 DEF EndSend
  <2> QED
      BY <1>22, <2>1
<1>2. ASSUME NEW s \in Prompts, PressSend(s) PROVE PageTypeOK'
  <2>1. CASE StartStream(s, active) /\ active \in listed
    <3>1. active \in Conversations
        BY <2>1
    <3> QED
        BY <1>2, <2>1, <3>1 DEF PressSend, StartStream, serverVars
  <2>2. CASE /\ sending' = [sending EXCEPT ![s].pc = "creating"]
             /\ UNCHANGED <<streaming, activeTurn, controller>>
    <3>1. UNCHANGED <<serverVars, listed, active, shown, cards, deciding, opening, removing>>
        BY <1>2 DEF PressSend
    <3>2. sending' \in [Prompts -> [pc : SendStates, at : Conversations \cup {Nowhere}]]
        BY <1>22, <2>2
    <3> QED
        BY <2>2, <3>1, <3>2 DEF serverVars
  <2> QED
      BY <1>2, <2>1, <2>2 DEF PressSend
<1>3. ASSUME NEW s \in Prompts, CreationFails(s) PROVE PageTypeOK'
  <2>1. /\ EndSend(s) /\ MarkActive(MessageStatuses \ {"none"}, "failed")
        /\ UNCHANGED <<serverVars, listed, active, activeTurn, cards, deciding, opening, removing>>
      BY <1>3 DEF CreationFails
  <2>2. shown' \in [Prompts -> MessageStatuses]
      BY <1>23, <2>1
  <2> QED
      BY <1>24, <2>1, <2>2 DEF serverVars
<1>4. ASSUME NEW s \in Prompts, NEW c \in Conversations, ConversationCreated(s, c) PROVE PageTypeOK'
    BY <1>0, <1>21, <1>4 DEF ConversationCreated, StartStream
<1>5. ASSUME NEW s \in Prompts, ServerStep(s) PROVE PageTypeOK'
  <2>1. ASSUME NEW e \in Events, Emit(s, e)
        PROVE  wire' \in [Prompts -> Seq(Events)] /\ \A r \in Prompts : Len(wire'[r]) <= MaxWire
      BY <2>1 DEF Emit
  <2>2. CASE AcceptTurn(s)
      BY <1>5, <2>1, <2>2 DEF AcceptTurn, ServerStep, viewVars
  <2>3. CASE EmitDelta(s)
      BY <1>5, <2>1, <2>3 DEF EmitDelta, ServerStep, viewVars
  <2>4. CASE EndStoredTurn(s)
    <3>1. PICK status \in TerminalEvents : /\ saved' = [saved EXCEPT ![s] = status]
                                           /\ Emit(s, status) \/ UNCHANGED wire
        BY <2>4 DEF EndStoredTurn
    <3> QED
        BY <1>5, <2>1, <3>1 DEF ServerStep, viewVars
  <2>5. CASE EmitCard(s)
      BY <1>5, <2>1, <2>5 DEF EmitCard, ServerStep, viewVars
  <2> QED
      BY <1>5, <2>2, <2>3, <2>4, <2>5 DEF ServerStep
<1>6. ASSUME NEW s \in Prompts, ReadEvent(s) PROVE PageTypeOK'
  <2>1. Head(wire[s]) \in Events /\ Tail(wire[s]) \in Seq(Events) /\ Len(Tail(wire[s])) <= MaxWire
      BY <1>6 DEF ReadEvent
  <2>2. wire' \in [Prompts -> Seq(Events)] /\ \A r \in Prompts : Len(wire'[r]) <= MaxWire
      BY <1>6, <2>1 DEF ReadEvent
  <2>3. /\ shown' \in [Prompts -> MessageStatuses]
        /\ activeTurn' \in Prompts \cup {NoPrompt}
        /\ cards' \subseteq Prompts
        /\ deciding' \in [Prompts -> [pc : {"idle", "asked", "done", "refused"},
                                    of : {"card", "message", "nothing"}]]
    <3> DEFINE CardsOK == /\ cards' \subseteq Prompts
                          /\ deciding' \in [Prompts -> [pc : {"idle", "asked", "done", "refused"},
                                                      of : {"card", "message", "nothing"}]]
    <3>1. PICK e \in Events : e = Head(wire[s]) /\ ApplyEvent(s, e)
        BY <1>6, <2>1 DEF ReadEvent
    <3>2. /\ AttachCard(s) => CardsOK
          /\ UNCHANGED <<cards, deciding>> => CardsOK
      <4>1. [deciding EXCEPT ![s].of = "message"]
                \in [Prompts -> [pc : {"idle", "asked", "done", "refused"},
                                of : {"card", "message", "nothing"}]]
          BY NextDecision
      <4> QED
          BY <4>1 DEF AttachCard
    <3>3. CardsOK
        BY <3>1, <3>2 DEF ApplyEvent
    <3>4. shown' \in [Prompts -> MessageStatuses]
        BY <3>1 DEF ApplyEvent, MessageStatuses
    <3>5. activeTurn' \in Prompts \cup {NoPrompt}
        BY <3>1 DEF ApplyEvent
    <3> QED
        BY <3>3, <3>4, <3>5
  <2>4. sending' \in [Prompts -> [pc : SendStates, at : Conversations \cup {Nowhere}]]
    <3>1. CASE sending' = sending
        BY <3>1
    <3>2. CASE sending' = [sending EXCEPT ![s].pc = "ending"]
        BY <3>2, NextState
    <3> QED
        BY <1>6, <3>1, <3>2 DEF ReadEvent
  <2> QED
      BY <1>6, <2>2, <2>3, <2>4 DEF ReadEvent
<1>7. ASSUME NEW s \in Prompts, StreamEnds(s) \/ RefuseReasoning(s) PROVE PageTypeOK'
  <2>1. CASE StreamEnds(s)
    <3>1. EndSend(s) /\ UNCHANGED <<serverVars, listed, viewVars, opening, removing>>
        BY <2>1 DEF StreamEnds
    <3> QED
        BY <1>24, <3>1 DEF serverVars, viewVars
  <2>2. CASE RefuseReasoning(s)
    <3>1. /\ sending' = [sending EXCEPT ![s].pc = "refreshing"]
          /\ UNCHANGED <<serverVars, listed, viewVars, streaming, controller, opening, removing>>
        BY <2>2 DEF RefuseReasoning
    <3>2. sending' \in [Prompts -> [pc : SendStates, at : Conversations \cup {Nowhere}]]
        BY <1>22, <3>1
    <3> QED
        BY <3>1, <3>2 DEF serverVars, viewVars
  <2> QED
      BY <1>7, <2>1, <2>2
<1>8. ASSUME NEW s \in Prompts, StreamFails(s) PROVE PageTypeOK'
  <2>1. <<>> \in Seq(Events) /\ Len(<<>>) <= MaxWire
      OBVIOUS
  <2>2. /\ wire' = [wire EXCEPT ![s] = <<>>] /\ MarkActive(MessageStatuses \ {"none"}, "failed")
        /\ EndSend(s)
        /\ UNCHANGED <<stored, saved, decided, listed, active, activeTurn, cards, deciding, opening,
                       removing>>
      BY <1>8 DEF StreamFails
  <2>3. shown' \in [Prompts -> MessageStatuses]
      BY <1>23, <2>2
  <2>4. wire' \in [Prompts -> Seq(Events)] /\ \A r \in Prompts : Len(wire'[r]) <= MaxWire
      BY <2>1, <2>2
  <2> QED
      BY <1>24, <2>2, <2>3, <2>4
<1>9. ASSUME NEW s \in Prompts, AbortLands(s) PROVE PageTypeOK'
  <2>1. <<>> \in Seq(Events) /\ Len(<<>>) <= MaxWire
      OBVIOUS
  <2>2. /\ wire' = [wire EXCEPT ![s] = <<>>] /\ MarkActive({"streaming"}, "cancelled")
        /\ EndSend(s)
        /\ UNCHANGED <<stored, saved, decided, listed, active, activeTurn, cards, deciding, opening,
                       removing>>
      BY <1>9 DEF AbortLands
  <2>3. shown' \in [Prompts -> MessageStatuses]
      BY <1>23, <2>2
  <2>4. wire' \in [Prompts -> Seq(Events)] /\ \A r \in Prompts : Len(wire'[r]) <= MaxWire
      BY <2>1, <2>2
  <2> QED
      BY <1>24, <2>2, <2>3, <2>4
<1>10. ASSUME NEW o \in Clicks, NEW c \in Conversations, OpenConversation(o, c) PROVE PageTypeOK'
    BY <1>10 DEF OpenConversation, NotOpening, NoMessages, serverVars, viewVars
<1>11. ASSUME NEW o \in Clicks, AnswerOpen(o) PROVE PageTypeOK'
  <2>1. \A told : StoredMessages(opening[o].at, told) \in [Prompts -> MessageStatuses]
      BY DEF StoredMessages
  <2>2. PICK told \in SUBSET decided :
           opening' = [opening EXCEPT ![o] =
                          IF opening[o].at \in stored
                          THEN [pc |-> "answered", at |-> opening[o].at,
                                messages |-> StoredMessages(opening[o].at, told)]
                          ELSE NotOpening]
      BY <1>11 DEF AnswerOpen
  <2>3. UNCHANGED <<serverVars, listed, viewVars, streaming, controller, sending, removing>>
      BY <1>11 DEF AnswerOpen
  <2> QED
      BY <2>1, <2>2, <2>3 DEF NotOpening, NoMessages, serverVars, viewVars
<1>12. ASSUME NEW o \in Clicks, ShowConversation(o) PROVE PageTypeOK'
  <2>1. opening[o].messages \in [Prompts -> MessageStatuses] /\ NotOpening.messages = NoMessages
      BY DEF NotOpening
  <2> QED
      BY <1>0, <1>21, <1>12, <2>1 DEF ShowConversation, NotOpening, serverVars
<1>13. ASSUME NEW c \in Conversations, RemoveConversation(c) PROVE PageTypeOK'
    BY <1>13 DEF RemoveConversation, serverVars, viewVars
<1>14. ASSUME NEW c \in Conversations, AnswerRemoval(c) PROVE PageTypeOK'
    BY <1>14 DEF AnswerRemoval, viewVars
<1>15. ASSUME NEW c \in Conversations, ConversationRemoved(c) PROVE PageTypeOK'
    BY <1>0, <1>21, <1>15 DEF ConversationRemoved, serverVars
<1>16. CASE PressStop
  <2>1. /\ MarkActive({"streaming"}, "cancelled")
        /\ sending' = [s \in Prompts |->
                          IF s = controller /\ sending[s].pc \in {"reading", "ending"}
                          THEN [sending[s] EXCEPT !.pc = "aborted"] ELSE sending[s]]
        /\ UNCHANGED <<serverVars, listed, active, activeTurn, cards, deciding, streaming,
                       controller, opening, removing>>
      BY <1>16 DEF PressStop
  <2>2. shown' \in [Prompts -> MessageStatuses]
      BY <1>23, <2>1
  <2>3. sending' \in [Prompts -> [pc : SendStates, at : Conversations \cup {Nowhere}]]
    <3>1. "aborted" \in SendStates
        OBVIOUS
    <3>2. ASSUME NEW s \in Prompts
          PROVE  [sending[s] EXCEPT !.pc = "aborted"] \in [pc : SendStates, at : Conversations \cup {Nowhere}]
      <4> HIDE DEF SendStates
      <4>1. sending[s] \in [pc : SendStates, at : Conversations \cup {Nowhere}]
          OBVIOUS
      <4> QED
          BY <3>1, <4>1
    <3> HIDE DEF SendStates
    <3> QED
        BY <2>1, <3>2
  <2> QED
      BY <2>1, <2>2, <2>3 DEF serverVars
<1>17. CASE StartNewConversation
    BY <1>0, <1>21, <1>17 DEF StartNewConversation, serverVars
<1>18. ASSUME NEW s \in Prompts, PressDecide(s) PROVE PageTypeOK'
    BY <1>18 DEF PressDecide, serverVars
<1>19. ASSUME NEW s \in Prompts, AnswerDecision(s) PROVE PageTypeOK'
  <2>1. PICK pc \in {"done", "refused"} : deciding' = [deciding EXCEPT ![s].pc = pc]
      BY <1>19 DEF AnswerDecision
  <2>2. deciding' \in [Prompts -> [pc : {"idle", "asked", "done", "refused"},
                                  of : {"card", "message", "nothing"}]]
      BY <2>1, NextDecision
  <2>3. /\ decided' \subseteq Prompts
        /\ UNCHANGED <<stored, saved, wire, listed, active, shown, activeTurn, cards, streaming,
                       controller, sending, opening, removing>>
      BY <1>19 DEF AnswerDecision
  <2> QED
      BY <2>2, <2>3
<1>20. ASSUME NEW s \in Prompts, DecisionLands(s) PROVE PageTypeOK'
    BY <1>20 DEF DecisionLands, NotDeciding, serverVars
<1> QED
    BY <1>1, <1>2, <1>3, <1>4, <1>5, <1>6, <1>7, <1>8, <1>9, <1>10, <1>11, <1>12, <1>13, <1>14,
       <1>15, <1>16, <1>17, <1>18, <1>19, <1>20 DEF PageNext

\* What the response of a prompt has told does not change any more
LEMMA SavedStays ==
    ASSUME PageTypeOK, PageNext
    PROVE  \A s \in Prompts : /\ saved[s] = "succeeded" => saved'[s] = "succeeded"
                              /\ s \in decided => s \in decided'
                              /\ Succeeded(s) => Succeeded(s)'
  <1>1. \A s \in Prompts : s \in decided => s \in decided'
      BY DEF PageNext, PressSend, CreationFails, ConversationCreated, ServerStep,
         ReadEvent, StreamEnds, StreamFails, RefuseReasoning, AbortLands, OpenConversation, AnswerOpen,
         ShowConversation, RemoveConversation, AnswerRemoval, ConversationRemoved, PressStop, StartNewConversation,
         PressDecide, AnswerDecision, DecisionLands, serverVars
  <1>2. ASSUME NEW r \in Prompts, AcceptTurn(r) \/ EmitCard(r) \/ EndStoredTurn(r)
        PROVE  \A s \in Prompts : saved[s] = "succeeded" => saved'[s] = "succeeded"
    <2>1. PICK status : saved' = [saved EXCEPT ![r] = status]
        BY <1>2 DEF AcceptTurn, EmitCard, EndStoredTurn
    <2>2. saved[r] # "succeeded"
        BY <1>2 DEF AcceptTurn, EmitCard, EndStoredTurn
    <2> QED
        BY <2>1, <2>2 DEF PageTypeOK
  <1>3. \A s \in Prompts : saved[s] = "succeeded" => saved'[s] = "succeeded"
      BY <1>2 DEF PageNext, PressSend, CreationFails, ConversationCreated, ServerStep, EmitDelta,
         ReadEvent, StreamEnds, StreamFails, RefuseReasoning, AbortLands, OpenConversation, AnswerOpen,
         ShowConversation, RemoveConversation, AnswerRemoval, ConversationRemoved, PressStop, StartNewConversation,
         PressDecide, AnswerDecision, DecisionLands, serverVars
  <1> QED
      BY <1>1, <1>3 DEF Succeeded

\* A prompt that has a conversation keeps it
LEMMA TargetsStay ==
    ASSUME PageTypeOK, TargetsFit, PageNext
    PROVE  /\ \A s \in Prompts : sending[s].at # Nowhere => sending'[s].at = sending[s].at
           /\ TargetsFit'
  <1> DEFINE Stays ==
               /\ \A s \in Prompts : sending[s].at # Nowhere => sending'[s].at = sending[s].at
               /\ TargetsFit'
  <1> USE DEF PageTypeOK, TargetsFit
  <1>1. CASE UNCHANGED <<sending, controller>>
      BY <1>1
  <1>2. ASSUME NEW r \in Prompts, NEW c \in Conversations, StartStream(r, c),
               sending[r].pc \in {"idle", "creating"}
        PROVE  Stays
    <2>1. sending[r].at = Nowhere /\ c # Nowhere
        BY <1>2, PageAssumption
    <2> QED
        BY <1>2, <2>1, PageAssumption DEF StartStream
  <1>3. ASSUME NEW r \in Prompts, PressSend(r) PROVE Stays
    <2>1. CASE active \in listed /\ StartStream(r, active)
        BY <1>2, <1>3, <2>1 DEF PressSend
    <2>2. CASE sending' = [sending EXCEPT ![r].pc = "creating"] /\ UNCHANGED controller
      <3>1. sending[r].pc = "idle" /\ sending[r].at = Nowhere /\ controller # r
          BY <1>3 DEF PressSend
      <3> QED
          BY <2>2, <3>1
    <2> QED
        BY <1>3, <2>1, <2>2 DEF PressSend
  <1>4. ASSUME NEW r \in Prompts, NEW c \in Conversations, ConversationCreated(r, c) PROVE Stays
      BY <1>2, <1>4 DEF ConversationCreated
  <1>5. ASSUME NEW r \in Prompts, EndSend(r) PROVE Stays
      BY <1>5, PageAssumption DEF EndSend
  <1>6. ASSUME NEW r \in Prompts, ReadEvent(r) PROVE Stays
    <2>1. sending[r].pc = "reading" /\ UNCHANGED controller
        BY <1>6 DEF ReadEvent
    <2>2. CASE sending' = sending
        BY <2>1, <2>2
    <2>3. CASE sending' = [sending EXCEPT ![r].pc = "ending"]
        BY <2>1, <2>3
    <2> QED
        BY <1>6, <2>2, <2>3 DEF ReadEvent
  <1>8. ASSUME NEW r \in Prompts, RefuseReasoning(r) PROVE Stays
      BY <1>8 DEF RefuseReasoning
  <1>7. CASE PressStop
    <2>1. \A s \in Prompts : /\ sending'[s].at = sending[s].at
                             /\ sending'[s].pc = IF s = controller /\ sending[s].pc \in {"reading", "ending"}
                                                THEN "aborted" ELSE sending[s].pc
        BY <1>7 DEF PressStop
    <2>2. UNCHANGED controller
        BY <1>7 DEF PressStop
    <2> QED
        BY <2>1, <2>2
  <1> QED
      BY <1>1, <1>3, <1>4, <1>5, <1>6, <1>7, <1>8 DEF PageNext, CreationFails, ServerStep, StreamEnds, StreamFails,
         AbortLands, OpenConversation, AnswerOpen, ShowConversation, RemoveConversation, AnswerRemoval,
         ConversationRemoved, StartNewConversation, PressDecide, AnswerDecision, DecisionLands

\* The response grows by what is stored in the same step, and shrinks
LEMMA WireStep ==
    ASSUME PageTypeOK, WireFits, PageNext
    PROVE  WireFits'
  <1>0. \A s \in Prompts : saved[s] = "succeeded" => saved'[s] = "succeeded"
      BY SavedStays
  <1>1. CASE UNCHANGED wire
      BY <1>0, <1>1 DEF WireFits
  <1>2. ASSUME NEW r \in Prompts, wire' = [wire EXCEPT ![r] = <<>>] PROVE WireFits'
    <2>1. \A s \in Prompts : wire'[s] = wire[s] \/ wire'[s] = <<>>
        BY <1>2 DEF PageTypeOK
    <2>2. \A s \in Prompts : wire'[s] = <<>> => 1..Len(wire'[s]) = {}
        OBVIOUS
    <2> QED
        BY <1>0, <2>1, <2>2 DEF WireFits
  <1>3. ASSUME NEW r \in Prompts, wire[r] # <<>>, wire' = [wire EXCEPT ![r] = Tail(wire[r])]
        PROVE  WireFits'
    <2>1. wire[r] \in Seq(Events)
        BY DEF PageTypeOK
    <2>2. \A i \in 1..Len(Tail(wire[r])) : i + 1 \in 1..Len(wire[r]) /\ Tail(wire[r])[i] = wire[r][i + 1]
        BY <1>3, <2>1
    <2>3. \A i \in 1..Len(Tail(wire[r])) : Tail(wire[r])[i] = "succeeded" => saved[r] = "succeeded"
        BY <2>2 DEF WireFits
    <2>4. wire'[r] = Tail(wire[r]) /\ \A s \in Prompts \ {r} : wire'[s] = wire[s]
        BY <1>3 DEF PageTypeOK
    <2> QED
        BY <1>0, <2>3, <2>4 DEF WireFits
  <1>4. ASSUME NEW r \in Prompts, NEW e \in Events, Emit(r, e),
               e = "succeeded" => saved'[r] = "succeeded"
        PROVE  WireFits'
    <2>1. wire[r] \in Seq(Events)
        BY DEF PageTypeOK
    <2>2. wire'[r] = Append(wire[r], e) /\ \A s \in Prompts \ {r} : wire'[s] = wire[s]
        BY <1>4 DEF Emit, PageTypeOK
    <2>3. \A i \in 1..Len(Append(wire[r], e)) :
             \/ i \in 1..Len(wire[r]) /\ Append(wire[r], e)[i] = wire[r][i]
             \/ Append(wire[r], e)[i] = e
        BY <2>1
    <2>4. \A i \in 1..Len(wire'[r]) : wire'[r][i] = "succeeded" => saved'[r] = "succeeded"
        BY <1>0, <1>4, <2>2, <2>3 DEF WireFits
    <2> QED
        BY <1>0, <2>2, <2>4 DEF WireFits
  <1>5. ASSUME NEW r \in Prompts, ServerStep(r) PROVE WireFits'
    <2>1. CASE AcceptTurn(r)
        BY <1>4, <2>1 DEF AcceptTurn, Events
    <2>2. CASE EmitDelta(r)
        BY <1>4, <2>2 DEF EmitDelta, Events
    <2>4. CASE EmitCard(r)
        BY <1>4, <2>4 DEF EmitCard, Events
    <2>3. CASE EndStoredTurn(r)
      <3>1. PICK e \in TerminalEvents : /\ saved' = [saved EXCEPT ![r] = e]
                                        /\ Emit(r, e) \/ UNCHANGED wire
          BY <2>3 DEF EndStoredTurn
      <3>2. saved' = [saved EXCEPT ![r] = e]
          BY <3>1
      <3>3. saved'[r] = e
          BY <3>2 DEF PageTypeOK
      <3> QED
          BY <1>1, <1>4, <3>1, <3>3 DEF Events
    <2> QED
        BY <1>5, <2>1, <2>2, <2>3, <2>4 DEF ServerStep
  <1>6. ASSUME NEW r \in Prompts, ReadEvent(r) PROVE WireFits'
      BY <1>3, <1>6 DEF ReadEvent
  <1>7. ASSUME NEW r \in Prompts, StreamFails(r) \/ AbortLands(r) PROVE WireFits'
      BY <1>2, <1>7 DEF StreamFails, AbortLands
  <1> QED
      BY <1>1, <1>5, <1>6, <1>7 DEF PageNext, PressSend, CreationFails, ConversationCreated, StreamEnds,
         RefuseReasoning, OpenConversation, AnswerOpen, ShowConversation, RemoveConversation, AnswerRemoval,
         ConversationRemoved, PressStop, StartNewConversation, PressDecide, AnswerDecision, DecisionLands, serverVars

\* An answer keeps to its conversation for as long as it is on its way
LEMMA AnswersStep ==
    ASSUME PageTypeOK, AnswersFit, TargetsFit, PageNext
    PROVE  AnswersFit'
  <1>0. /\ \A s \in Prompts : Succeeded(s) => Succeeded(s)'
        /\ \A s \in Prompts : sending[s].at # Nowhere => sending'[s].at = sending[s].at
      BY SavedStays, TargetsStay
  <1>1. CASE UNCHANGED opening
      BY <1>0, <1>1 DEF AnswersFit
  <1>2. ASSUME NEW o \in Clicks, NEW new, opening' = [opening EXCEPT ![o] = new],
               new.messages = NoMessages
        PROVE  AnswersFit'
    <2>1. \A p \in Clicks : opening'[p] = opening[p] \/ opening'[p].messages = NoMessages
        BY <1>2 DEF PageTypeOK
    <2>2. \A s \in Prompts : NoMessages[s] = "none"
        BY DEF NoMessages
    <2> QED
        BY <1>0, <2>1, <2>2 DEF AnswersFit
  <1>3. ASSUME NEW o \in Clicks, AnswerOpen(o) PROVE AnswersFit'
    <2>0. PICK told \in SUBSET decided :
             opening' = [opening EXCEPT ![o] =
                            IF opening[o].at \in stored
                            THEN [pc |-> "answered", at |-> opening[o].at,
                                  messages |-> StoredMessages(opening[o].at, told)]
                            ELSE NotOpening]
        BY <1>3 DEF AnswerOpen
    <2> DEFINE c == opening[o].at
               answer == [pc |-> "answered", at |-> c, messages |-> StoredMessages(c, told)]
    <2>1. CASE c \notin stored
      <3>1. NotOpening.messages = NoMessages
          BY DEF NotOpening
      <3>2. opening' = [opening EXCEPT ![o] = NotOpening]
          BY <2>0, <2>1
      <3> QED
          BY <1>2, <3>1, <3>2
    <2>2. CASE c \in stored
      <3>1. c # Nowhere
          BY <2>2, PageAssumption DEF PageTypeOK
      <3>2. \A p \in Clicks : opening'[p] = IF p = o THEN answer ELSE opening[p]
          BY <2>0, <2>2 DEF PageTypeOK
      <3>3. \A s \in Prompts : /\ StoredMessages(c, told)[s] # "none" => sending[s].at = c
                               /\ StoredMessages(c, told)[s] = "succeeded" => Succeeded(s)
          BY <2>0 DEF StoredMessages, Succeeded
      <3>4. answer.at = c /\ answer.messages = StoredMessages(c, told)
          OBVIOUS
      <3> HIDE DEF c, answer
      <3>5. ASSUME NEW p \in Clicks, NEW s \in Prompts
            PROVE  /\ opening'[p].messages[s] # "none" =>
                          sending'[s].at = opening'[p].at /\ opening'[p].at # Nowhere
                   /\ opening'[p].messages[s] = "succeeded" => Succeeded(s)'
        <4>1. CASE p = o
          <5>1. opening'[p] = answer
              BY <3>2, <4>1
          <5>2. opening'[p].at = c /\ opening'[p].messages[s] = StoredMessages(c, told)[s]
              BY <3>4, <5>1
          <5> QED
              BY <1>0, <3>1, <3>3, <5>2
        <4>2. CASE p # o
            BY <1>0, <3>2, <4>2 DEF AnswersFit
        <4> QED
            BY <4>1, <4>2
      <3> QED
          BY <3>5 DEF AnswersFit
    <2> QED
        BY <2>1, <2>2
  <1>4. ASSUME NEW o \in Clicks, NEW c \in Conversations, OpenConversation(o, c) PROVE AnswersFit'
    <2> DEFINE new == [NotOpening EXCEPT !.pc = "asked", !.at = c]
    <2>1. new.messages = NoMessages /\ opening' = [opening EXCEPT ![o] = new]
        BY <1>4 DEF OpenConversation, NotOpening
    <2> QED
        BY <1>2, <2>1
  <1>5. ASSUME NEW o \in Clicks, ShowConversation(o) PROVE AnswersFit'
    <2>1. NotOpening.messages = NoMessages
        BY DEF NotOpening
    <2> QED
        BY <1>2, <1>5, <2>1 DEF ShowConversation
  <1> QED
      BY <1>1, <1>3, <1>4, <1>5 DEF PageNext, PressSend, CreationFails, ConversationCreated, ServerStep,
         ReadEvent, StreamEnds, StreamFails, RefuseReasoning, AbortLands, RemoveConversation, AnswerRemoval,
         ConversationRemoved, PressStop, StartNewConversation, PressDecide, AnswerDecision, DecisionLands

\* A card and a decision under way have their message
LEMMA DecidingStep ==
    ASSUME PageTypeOK, DecidingFits, PageNext
    PROVE  DecidingFits'
  <1> USE DEF PageTypeOK, DecidingFits, IsGranted
  <1>0. \A s \in Prompts : s \in decided => s \in decided'
      BY SavedStays
  <1>1. ASSUME UNCHANGED <<cards, deciding>>, \A s \in Prompts : shown[s] # "none" => shown'[s] # "none"
        PROVE  DecidingFits'
      BY <1>0, <1>1
  <1>2. ASSUME NEW new, ReplaceMessages(new)
        PROVE  DecidingFits'
      BY <1>0, <1>2 DEF ReplaceMessages
  <1>3. ASSUME NEW statuses, NEW status, status # "none", MarkActive(statuses, status),
               UNCHANGED <<cards, deciding>>
        PROVE  DecidingFits'
      BY <1>1, <1>3 DEF MarkActive
  <1>4. ASSUME NEW r \in Prompts, ReadEvent(r) PROVE DecidingFits'
    <2>1. PICK e \in Events : e = Head(wire[r]) /\ ApplyEvent(r, e)
        BY <1>4 DEF ReadEvent
    <2>2. ASSUME AttachCard(r), shown[r] # "none", \A s \in Prompts : shown[s] # "none" => shown'[s] # "none"
          PROVE  DecidingFits'
        BY <1>0, <2>2 DEF AttachCard
    <2>3. \A s \in Prompts : shown[s] # "none" => shown'[s] # "none"
        BY <2>1 DEF ApplyEvent, TerminalEvents
    <2> QED
        BY <1>1, <2>1, <2>2, <2>3 DEF ApplyEvent
  <1>5. ASSUME NEW r \in Prompts, PressDecide(r) PROVE DecidingFits'
      BY <1>0, <1>5 DEF PressDecide
  <1>6. ASSUME NEW r \in Prompts, AnswerDecision(r) PROVE DecidingFits'
    <2>1. PICK pc \in {"done", "refused"} : /\ deciding' = [deciding EXCEPT ![r].pc = pc]
                                            /\ pc = "done" => decided' = decided \cup {r}
        BY <1>6 DEF AnswerDecision
    <2>2. UNCHANGED <<shown, cards>>
        BY <1>6 DEF AnswerDecision
    <2> QED
        BY <1>0, <2>1, <2>2
  <1>7. ASSUME NEW r \in Prompts, DecisionLands(r) PROVE DecidingFits'
      BY <1>0, <1>7 DEF DecisionLands, NotDeciding
  <1>8. ASSUME NEW o \in Clicks, ShowConversation(o) PROVE DecidingFits'
      BY <1>2, <1>8 DEF ShowConversation
  <1>9. ASSUME NEW r \in Prompts, CreationFails(r) \/ StreamFails(r) \/ AbortLands(r) PROVE DecidingFits'
      BY <1>3, <1>9 DEF CreationFails, StreamFails, AbortLands
  <1>10. CASE PressStop
      BY <1>3, <1>10 DEF PressStop
  <1>11. CASE UNCHANGED viewVars
      BY <1>1, <1>11 DEF viewVars
  <1>12. ASSUME NEW r \in Prompts, NEW c \in Conversations, ConversationCreated(r, c) PROVE DecidingFits'
      BY <1>2, <1>12 DEF ConversationCreated
  <1>13. ASSUME NEW c \in Conversations, ConversationRemoved(c) PROVE DecidingFits'
      BY <1>1, <1>2, <1>13 DEF ConversationRemoved
  <1>14. CASE StartNewConversation
      BY <1>2, <1>14 DEF StartNewConversation
  <1>15. ASSUME NEW r \in Prompts, PressSend(r) PROVE DecidingFits'
      BY <1>1, <1>15 DEF PressSend
  <1> QED
      BY <1>4, <1>5, <1>6, <1>7, <1>8, <1>9, <1>10, <1>11, <1>12, <1>13, <1>14, <1>15 DEF PageNext, ServerStep,
         StreamEnds, RefuseReasoning, OpenConversation, AnswerOpen, RemoveConversation, AnswerRemoval

\* Messages are marked or replaced with those of the conversation that is opened
LEMMA ShownStep ==
    ASSUME PageIInv, PageNext
    PROVE  ShownFits'
  <1> USE DEF PageIInv
  <1>0. /\ \A s \in Prompts : Succeeded(s) => Succeeded(s)'
        /\ \A s \in Prompts : sending[s].at # Nowhere => sending'[s].at = sending[s].at
      BY SavedStays, TargetsStay
  <1>1. ASSUME active' = active,
               \A s \in Prompts : /\ shown'[s] # "none" => shown[s] # "none"
                                  /\ shown'[s] = "succeeded" => shown[s] = "succeeded"
        PROVE  ShownFits'
      BY <1>0, <1>1 DEF ShownFits
  <1>2. CASE UNCHANGED <<active, shown>>
      BY <1>1, <1>2
  <1>3. CASE ReplaceMessages(NoMessages)
      BY <1>3 DEF ReplaceMessages, NoMessages, ShownFits
  <1>4. ASSUME NEW statuses, NEW status, "none" \notin statuses, status # "succeeded",
               MarkActive(statuses, status), active' = active
        PROVE  ShownFits'
      BY <1>1, <1>4 DEF MarkActive
  <1>5. ASSUME NEW r \in Prompts, ReadEvent(r) PROVE ShownFits'
    <2>1. wire[r] \in Seq(Events) /\ wire[r] # <<>>
        BY <1>5 DEF ReadEvent, PageTypeOK
    <2>2. Head(wire[r]) \in Events /\ Head(wire[r]) = wire[r][1] /\ 1 \in 1..Len(wire[r])
        BY <2>1
    <2>3. PICK e \in Events : e = Head(wire[r]) /\ ApplyEvent(r, e)
        BY <1>5, <2>2 DEF ReadEvent
    <2>4. e = "succeeded" => Succeeded(r)
        BY <2>2, <2>3 DEF WireFits, Succeeded
    <2>5. active' = active /\ sending[r].at # Nowhere
        BY <1>5 DEF ReadEvent, TargetsFit
    <2>6. CASE UNCHANGED shown
        BY <1>2, <2>5, <2>6
    <2>7. ASSUME active = sending[r].at, NEW status, shown' = [shown EXCEPT ![r] = status],
                 status = "succeeded" => Succeeded(r)
          PROVE  ShownFits'
      <3>1. shown'[r] = status /\ \A s \in Prompts \ {r} : shown'[s] = shown[s]
          BY <2>7 DEF PageTypeOK
      <3>2. /\ shown'[r] # "none" => sending'[r].at = active' /\ active' # Nowhere
            /\ shown'[r] = "succeeded" => Succeeded(r)'
          BY <1>0, <2>5, <2>7, <3>1
      <3>3. \A s \in Prompts \ {r} :
               /\ shown'[s] # "none" => sending'[s].at = active' /\ active' # Nowhere
               /\ shown'[s] = "succeeded" => Succeeded(s)'
          BY <1>0, <2>5, <3>1 DEF ShownFits
      <3> QED
          BY <3>2, <3>3 DEF ShownFits
    <2>8. ASSUME IsForThisPage(r), NEW status \in {"running", "streaming"}, shown' = [shown EXCEPT ![r] = status]
          PROVE  ShownFits'
        BY <2>7, <2>8 DEF IsForThisPage
    <2>9. CASE IsForThisPage(r) /\ shown' = [shown EXCEPT ![r] = e]
        BY <2>4, <2>7, <2>9 DEF IsForThisPage
    <2> QED
        BY <2>3, <2>6, <2>8, <2>9 DEF ApplyEvent
  <1>6. ASSUME NEW o \in Clicks, ShowConversation(o) PROVE ShownFits'
      BY <1>0, <1>6 DEF ShowConversation, ReplaceMessages, AnswersFit, ShownFits
  <1>7. ASSUME NEW r \in Prompts, CreationFails(r) \/ StreamFails(r) PROVE ShownFits'
      BY <1>4, <1>7 DEF CreationFails, StreamFails
  <1>8. ASSUME NEW r \in Prompts, AbortLands(r) PROVE ShownFits'
      BY <1>4, <1>8 DEF AbortLands
  <1>9. CASE PressStop
      BY <1>4, <1>9 DEF PressStop
  <1>10. ASSUME NEW r \in Prompts, DecisionLands(r) PROVE ShownFits'
    <2>1. CASE IsGranted(r) /\ deciding[r].of # "nothing"
      <3>1. Succeeded(r) /\ shown[r] # "none"
          BY <2>1 DEF DecidingFits, Succeeded
      <3>2. shown'[r] = "succeeded" /\ \A s \in Prompts \ {r} : shown'[s] = shown[s]
          BY <1>10, <2>1 DEF DecisionLands, PageTypeOK
      <3>3. active' = active
          BY <1>10 DEF DecisionLands
      <3> QED
          BY <1>0, <3>1, <3>2, <3>3 DEF ShownFits
    <2>2. CASE UNCHANGED <<active, shown>>
        BY <1>2, <2>2
    <2> QED
        BY <1>10, <2>1, <2>2 DEF DecisionLands
  <1> QED
      BY <1>2, <1>3, <1>5, <1>6, <1>7, <1>8, <1>9, <1>10 DEF PageNext, PressSend, ConversationCreated, ServerStep,
         StreamEnds, RefuseReasoning, OpenConversation, AnswerOpen, RemoveConversation, AnswerRemoval, ConversationRemoved,
         StartNewConversation, PressDecide, AnswerDecision, viewVars

LEMMA PageInductive == PageIInv /\ [PageNext]_pageVars => PageIInv'
<1> SUFFICES ASSUME PageIInv, [PageNext]_pageVars PROVE PageIInv'
    OBVIOUS
<1>1. CASE PageNext
    BY <1>1, PageTypeStep, WireStep, AnswersStep, DecidingStep, ShownStep, TargetsStay DEF PageIInv
<1>2. CASE UNCHANGED pageVars
  <2>1. PageTypeOK'
      BY PageTypeStep DEF PageIInv
  <2> QED
      BY <1>2, <2>1 DEF PageIInv, pageVars, ShownFits, AnswersFit, WireFits, DecidingFits, TargetsFit, Succeeded,
         IsGranted
<1> QED
    BY <1>1, <1>2

\* The variables of the page keep their types, responses that are under way included.
THEOREM PageTypeCorrect == PageSpec => []PageTypeOK
<1>1. PageIInv => PageTypeOK
    BY DEF PageIInv
<1> QED
    BY <1>1, PageInitial, PageInductive, PTL DEF PageSpec

\* Whatever is clicked while requests are under way, an answer is displayed in its own
\* conversation only, and a success only after the turn stored it or the server carried out a
\* decision on its card.
THEOREM ShownWhereSent == PageSpec => []TurnsShownAtHome
<1>1. PageIInv => TurnsShownAtHome
    BY DEF PageIInv, ShownFits, Succeeded, TurnsShownAtHome
<1> QED
    BY <1>1, PageInitial, PageInductive, PTL DEF PageSpec
=============================================================================
