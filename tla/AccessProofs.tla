---------------------------- MODULE AccessProofs -----------------------------
(***************************************************************************)
(* Theorems about ChatTurn and ProjectMembership: who may see what.        *)
(***************************************************************************)
EXTENDS ChatTurn, ProjectMembership, TLAPS

(***************************************************************************)
(* ChatTurn.  The visibility that a turn keeps covers the projects its     *)
(* model has been told of (SourcesKept): the history, because the replies  *)
(* it quotes were there when the scope was taken (ScopeFits) and are       *)
(* covered themselves (RepliesKept), and the results of the tools, because *)
(* every call is entered into the trace.  The reply is of these sources.   *)
(* Repairs and rounds share one budget (WithinBudget).                     *)
(* What a turn knows, has run and replies implements ChatContract.         *)
(***************************************************************************)

Phases == {"none", "sent", "scoped", "ask", "call", "execute", "card", "confirm", "summary",
           "settled", "lost"}
Before == {"none", "sent", "scoped"}
Working == {"call", "execute", "card", "confirm"}
Told == {"ask", "call", "execute", "card", "confirm", "summary"}

Reply == [text : BOOLEAN, from : SUBSET ReadableProjects]
Audit == [status : {"none", "running"} \cup SettledStatuses, marker : Visibility,
          trace : SUBSET Visibility, open : BOOLEAN]
StreamState ==
    [pc : Phases, scope : Visibility, knew : SUBSET Turns, raced : BOOLEAN,
     sources : SUBSET ReadableProjects, emitted : Reply, iteration : Nat \ {0}, repairs : Nat,
     failures : Nat, tools : BOOLEAN, cached : SUBSET Calls, blocked : SUBSET {NameOf[c] : c \in Calls},
     todo : Seq(Calls), failed : BOOLEAN, hard : BOOLEAN, reused : BOOLEAN, asked : Nat,
     ran : [Calls -> Nat]]

\* The completions of i rounds
Budget(i) == i * (MaxArgumentRepairs + 1)

\* What is left of the settings: a round asks once and once more for every repair.
WithinBudget(s) ==
    /\ s.iteration <= MaxIterations + 1 /\ s.repairs <= MaxArgumentRepairs + 1
    /\ s.failures <= MaxFailureRepairs + 1 /\ s.asked <= Budget(MaxIterations)
    /\ s.pc \in Before => s.asked = 0 /\ s.iteration = 1 /\ s.repairs = 0 /\ s.failures = 0
    /\ s.pc \in {"ask"} \cup Working =>
         /\ s.iteration <= MaxIterations /\ s.repairs <= MaxArgumentRepairs
         /\ s.failures <= MaxFailureRepairs
    /\ s.pc = "ask" => s.asked <= Budget(s.iteration - 1) + s.repairs
    /\ s.pc \in Working => s.asked <= Budget(s.iteration - 1) + s.repairs + 1

\* A call that has run is in the cache of its turn, if no agent answers it.
RanOnce(t, s) == t \notin AgentTurns => \A c \in Calls : s.ran[c] <= 1 /\ (c \notin s.cached => s.ran[c] = 0)

\* Nothing is told before the history is read, and nothing emitted that was not told.
InPhase(s) ==
    /\ s.pc \in Before => s.sources = {} /\ ~s.raced
    /\ s.pc = "execute" => s.todo # <<>>
    /\ s.emitted.from \subseteq s.sources

StreamFits(t, s) == s \in StreamState /\ WithinBudget(s) /\ RanOnce(t, s) /\ InPhase(s)

\* The audit and the reply of a turn follow its generator.
AuditFits(s, a, r) ==
    /\ a.status = "none" <=> s.pc = "none"
    /\ a.status \in SettledStatuses => s.pc = "settled"
    /\ r.text => s.pc = "settled"

Covers(v, S) == v.known => S \subseteq v.projects

\* What the model has been told lies within what the turn keeps.
SourcesKept(s, a) == s.pc \in Told => Covers(Combined({s.scope} \cup a.trace), s.sources)

RepliesKept(t) == reply[t].text => Covers(VisibilityOf(t), reply[t].from)

\* The replies that were there when the scope was taken lie within it.
ScopeFits(s, t) == \A u \in s.knew : stream[u].pc = "settled" /\ (u # t => Covers(s.scope, reply[u].from))

NoneRaced == \A t \in Turns : ~stream[t].raced

ScopesHold ==
    NoneRaced => \A t \in Turns :
        /\ SourcesKept(stream[t], record[t])
        /\ RepliesKept(t)
        /\ stream[t].pc = "scoped" /\ ~gone => ScopeFits(stream[t], t)

ChatShaped ==
    /\ access \subseteq ReadableProjects /\ losses \in 0..MaxLosses /\ gone \in BOOLEAN
    /\ record \in [Turns -> Audit] /\ reply \in [Turns -> Reply] /\ stream \in [Turns -> StreamState]

ChatIInv ==
    /\ ChatShaped
    /\ \A t \in Turns : StreamFits(t, stream[t]) /\ AuditFits(stream[t], record[t], reply[t])
    /\ ScopesHold

-----------------------------------------------------------------------------
(* Visibility.                                                             *)

LEMMA CombinedTypes == ASSUME NEW V \in SUBSET Visibility PROVE Combined(V) \in Visibility
  <1>1. UNION {v.projects : v \in V} \subseteq ReadableProjects BY Zenon DEF Visibility
  <1>. QED BY <1>1 DEF Combined, Visibility, Known, Unknown

LEMMA CombinedCovers ==
    ASSUME NEW V, NEW v \in V, NEW S, Covers(v, S)
    PROVE  Covers(Combined(V), S)
  <1>. SUFFICES ASSUME Combined(V).known PROVE S \subseteq Combined(V).projects BY DEF Covers
  <1>1. \A w \in V : w.known BY DEF Combined, Unknown
  <1>2. S \subseteq v.projects BY <1>1 DEF Covers
  <1>3. v.projects \subseteq UNION {w.projects : w \in V} OBVIOUS
  <1>. QED BY <1>1, <1>2, <1>3 DEF Combined, Known

LEMMA MoreCovers ==
    ASSUME NEW V, NEW W, V \subseteq W, NEW S, Covers(Combined(V), S)
    PROVE  Covers(Combined(W), S)
  <1>. SUFFICES ASSUME Combined(W).known PROVE S \subseteq Combined(W).projects BY DEF Covers
  <1>1. \A w \in W : w.known BY DEF Combined, Unknown
  <1>2. S \subseteq UNION {w.projects : w \in V} BY <1>1 DEF Covers, Combined, Known
  <1>3. UNION {w.projects : w \in V} \subseteq UNION {w.projects : w \in W} OBVIOUS
  <1>. QED BY <1>1, <1>2, <1>3 DEF Combined, Known

LEMMA MarkersType == Unknown \in Visibility /\ NoMarker \in Visibility /\ (\A S \in SUBSET ReadableProjects : Known(S) \in Visibility)
  BY DEF Unknown, NoMarker, Known, Visibility

LEMMA VisibilityTypes ==
    ASSUME ChatShaped, NEW t \in Turns
    PROVE  TraceOf(t) \subseteq Visibility /\ VisibilityOf(t) \in Visibility /\ ScopeKept(t) \in Visibility
  <1>1. record[t] \in Audit /\ stream[t] \in StreamState BY DEF ChatShaped
  <1>2. record[t].trace \subseteq Visibility /\ record[t].marker \in Visibility /\ stream[t].scope \in Visibility
    BY <1>1 DEF Audit, StreamState
  <1>3. TraceOf(t) \subseteq Visibility BY <1>2, MarkersType DEF TraceOf
  <1>4. Combined(TraceOf(t)) \in Visibility BY <1>3, CombinedTypes
  <1>5. Combined({record[t].marker} \cup TraceOf(t)) \in Visibility BY <1>2, <1>3, CombinedTypes
  <1>6. Combined({stream[t].scope} \cup TraceOf(t)) \in Visibility BY <1>2, <1>3, CombinedTypes
  <1>7. VisibilityOf(t) \in {Combined({record[t].marker} \cup TraceOf(t)), Combined(TraceOf(t)), Unknown}
    BY DEF VisibilityOf
  <1>. QED BY <1>3, <1>4, <1>5, <1>6, <1>7, MarkersType DEF ScopeKept

LEMMA HistoryTypes == ASSUME ChatShaped, NEW t \in Turns PROVE HistoricalVisibility(t) \in Visibility
  <1>. DEFINE V == {VisibilityOf(u) : u \in {u \in Turns \ {t} : record[u].status # "none"}}
  <1>1. V \subseteq Visibility BY VisibilityTypes
  <1>2. Combined(V) \in Visibility BY <1>1, CombinedTypes
  <1>3. Known({}) \in Visibility BY MarkersType
  <1>. QED BY <1>2, <1>3 DEF HistoricalVisibility

-----------------------------------------------------------------------------
(* The settings.                                                           *)

LEMMA Budgets ==
    /\ MaxIterations \in Nat \ {0} /\ MaxArgumentRepairs \in Nat /\ MaxFailureRepairs \in Nat /\ MaxLosses \in Nat
    /\ \A i \in Nat : Budget(i) \in Nat
    /\ Budget(0) = 0
    /\ \A i \in Nat \ {0} : Budget(i) = Budget(i - 1) + MaxArgumentRepairs + 1
    /\ \A i \in Nat : i <= MaxIterations => Budget(i) <= Budget(MaxIterations)
  <1>1. MaxIterations \in Nat \ {0} /\ MaxArgumentRepairs \in Nat /\ MaxFailureRepairs \in Nat /\ MaxLosses \in Nat
    BY ChatAssumption
  <1>2. \A i \in Nat : Budget(i) \in Nat BY <1>1 DEF Budget
  <1>3. \A i \in Nat \ {0} : Budget(i) = Budget(i - 1) + MaxArgumentRepairs + 1
    <2>. TAKE i \in Nat \ {0}
    <2>. QED BY <1>1 DEF Budget
  <1>4. ASSUME NEW i \in Nat, i <= MaxIterations PROVE Budget(i) <= Budget(MaxIterations)
    <2>1. PICK k \in Nat : MaxIterations = i + k BY <1>1, <1>4
    <2>2. Budget(MaxIterations) = Budget(i) + k * (MaxArgumentRepairs + 1) BY <2>1, <1>1 DEF Budget
    <2>3. k * (MaxArgumentRepairs + 1) \in Nat BY <1>1
    <2>. QED BY <2>2, <2>3, <1>2
  <1>. QED BY <1>1, <1>2, <1>3, <1>4 DEF Budget

-----------------------------------------------------------------------------
(* A step of one turn that leaves the replies alone.                       *)

LEMMA TurnMoves ==
    ASSUME ChatIInv, NEW t \in Turns, NEW s, NEW a, stream[t].pc # "settled",
           StreamFits(t, s), a \in Audit, AuditFits(s, a, reply[t]),
           stream' = [stream EXCEPT ![t] = s], record' = [record EXCEPT ![t] = a],
           UNCHANGED <<access, reply, gone>>, losses' \in 0..MaxLosses,
           stream[t].raced => s.raced,
           NoneRaced => (~s.raced => SourcesKept(s, a)),
           NoneRaced => (s.pc = "scoped" /\ ~gone => ScopeFits(s, t))
    PROVE  ChatIInv'
  <1>1. stream[t] \in StreamState /\ s \in StreamState BY DEF ChatIInv, ChatShaped, StreamFits
  <1>2. stream'[t] = s /\ record'[t] = a BY DEF ChatIInv, ChatShaped
  <1>3. \A u \in Turns \ {t} : stream'[u] = stream[u] /\ record'[u] = record[u] BY DEF ChatIInv, ChatShaped
  <1>4. ChatShaped' BY <1>1 DEF ChatIInv, ChatShaped
  <1>5. ASSUME NEW u \in Turns
        PROVE  StreamFits(u, stream'[u]) /\ AuditFits(stream'[u], record'[u], reply'[u])
    <2>1. CASE u = t BY <2>1, <1>2
    <2>2. CASE u # t
      <3>1. StreamFits(u, stream[u]) /\ AuditFits(stream[u], record[u], reply[u]) BY DEF ChatIInv
      <3>. QED BY <2>2, <3>1, <1>3
    <2>. QED BY <2>1, <2>2
  <1>6. ScopesHold'
    <2>. SUFFICES ASSUME NoneRaced', NEW u \in Turns
                  PROVE  /\ SourcesKept(stream'[u], record'[u])
                         /\ RepliesKept(u)'
                         /\ stream'[u].pc = "scoped" /\ ~gone' => ScopeFits(stream[u], u)'
      BY DEF ScopesHold
    <2>1. NoneRaced
      <3>1. ASSUME NEW w \in Turns PROVE ~stream[w].raced
        <4>1. ~stream'[w].raced BY DEF NoneRaced
        <4>. QED BY <4>1, <1>2, <1>3
      <3>. QED BY <3>1 DEF NoneRaced
    <2>2. ~s.raced BY <1>2 DEF NoneRaced
    <2>3. \A w \in Turns : /\ SourcesKept(stream[w], record[w])
                           /\ RepliesKept(w)
                           /\ stream[w].pc = "scoped" /\ ~gone => ScopeFits(stream[w], w)
      BY <2>1 DEF ChatIInv, ScopesHold
    <2>4. SourcesKept(stream'[u], record'[u])
      BY <2>1, <2>2, <2>3, <1>2, <1>3
    <2>5. RepliesKept(u)'
      <3>1. CASE u = t
        <4>1. AuditFits(s, a, reply[t]) /\ AuditFits(stream[t], record[t], reply[t]) BY DEF ChatIInv
        <4>. QED BY <3>1, <4>1 DEF RepliesKept, AuditFits
      <3>2. CASE u # t
        <4>1. VisibilityOf(u)' = VisibilityOf(u) BY <3>2, <1>3 DEF VisibilityOf, TraceOf
        <4>. QED BY <4>1, <2>3 DEF RepliesKept
      <3>. QED BY <3>1, <3>2
    <2>6. ASSUME stream'[u].pc = "scoped", ~gone' PROVE ScopeFits(stream[u], u)'
      <3>1. ScopeFits(stream'[u], u) BY <2>6, <2>1, <2>3, <1>2, <1>3
      <3>2. stream'[u].knew \subseteq Turns BY <1>4 DEF ChatShaped, StreamState
      <3>. SUFFICES ASSUME NEW w \in stream'[u].knew
                    PROVE stream'[w].pc = "settled" /\ (w # u => Covers(stream'[u].scope, reply'[w].from))
        BY DEF ScopeFits
      <3>3. stream[w].pc = "settled" /\ (w # u => Covers(stream'[u].scope, reply[w].from)) BY <3>1 DEF ScopeFits
      <3>4. w # t /\ w \in Turns BY <3>2, <3>3
      <3>. QED BY <3>3, <3>4, <1>3
    <2>. QED BY <2>4, <2>5, <2>6
  <1>. QED BY <1>4, <1>5, <1>6 DEF ChatIInv

LEMMA StreamFacts ==
    ASSUME ChatIInv, NEW t \in Turns
    PROVE  /\ StreamFits(t, stream[t]) /\ AuditFits(stream[t], record[t], reply[t])
           /\ stream[t] \in StreamState /\ record[t] \in Audit /\ reply[t] \in Reply
           /\ losses \in 0..MaxLosses
  BY DEF ChatIInv, ChatShaped

LEMMA EndFits ==
    ASSUME NEW t \in Turns, NEW s, StreamFits(t, s), NEW q \in {"settled", "lost"}
    PROVE  StreamFits(t, [s EXCEPT !.pc = q])
  <1>. DEFINE e == [s EXCEPT !.pc = q]
  <1>1. s \in StreamState BY DEF StreamFits
  <1>2. e \in StreamState /\ e.pc = q /\ e.iteration = s.iteration /\ e.repairs = s.repairs
        /\ e.failures = s.failures /\ e.asked = s.asked /\ e.ran = s.ran /\ e.cached = s.cached
        /\ e.emitted = s.emitted /\ e.sources = s.sources
    BY <1>1 DEF StreamState, Phases
  <1>3. WithinBudget(e) BY <1>2 DEF StreamFits, WithinBudget, Before, Working
  <1>4. RanOnce(t, e) BY <1>2 DEF StreamFits, RanOnce
  <1>5. InPhase(e) BY <1>2 DEF StreamFits, InPhase, Before
  <1>. QED BY <1>2, <1>3, <1>4, <1>5 DEF StreamFits

LEMMA LostStep ==
    ASSUME ChatIInv, NEW t \in Turns, stream[t].pc \notin {"none", "settled", "lost"},
           stream' = [stream EXCEPT ![t].pc = "lost"], UNCHANGED <<access, record, reply, gone>>,
           losses' \in 0..MaxLosses
    PROVE  ChatIInv'
  <1>. DEFINE e == [stream[t] EXCEPT !.pc = "lost"]
  <1>1. StreamFits(t, e) BY StreamFacts, EndFits
  <1>2. e.pc = "lost" /\ (stream[t].raced => e.raced) BY StreamFacts DEF StreamState
  <1>3. AuditFits(e, record[t], reply[t]) BY <1>2, StreamFacts DEF AuditFits
  <1>4. stream' = [stream EXCEPT ![t] = e] /\ record' = [record EXCEPT ![t] = record[t]]
    BY DEF ChatIInv, ChatShaped
  <1>5. SourcesKept(e, record[t]) BY <1>2 DEF SourcesKept, Told
  <1>. HIDE DEF e
  <1>. QED BY <1>1, <1>2, <1>3, <1>4, <1>5, StreamFacts, TurnMoves

LEMMA Settles ==
    ASSUME ChatIInv, NEW t \in Turns, stream[t].pc \in {"scoped"} \cup Told,
           NEW status \in SettledStatuses, NEW text \in Reply, text.from \subseteq stream[t].sources,
           Settle(t, status, text), UNCHANGED <<access, losses, gone>>
    PROVE  ChatIInv'
  <1>1. CASE gone BY <1>1, LostStep, StreamFacts DEF Settle, Told
  <1>2. CASE ~gone
    <2>. DEFINE e == [stream[t] EXCEPT !.pc = "settled"]
                a == [record[t] EXCEPT !.status = status, !.marker = ScopeKept(t)]
    <2>1. StreamFits(t, e) BY StreamFacts, EndFits
    <2>2. e \in StreamState /\ e.pc = "settled" /\ e.raced = stream[t].raced BY <2>1, StreamFacts DEF StreamState, StreamFits
    <2>3. ScopeKept(t) \in Visibility BY VisibilityTypes DEF ChatIInv
    <2>4. a \in Audit /\ a.status = status /\ a.marker = ScopeKept(t) /\ a.trace = record[t].trace /\ a.open = record[t].open
      BY <2>3, StreamFacts DEF Audit
    <2>5. stream' = [stream EXCEPT ![t] = e] /\ record' = [record EXCEPT ![t] = a] /\ reply' = [reply EXCEPT ![t] = text]
      BY <1>2 DEF Settle, ChatIInv, ChatShaped
    <2>6. status # "none" BY DEF SettledStatuses
    <2>. HIDE DEF e, a
    <2>7. stream'[t] = e /\ record'[t] = a /\ reply'[t] = text BY <2>5 DEF ChatIInv, ChatShaped
    <2>8. \A u \in Turns \ {t} : stream'[u] = stream[u] /\ record'[u] = record[u] /\ reply'[u] = reply[u]
      BY <2>5 DEF ChatIInv, ChatShaped
    <2>9. ChatShaped' BY <2>2, <2>4, <2>5 DEF ChatIInv, ChatShaped
    <2>10. ASSUME NEW u \in Turns
           PROVE  StreamFits(u, stream'[u]) /\ AuditFits(stream'[u], record'[u], reply'[u])
      <3>1. CASE u = t
        <4>1. AuditFits(e, a, text) BY <2>2, <2>4, <2>6 DEF AuditFits
        <4>. QED BY <3>1, <4>1, <2>1, <2>7
      <3>2. CASE u # t BY <3>2, <2>8, StreamFacts
      <3>. QED BY <3>1, <3>2
    <2>11. ScopesHold'
      <3>. SUFFICES ASSUME NoneRaced', NEW u \in Turns
                    PROVE  /\ SourcesKept(stream'[u], record'[u])
                           /\ RepliesKept(u)'
                           /\ stream'[u].pc = "scoped" /\ ~gone' => ScopeFits(stream[u], u)'
        BY DEF ScopesHold
      <3>1. NoneRaced
        <4>1. ASSUME NEW w \in Turns PROVE ~stream[w].raced
          <5>1. ~stream'[w].raced BY DEF NoneRaced
          <5>. QED BY <5>1, <2>7, <2>8, <2>2
        <4>. QED BY <4>1 DEF NoneRaced
      <3>2. \A w \in Turns : /\ SourcesKept(stream[w], record[w])
                             /\ RepliesKept(w)
                             /\ stream[w].pc = "scoped" /\ ~gone => ScopeFits(stream[w], w)
        BY <3>1 DEF ChatIInv, ScopesHold
      <3>3. CASE u = t
        <4>1. SourcesKept(stream'[t], record'[t]) BY <2>7, <2>2 DEF SourcesKept, Told
        <4>2. Covers(ScopeKept(t), text.from)
          <5>1. CASE stream[t].pc = "scoped"
            <6>1. stream[t].sources = {} BY <5>1, StreamFacts DEF StreamFits, InPhase, Before
            <6>. QED BY <6>1 DEF Covers
          <5>2. CASE stream[t].pc \in Told
            <6>1. Covers(Combined({stream[t].scope} \cup record[t].trace), stream[t].sources)
              BY <5>2, <3>2 DEF SourcesKept
            <6>2. {stream[t].scope} \cup record[t].trace \subseteq {stream[t].scope} \cup TraceOf(t) BY DEF TraceOf
            <6>3. Covers(ScopeKept(t), stream[t].sources) BY <6>1, <6>2, MoreCovers DEF ScopeKept
            <6>. QED BY <6>3 DEF Covers
          <5>. QED BY <5>1, <5>2
        <4>3. Covers(VisibilityOf(t)', text.from)
          <5>1. CASE a.marker # NoMarker
            <6>1. VisibilityOf(t)' = Combined({a.marker} \cup TraceOf(t)') BY <5>1, <2>7 DEF VisibilityOf
            <6>. QED BY <6>1, <4>2, <2>4, CombinedCovers
          <5>2. CASE a.marker = NoMarker
            <6>1. ScopeKept(t) = NoMarker BY <5>2, <2>4
            <6>2. ~ScopeKept(t).known BY <6>1 DEF NoMarker
            <6>3. ScopeKept(t) = Unknown BY <6>2 DEF ScopeKept, Combined, Known
            <6>4. ReadableProjects = {} BY <6>1, <6>3 DEF NoMarker, Unknown
            <6>5. text.from = {} BY <6>4 DEF Reply
            <6>. QED BY <6>5 DEF Covers
          <5>. QED BY <5>1, <5>2
        <4>4. RepliesKept(t)' BY <4>3, <2>7 DEF RepliesKept
        <4>5. stream'[t].pc # "scoped" BY <2>7, <2>2
        <4>. QED BY <3>3, <4>1, <4>4, <4>5
      <3>4. CASE u # t
        <4>1. VisibilityOf(u)' = VisibilityOf(u) BY <3>4, <2>8 DEF VisibilityOf, TraceOf
        <4>2. RepliesKept(u)' BY <4>1, <3>2, <3>4, <2>8 DEF RepliesKept
        <4>3. SourcesKept(stream'[u], record'[u]) BY <3>2, <3>4, <2>8
        <4>4. ASSUME stream'[u].pc = "scoped", ~gone' PROVE ScopeFits(stream[u], u)'
          <5>1. ScopeFits(stream[u], u) /\ stream'[u] = stream[u] BY <4>4, <3>2, <3>4, <2>8
          <5>2. stream[u].knew \subseteq Turns BY StreamFacts DEF StreamState
          <5>. SUFFICES ASSUME NEW w \in stream'[u].knew
                        PROVE stream'[w].pc = "settled" /\ (w # u => Covers(stream'[u].scope, reply'[w].from))
            BY DEF ScopeFits
          <5>3. stream[w].pc = "settled" /\ (w # u => Covers(stream[u].scope, reply[w].from)) BY <5>1 DEF ScopeFits
          <5>4. w # t /\ w \in Turns BY <5>1, <5>2, <5>3 DEF Told
          <5>. QED BY <5>1, <5>3, <5>4, <2>8
        <4>. QED BY <4>2, <4>3, <4>4
      <3>. QED BY <3>3, <3>4
    <2>. QED BY <2>9, <2>10, <2>11 DEF ChatIInv
  <1>. QED BY <1>1, <1>2

-----------------------------------------------------------------------------
(* One step at a time.                                                     *)

LEMMA InitChatIInv == ChatInit => ChatIInv
  <1>. SUFFICES ASSUME ChatInit PROVE ChatIInv OBVIOUS
  <1>. USE DEF ChatInit
  <1>1. Unknown \in Visibility /\ NoReply \in Reply
    BY MarkersType DEF NoReply, Reply
  <1>2. NoAudit \in Audit BY MarkersType DEF NoAudit, Audit
  <1>3. NotSent \in StreamState
    <2>1. [c \in Calls |-> 0] \in [Calls -> Nat] OBVIOUS
    <2>2. <<>> \in Seq(Calls) OBVIOUS
    <2>. QED BY <1>1, <2>1, <2>2 DEF NotSent, StreamState, Phases
  <1>4. WithinBudget(NotSent) BY Budgets DEF NotSent, WithinBudget, Before, Working
  <1>5. \A t \in Turns : RanOnce(t, NotSent) BY DEF NotSent, RanOnce
  <1>6. InPhase(NotSent) BY DEF NotSent, NoReply, InPhase
  <1>7. AuditFits(NotSent, NoAudit, NoReply) BY DEF NotSent, NoReply, NoAudit, AuditFits, SettledStatuses
  <1>8. ChatShaped
    <2>1. losses \in 0..MaxLosses BY Budgets
    <2>2. /\ record \in [Turns -> Audit] /\ reply \in [Turns -> Reply] /\ stream \in [Turns -> StreamState]
          /\ access \subseteq ReadableProjects /\ gone \in BOOLEAN
      BY <1>1, <1>2, <1>3
    <2>. QED BY <2>1, <2>2 DEF ChatShaped
  <1>9. ScopesHold
    <2>. SUFFICES ASSUME NEW t \in Turns
                  PROVE  /\ SourcesKept(NotSent, NoAudit)
                         /\ RepliesKept(t)
                         /\ NotSent.pc # "scoped"
      BY DEF ScopesHold
    <2>. QED BY DEF SourcesKept, RepliesKept, NotSent, NoReply, Told
  <1>. QED BY <1>3, <1>4, <1>5, <1>6, <1>7, <1>8, <1>9 DEF ChatIInv, StreamFits

LEMMA SendStep == ASSUME ChatIInv, NEW t \in Turns, Send(t) PROVE ChatIInv'
  <1>. DEFINE s == [stream[t] EXCEPT !.pc = "sent"]
              a == [record[t] EXCEPT !.status = "running"]
  <1>00. stream[t] \in StreamState BY StreamFacts
  <1>0. stream[t].pc = "none" BY DEF Send
  <1>1. /\ s \in StreamState /\ s.pc = "sent" /\ s.iteration = stream[t].iteration /\ s.repairs = stream[t].repairs
        /\ s.failures = stream[t].failures /\ s.asked = stream[t].asked /\ s.ran = stream[t].ran
        /\ s.cached = stream[t].cached /\ s.raced = stream[t].raced
        /\ s.emitted = stream[t].emitted /\ s.sources = stream[t].sources
    BY <1>00 DEF StreamState, Phases
  <1>2. a \in Audit /\ a.status = "running" BY StreamFacts DEF Audit
  <1>3. WithinBudget(s) BY <1>0, <1>1, StreamFacts DEF StreamFits, WithinBudget, Before, Working
  <1>4. RanOnce(t, s) BY <1>1, StreamFacts DEF StreamFits, RanOnce
  <1>5. InPhase(s) BY <1>0, <1>1, StreamFacts DEF StreamFits, InPhase, Before
  <1>6. AuditFits(s, a, reply[t]) BY <1>0, <1>1, <1>2, StreamFacts DEF AuditFits, SettledStatuses
  <1>7. SourcesKept(s, a) BY <1>1 DEF SourcesKept, Told
  <1>8. stream' = [stream EXCEPT ![t] = s] /\ record' = [record EXCEPT ![t] = a] BY DEF Send
  <1>9. UNCHANGED <<access, reply, gone, losses>> BY DEF Send
  <1>. HIDE DEF s, a
  <1>. QED BY <1>0, <1>1, <1>2, <1>3, <1>4, <1>5, <1>6, <1>7, <1>8, <1>9, StreamFacts, TurnMoves DEF StreamFits

LEMMA ReadScopeStep == ASSUME ChatIInv, NEW t \in Turns, ReadScope(t) PROVE ChatIInv'
  <1>. DEFINE s == [stream[t] EXCEPT !.pc = "scoped", !.scope = HistoricalVisibility(t), !.knew = Answered]
  <1>00. stream[t] \in StreamState BY StreamFacts
  <1>0. stream[t].pc = "sent" BY DEF ReadScope
  <1>1. /\ s \in StreamState /\ s.pc = "scoped" /\ s.scope = HistoricalVisibility(t) /\ s.knew = Answered
        /\ s.iteration = stream[t].iteration /\ s.repairs = stream[t].repairs
        /\ s.failures = stream[t].failures /\ s.asked = stream[t].asked /\ s.ran = stream[t].ran
        /\ s.cached = stream[t].cached /\ s.raced = stream[t].raced
        /\ s.emitted = stream[t].emitted /\ s.sources = stream[t].sources
    <2>1. HistoricalVisibility(t) \in Visibility BY HistoryTypes DEF ChatIInv
    <2>2. Answered \subseteq Turns BY DEF Answered
    <2>. QED BY <2>1, <2>2, <1>00 DEF StreamState, Phases
  <1>3. WithinBudget(s) BY <1>0, <1>1, StreamFacts DEF StreamFits, WithinBudget, Before, Working
  <1>4. RanOnce(t, s) BY <1>1, StreamFacts DEF StreamFits, RanOnce
  <1>5. InPhase(s) BY <1>0, <1>1, StreamFacts DEF StreamFits, InPhase, Before
  <1>6. AuditFits(s, record[t], reply[t]) BY <1>0, <1>1, StreamFacts DEF AuditFits, SettledStatuses
  <1>7. SourcesKept(s, record[t]) BY <1>1 DEF SourcesKept, Told
  <1>8. stream' = [stream EXCEPT ![t] = s] /\ record' = [record EXCEPT ![t] = record[t]]
    BY DEF ReadScope, ChatIInv, ChatShaped
  <1>9. UNCHANGED <<access, reply, gone, losses>> BY DEF ReadScope
  <1>10. ASSUME NoneRaced, ~gone PROVE ScopeFits(s, t)
    <2>. SUFFICES ASSUME NEW u \in Answered
                  PROVE  stream[u].pc = "settled" /\ (u # t => Covers(s.scope, reply[u].from))
      BY <1>1 DEF ScopeFits
    <2>1. u \in Turns /\ reply[u].text BY DEF Answered
    <2>2. stream[u].pc = "settled" /\ record[u].status # "none" BY <2>1, StreamFacts DEF AuditFits
    <2>3. ASSUME u # t PROVE Covers(s.scope, reply[u].from)
      <3>. DEFINE V == {VisibilityOf(w) : w \in {w \in Turns \ {t} : record[w].status # "none"}}
      <3>1. VisibilityOf(u) \in V BY <2>1, <2>2, <2>3
      <3>2. Covers(VisibilityOf(u), reply[u].from) BY <2>1, <1>10 DEF ChatIInv, ScopesHold, RepliesKept
      <3>3. Covers(Combined(V), reply[u].from) BY <3>1, <3>2, CombinedCovers
      <3>4. s.scope = Combined(V) BY <1>1, <1>10 DEF HistoricalVisibility
      <3>. QED BY <3>3, <3>4
    <2>. QED BY <2>2, <2>3
  <1>. HIDE DEF s
  <1>. QED BY <1>0, <1>1, <1>3, <1>4, <1>5, <1>6, <1>7, <1>8, <1>9, <1>10, StreamFacts, TurnMoves DEF StreamFits

LEMMA ReadHistoryStep == ASSUME ChatIInv, NEW t \in Turns, ReadHistory(t) PROVE ChatIInv'
  <1>. DEFINE told == UNION {reply[u].from : u \in Quoted(t)}
              s == [stream[t] EXCEPT !.pc = "ask", !.raced = Answered # stream[t].knew, !.sources = told]
  <1>00. stream[t] \in StreamState BY StreamFacts
  <1>0. stream[t].pc = "scoped" BY DEF ReadHistory
  <1>1. told \subseteq ReadableProjects
    <2>1. \A u \in Turns : reply[u].from \subseteq ReadableProjects BY StreamFacts DEF Reply
    <2>2. Quoted(t) \subseteq Turns BY DEF Quoted
    <2>. QED BY <2>1, <2>2
  <1>2. /\ s \in StreamState /\ s.pc = "ask" /\ s.raced = (Answered # stream[t].knew) /\ s.sources = told
        /\ s.scope = stream[t].scope
        /\ s.iteration = stream[t].iteration /\ s.repairs = stream[t].repairs
        /\ s.failures = stream[t].failures /\ s.asked = stream[t].asked /\ s.ran = stream[t].ran
        /\ s.cached = stream[t].cached /\ s.emitted = stream[t].emitted
    BY <1>00, <1>1 DEF StreamState, Phases
  <1>3. WithinBudget(s)
    BY <1>0, <1>2, StreamFacts, Budgets DEF StreamFits, WithinBudget, Before, Working
  <1>4. RanOnce(t, s) BY <1>2, StreamFacts DEF StreamFits, RanOnce
  <1>5. InPhase(s) BY <1>0, <1>2, StreamFacts DEF StreamFits, InPhase, Before
  <1>6. AuditFits(s, record[t], reply[t]) BY <1>0, <1>2, StreamFacts DEF AuditFits, SettledStatuses
  <1>7. ASSUME NoneRaced, ~s.raced PROVE SourcesKept(s, record[t])
    <2>1. CASE gone
      <3>1. told = {} BY <2>1 DEF Quoted
      <3>. QED BY <3>1, <1>2 DEF SourcesKept, Covers
    <2>2. CASE ~gone
      <3>1. Answered = stream[t].knew BY <1>2, <1>7
      <3>2. ScopeFits(stream[t], t) BY <1>0, <1>7, <2>2 DEF ChatIInv, ScopesHold
      <3>3. \A u \in Quoted(t) : u \in Answered /\ u # t BY <2>2 DEF Quoted, Answered, Shown
      <3>4. \A u \in Quoted(t) : Covers(s.scope, reply[u].from) BY <3>1, <3>2, <3>3, <1>2 DEF ScopeFits
      <3>5. Covers(s.scope, told) BY <3>4 DEF Covers
      <3>6. Covers(Combined({s.scope} \cup record[t].trace), told) BY <3>5, CombinedCovers
      <3>. QED BY <3>6, <1>2 DEF SourcesKept
    <2>. QED BY <2>1, <2>2
  <1>8. stream' = [stream EXCEPT ![t] = s] /\ record' = [record EXCEPT ![t] = record[t]]
    BY DEF ReadHistory, ChatIInv, ChatShaped
  <1>9. UNCHANGED <<access, reply, gone, losses>> BY DEF ReadHistory
  <1>10. ~stream[t].raced BY <1>0, StreamFacts DEF StreamFits, InPhase, Before
  <1>. HIDE DEF s, told
  <1>. QED BY <1>0, <1>2, <1>3, <1>4, <1>5, <1>6, <1>7, <1>8, <1>9, <1>10, StreamFacts, TurnMoves DEF StreamFits

LEMMA RepliesTypes ==
    ASSUME ChatIInv, NEW t \in Turns
    PROVE  /\ Canned \in Reply /\ Canned.from = {}
           /\ Generated(t) \in Reply /\ Generated(t).from = stream[t].sources
           /\ stream[t].emitted \in Reply /\ stream[t].emitted.from \subseteq stream[t].sources
  <1>1. stream[t] \in StreamState BY StreamFacts
  <1>2. stream[t].emitted.from \subseteq stream[t].sources BY StreamFacts DEF StreamFits, InPhase
  <1>3. stream[t].sources \subseteq ReadableProjects /\ stream[t].emitted \in Reply BY <1>1 DEF StreamState
  <1>. QED BY <1>2, <1>3 DEF Canned, Generated, Reply

\* However a turn ends, one outcome and one reply are written, of what it has been told.
LEMMA EndsSettle ==
    ASSUME ChatIInv, NEW t \in Turns,
           AnswerText(t) \/ AnswerFails(t) \/ QuotaToolMissing(t) \/ AwaitConfirmation(t)
             \/ Summarize(t) \/ Disconnect(t)
    PROVE  /\ stream[t].pc \in {"scoped"} \cup Told /\ UNCHANGED <<access, losses, gone>>
           /\ \E status \in SettledStatuses, text \in Reply :
                /\ text.from \subseteq stream[t].sources /\ (status # "cancelled" => text.text)
                /\ Settle(t, status, text)
  <1>0. {"succeeded", "degraded", "awaiting_confirmation", "cancelled", "failed"} = SettledStatuses
    BY DEF SettledStatuses
  <1>00. Canned.text /\ Generated(t).text BY DEF Canned, Generated
  <1>1. CASE AnswerText(t) BY <1>0, <1>00, <1>1, RepliesTypes DEF AnswerText, Told
  <1>2. CASE AnswerFails(t)
    <2>1. PICK e \in Emissions(t) : Settle(t, "failed", IF e.text THEN e ELSE Canned) BY <1>2 DEF AnswerFails
    <2>2. e \in Reply /\ e.from \subseteq stream[t].sources BY RepliesTypes DEF Emissions
    <2>. DEFINE text == IF e.text THEN e ELSE Canned
    <2>3. text \in Reply /\ text.from \subseteq stream[t].sources /\ text.text BY <1>00, <2>2, RepliesTypes
    <2>4. Settle(t, "failed", text) BY <2>1
    <2>. HIDE DEF text
    <2>. QED BY <1>0, <1>2, <2>3, <2>4 DEF AnswerFails, Told
  <1>3. CASE QuotaToolMissing(t)
    <2>. DEFINE text == IF stream[t].emitted.text THEN stream[t].emitted ELSE Canned
    <2>1. text \in Reply /\ text.from \subseteq stream[t].sources /\ text.text BY <1>00, RepliesTypes
    <2>2. Settle(t, "failed", text) BY <1>3 DEF QuotaToolMissing
    <2>. HIDE DEF text
    <2>. QED BY <1>0, <1>3, <2>1, <2>2 DEF QuotaToolMissing, Told
  <1>4. CASE AwaitConfirmation(t)
    <2>1. Canned \in Reply /\ Canned.from \subseteq stream[t].sources BY RepliesTypes
    <2>. QED BY <1>0, <1>00, <1>4, <2>1 DEF AwaitConfirmation, Told
  <1>5. CASE Summarize(t)
    <2>1. PICK text \in {Generated(t), Canned} : Settle(t, "degraded", text) BY <1>5 DEF Summarize
    <2>2. text \in Reply /\ text.from \subseteq stream[t].sources /\ text.text BY <1>00, RepliesTypes
    <2>. QED BY <1>0, <1>5, <2>1, <2>2 DEF Summarize, Told
  <1>6. CASE Disconnect(t)
    <2>1. PICK e \in Emissions(t) : Settle(t, "cancelled", e) BY <1>6 DEF Disconnect
    <2>2. e \in Reply /\ e.from \subseteq stream[t].sources BY RepliesTypes DEF Emissions
    <2>. QED BY <1>0, <1>6, <2>1, <2>2 DEF Disconnect, IsStreaming, Told
  <1>. QED BY <1>1, <1>2, <1>3, <1>4, <1>5, <1>6

LEMMA EndStep ==
    ASSUME ChatIInv, NEW t \in Turns,
           AnswerText(t) \/ AnswerFails(t) \/ QuotaToolMissing(t) \/ AwaitConfirmation(t)
             \/ Summarize(t) \/ Disconnect(t)
    PROVE  ChatIInv'
  BY EndsSettle, Settles

\* What is told and entered: the sources that an entry covers.
Entered(E, X) == X = {} \/ \E e \in E : Covers(e, X)

LEMMA KeepsMore ==
    ASSUME NEW v, NEW V, NEW E, NEW S, NEW X, Covers(Combined({v} \cup V), S), Entered(E, X)
    PROVE  Covers(Combined({v} \cup (V \cup E)), S \cup X)
  <1>. DEFINE W == {v} \cup (V \cup E)
  <1>1. Covers(Combined(W), S) BY MoreCovers
  <1>2. Covers(Combined(W), X)
    <2>1. CASE X = {} BY <2>1 DEF Covers
    <2>2. ASSUME NEW e \in E, Covers(e, X) PROVE Covers(Combined(W), X) BY <2>2, CombinedCovers
    <2>. QED BY <2>1, <2>2 DEF Entered
  <1>. QED BY <1>1, <1>2 DEF Covers

\* The round goes on: the sources and the budget stay within what the turn has.
LEMMA RoundMoves ==
    ASSUME ChatIInv, NEW t \in Turns, stream[t].pc \in Told, NEW s \in StreamState, NEW a \in Audit,
           s.pc \in Told, WithinBudget(s), RanOnce(t, s), s.pc = "execute" => s.todo # <<>>,
           s.emitted.from \subseteq s.sources, s.scope = stream[t].scope, s.raced = stream[t].raced,
           NEW E, NEW X, a.status = record[t].status, a.trace = record[t].trace \cup E, Entered(E, X),
           s.sources = stream[t].sources \cup X,
           stream' = [stream EXCEPT ![t] = s], record' = [record EXCEPT ![t] = a],
           UNCHANGED <<access, reply, losses, gone>>
    PROVE  ChatIInv'
  <1>1. StreamFits(t, s) BY DEF StreamFits, InPhase, Told, Before
  <1>2. AuditFits(s, a, reply[t]) BY StreamFacts DEF AuditFits, Told
  <1>3. ASSUME NoneRaced PROVE SourcesKept(s, a)
    <2>1. Covers(Combined({stream[t].scope} \cup record[t].trace), stream[t].sources)
      BY <1>3 DEF ChatIInv, ScopesHold, SourcesKept
    <2>2. Covers(Combined({stream[t].scope} \cup (record[t].trace \cup E)), stream[t].sources \cup X)
      BY <2>1, KeepsMore
    <2>3. Covers(Combined({s.scope} \cup a.trace), s.sources) BY <2>2
    <2>. QED BY <2>3 DEF SourcesKept
  <1>4. stream[t].pc # "settled" /\ s.pc # "scoped" BY DEF Told
  <1>5. losses' \in 0..MaxLosses BY StreamFacts
  <1>. QED BY <1>1, <1>2, <1>3, <1>4, <1>5, TurnMoves

LEMMA SameAudit ==
    ASSUME ChatIInv, NEW t \in Turns
    PROVE  /\ record = [record EXCEPT ![t] = record[t]] /\ record[t].trace = record[t].trace \cup {}
           /\ Entered({}, {}) /\ stream[t].sources = stream[t].sources \cup {}
  BY DEF ChatIInv, ChatShaped, Entered

\* What a turn in a round has asked for, and what the round may bring it to.
LEMMA RoundBudget ==
    ASSUME ChatIInv, NEW t \in Turns, stream[t].pc \in {"ask"} \cup Working
    PROVE  /\ stream[t].iteration \in Nat \ {0} /\ stream[t].repairs \in Nat /\ stream[t].asked \in Nat
           /\ stream[t].failures \in Nat
           /\ stream[t].iteration <= MaxIterations /\ stream[t].repairs <= MaxArgumentRepairs
           /\ stream[t].failures <= MaxFailureRepairs
           /\ stream[t].asked <= Budget(stream[t].iteration - 1) + stream[t].repairs
                                   + (IF stream[t].pc = "ask" THEN 0 ELSE 1)
           /\ Budget(stream[t].iteration) = Budget(stream[t].iteration - 1) + MaxArgumentRepairs + 1
           /\ Budget(stream[t].iteration) <= Budget(MaxIterations)
           /\ Budget(stream[t].iteration - 1) \in Nat /\ Budget(MaxIterations) \in Nat
  <1>. DEFINE i == stream[t].iteration
  <1>1. stream[t] \in StreamState BY StreamFacts
  <1>2. i \in Nat \ {0} /\ stream[t].repairs \in Nat /\ stream[t].asked \in Nat /\ stream[t].failures \in Nat
    BY <1>1 DEF StreamState
  <1>3. WithinBudget(stream[t]) BY StreamFacts DEF StreamFits
  <1>4. i <= MaxIterations /\ stream[t].repairs <= MaxArgumentRepairs /\ stream[t].failures <= MaxFailureRepairs
    BY <1>3 DEF WithinBudget
  <1>5. Budget(i - 1) \in Nat
    <2>1. i - 1 \in Nat BY <1>2
    <2>. QED BY <2>1, Budgets
  <1>6. stream[t].asked <= Budget(i - 1) + stream[t].repairs + (IF stream[t].pc = "ask" THEN 0 ELSE 1)
    <2>1. CASE stream[t].pc = "ask"
      <3>1. stream[t].asked <= Budget(i - 1) + stream[t].repairs BY <2>1, <1>3 DEF WithinBudget
      <3>. QED BY <2>1, <3>1, <1>2, <1>5
    <2>2. CASE stream[t].pc # "ask"
      <3>1. stream[t].asked <= Budget(i - 1) + stream[t].repairs + 1 BY <2>2, <1>3 DEF WithinBudget
      <3>. QED BY <2>2, <3>1
    <2>. QED BY <2>1, <2>2
  <1>7. Budget(i) = Budget(i - 1) + MaxArgumentRepairs + 1 BY <1>2, Budgets
  <1>8. Budget(i) <= Budget(MaxIterations) BY <1>2, <1>4, Budgets
  <1>9. Budget(MaxIterations) \in Nat BY Budgets
  <1>. QED BY <1>2, <1>4, <1>5, <1>6, <1>7, <1>8, <1>9

LEMMA AnswerInvalidStep == ASSUME ChatIInv, NEW t \in Turns, AnswerInvalid(t) PROVE ChatIInv'
  <1>1. PICK e \in Emissions(t) :
          stream' = [stream EXCEPT ![t].emitted = e, ![t].repairs = @ + 1, ![t].asked = @ + 1,
                         ![t].pc = IF RepairsOver(stream[t].repairs + 1) THEN "summary" ELSE "ask"]
    BY DEF AnswerInvalid
  <1>. DEFINE q == IF RepairsOver(stream[t].repairs + 1) THEN "summary" ELSE "ask"
              s == [stream[t] EXCEPT !.emitted = e, !.repairs = @ + 1, !.asked = @ + 1, !.pc = q]
              a == [record[t] EXCEPT !.trace = @ \cup {Known({})}]
  <1>2. stream[t] \in StreamState /\ stream[t].pc = "ask" BY StreamFacts DEF AnswerInvalid
  <1>3. e \in Reply /\ e.from \subseteq stream[t].sources BY RepliesTypes DEF Emissions
  <1>4. q \in {"summary", "ask"} /\ (q = "ask" => stream[t].repairs + 1 <= MaxArgumentRepairs)
    <2>1. stream[t].repairs \in Nat BY <1>2 DEF StreamState
    <2>. QED BY <2>1, Budgets DEF RepairsOver
  <1>. HIDE DEF q
  <1>5. /\ s.pc = q /\ s.scope = stream[t].scope /\ s.raced = stream[t].raced
        /\ s.sources = stream[t].sources /\ s.emitted = e /\ s.iteration = stream[t].iteration
        /\ s.repairs = stream[t].repairs + 1 /\ s.failures = stream[t].failures
        /\ s.asked = stream[t].asked + 1 /\ s.ran = stream[t].ran /\ s.cached = stream[t].cached
    BY <1>2 DEF StreamState
  <1>50. s \in StreamState
    <2>1. stream[t].repairs + 1 \in Nat /\ stream[t].asked + 1 \in Nat BY <1>2 DEF StreamState
    <2>2. q \in Phases BY <1>4 DEF Phases
    <2>. QED BY <2>1, <2>2, <1>2, <1>3 DEF StreamState
  <1>6. a \in Audit /\ a.status = record[t].status /\ a.trace = record[t].trace \cup {Known({})}
    <2>1. record[t] \in Audit /\ Known({}) \in Visibility BY StreamFacts, MarkersType
    <2>. QED BY <2>1 DEF Audit
  <1>7. WithinBudget(s)
    <2>1. stream[t].pc = "ask" BY <1>2
    <2>. QED BY <2>1, <1>4, <1>5, RoundBudget, Budgets DEF WithinBudget, Before, Working
  <1>8. RanOnce(t, s) BY <1>5, StreamFacts DEF StreamFits, RanOnce
  <1>9. Entered({Known({})}, {}) /\ s.sources = stream[t].sources \cup {} BY <1>5 DEF Entered
  <1>10. stream' = [stream EXCEPT ![t] = s] /\ record' = [record EXCEPT ![t] = a] /\ UNCHANGED <<access, reply, losses, gone>>
    BY <1>1 DEF AnswerInvalid, q
  <1>. HIDE DEF s, a
  <1>. QED BY <1>2, <1>3, <1>4, <1>5, <1>50, <1>6, <1>7, <1>8, <1>9, <1>10, RoundMoves DEF Told

\* Within a round the budget only notes that the model has been asked.
LEMMA StillInRound ==
    ASSUME ChatIInv, NEW t \in Turns, stream[t].pc \in {"ask"} \cup Working,
           NEW s, s.pc \in Working, s.iteration = stream[t].iteration,
           s.repairs = stream[t].repairs, s.failures = stream[t].failures,
           s.asked = stream[t].asked + (IF stream[t].pc = "ask" THEN 1 ELSE 0)
    PROVE  WithinBudget(s)
  <1>1. MaxIterations \in Nat /\ MaxArgumentRepairs \in Nat /\ MaxFailureRepairs \in Nat BY Budgets
  <1>2. s.asked <= Budget(s.iteration - 1) + s.repairs + 1 /\ s.asked <= Budget(MaxIterations)
    BY <1>1, RoundBudget
  <1>3. s.iteration <= MaxIterations /\ s.repairs <= MaxArgumentRepairs /\ s.failures <= MaxFailureRepairs
    BY RoundBudget
  <1>4. s.iteration <= MaxIterations + 1 /\ s.repairs <= MaxArgumentRepairs + 1 /\ s.failures <= MaxFailureRepairs + 1
    BY <1>1, <1>3, RoundBudget
  <1>. QED BY <1>2, <1>3, <1>4 DEF WithinBudget, Before, Working

LEMMA AnswerCallsStep == ASSUME ChatIInv, NEW t \in Turns, AnswerCalls(t) PROVE ChatIInv'
  <1>1. PICK n \in 1..MaxBatch : \E batch \in [1..n -> Calls], e \in Emissions(t) :
         stream' = [stream EXCEPT ![t].pc = "call", ![t].todo = batch, ![t].emitted = e,
                              ![t].asked = @ + 1, ![t].failed = FALSE, ![t].hard = FALSE,
                              ![t].reused = FALSE]
    BY DEF AnswerCalls
  <1>2. PICK batch \in [1..n -> Calls], e \in Emissions(t) :
         stream' = [stream EXCEPT ![t].pc = "call", ![t].todo = batch, ![t].emitted = e,
                              ![t].asked = @ + 1, ![t].failed = FALSE, ![t].hard = FALSE,
                              ![t].reused = FALSE]
    BY <1>1
  <1>. DEFINE s == [stream[t] EXCEPT !.pc = "call", !.todo = batch, !.emitted = e, !.asked = @ + 1,
                                     !.failed = FALSE, !.hard = FALSE, !.reused = FALSE]
  <1>3. stream[t] \in StreamState /\ stream[t].pc = "ask" BY StreamFacts DEF AnswerCalls
  <1>4. e \in Reply /\ e.from \subseteq stream[t].sources BY RepliesTypes DEF Emissions
  <1>5. batch \in Seq(Calls)
    <2>1. n \in Nat BY <1>1, ChatAssumption
    <2>. QED BY <2>1
  <1>6. /\ s.pc = "call" /\ s.scope = stream[t].scope /\ s.raced = stream[t].raced
        /\ s.sources = stream[t].sources /\ s.emitted = e /\ s.iteration = stream[t].iteration
        /\ s.repairs = stream[t].repairs /\ s.failures = stream[t].failures
        /\ s.asked = stream[t].asked + 1 /\ s.ran = stream[t].ran /\ s.cached = stream[t].cached
    BY <1>3 DEF StreamState
  <1>60. s \in StreamState
    <2>1. stream[t].asked + 1 \in Nat BY <1>3 DEF StreamState
    <2>2. "call" \in Phases BY DEF Phases
    <2>. QED BY <2>1, <2>2, <1>3, <1>4, <1>5 DEF StreamState
  <1>9. stream' = [stream EXCEPT ![t] = s] BY <1>2
  <1>. HIDE DEF s
  <1>7. WithinBudget(s)
    <2>1. stream[t].pc = "ask" /\ s.pc \in Working BY <1>3, <1>6 DEF Working
    <2>. QED BY <2>1, <1>6, StillInRound
  <1>8. RanOnce(t, s) BY <1>6, StreamFacts DEF StreamFits, RanOnce
  <1>10. UNCHANGED <<access, record, reply, losses, gone>> BY DEF AnswerCalls
  <1>11. stream[t].pc \in Told /\ s.pc \in Told /\ s.pc # "execute" BY <1>3, <1>6 DEF Told
  <1>. QED BY <1>4, <1>6, <1>60, <1>7, <1>8, <1>9, <1>10, <1>11, StreamFacts, SameAudit, RoundMoves

LEMMA StartCallStep == ASSUME ChatIInv, NEW t \in Turns, StartCall(t) PROVE ChatIInv'
  <1>. DEFINE s == [stream[t] EXCEPT !.pc = "execute"]
              a == [record[t] EXCEPT !.open = TRUE]
  <1>1. stream[t] \in StreamState /\ stream[t].pc = "call" /\ stream[t].todo # <<>> BY StreamFacts DEF StartCall
  <1>2. /\ s \in StreamState /\ s.pc = "execute" /\ s.scope = stream[t].scope /\ s.raced = stream[t].raced
        /\ s.sources = stream[t].sources /\ s.emitted = stream[t].emitted /\ s.iteration = stream[t].iteration
        /\ s.repairs = stream[t].repairs /\ s.failures = stream[t].failures /\ s.todo = stream[t].todo
        /\ s.asked = stream[t].asked /\ s.ran = stream[t].ran /\ s.cached = stream[t].cached
    BY <1>1 DEF StreamState, Phases
  <1>3. a \in Audit /\ a.status = record[t].status /\ a.trace = record[t].trace \cup {} BY StreamFacts DEF Audit
  <1>4. stream' = [stream EXCEPT ![t] = s] /\ record' = [record EXCEPT ![t] = a] /\ UNCHANGED <<access, reply, losses, gone>>
    BY DEF StartCall
  <1>. HIDE DEF s, a
  <1>5. stream[t].pc \in Working /\ s.pc \in Working /\ stream[t].pc \in Told /\ s.pc \in Told BY <1>1, <1>2 DEF Working, Told
  <1>6. s.asked = stream[t].asked + 0
    <2>1. stream[t].asked \in Nat BY <1>1 DEF StreamState
    <2>. QED BY <2>1, <1>2
  <1>7. WithinBudget(s) BY <1>1, <1>2, <1>5, <1>6, StillInRound
  <1>8. RanOnce(t, s) BY <1>2, StreamFacts DEF StreamFits, RanOnce
  <1>9. s.emitted.from \subseteq s.sources BY <1>2, StreamFacts DEF StreamFits, InPhase
  <1>. QED BY <1>1, <1>2, <1>3, <1>4, <1>5, <1>7, <1>8, <1>9, SameAudit, RoundMoves

\* The end of a call, however it went.
LEMMA CompleteStep ==
    ASSUME ChatIInv, NEW t \in Turns, stream[t].pc = "execute", NEW c \in Calls, NEW s \in StreamState,
           s.pc \in {"call", "confirm"}, s.scope = stream[t].scope, s.raced = stream[t].raced,
           s.emitted = stream[t].emitted, s.iteration = stream[t].iteration, s.repairs = stream[t].repairs,
           s.failures = stream[t].failures, s.asked = stream[t].asked, RanOnce(t, s),
           NEW X, Entered({EntryOf(c)}, X), s.sources = stream[t].sources \cup X,
           Complete(t, c, s), UNCHANGED <<access, reply, losses, gone>>
    PROVE  ChatIInv'
  <1>. DEFINE a == [record[t] EXCEPT !.open = FALSE, !.trace = @ \cup {EntryOf(c)}]
  <1>1. EntryOf(c) \in Visibility
    <2>1. ScopeOf[c] \subseteq ReadableProjects BY ChatAssumption
    <2>. QED BY <2>1, MarkersType DEF EntryOf
  <1>2. a \in Audit /\ a.status = record[t].status /\ a.trace = record[t].trace \cup {EntryOf(c)}
    BY <1>1, StreamFacts DEF Audit
  <1>3. stream' = [stream EXCEPT ![t] = s] /\ record' = [record EXCEPT ![t] = a] BY DEF Complete
  <1>. HIDE DEF a
  <1>4. stream[t].pc \in Working /\ s.pc \in Working /\ stream[t].pc \in Told /\ s.pc \in Told BY DEF Working, Told
  <1>5. s.asked = stream[t].asked + 0
    <2>1. stream[t].asked \in Nat BY StreamFacts DEF StreamState
    <2>. QED BY <2>1
  <1>6. WithinBudget(s) BY <1>4, <1>5, StillInRound
  <1>7. s.emitted.from \subseteq s.sources BY StreamFacts DEF StreamFits, InPhase
  <1>. QED BY <1>2, <1>3, <1>4, <1>6, <1>7, RoundMoves

\* The call that is executed, and the stream after it.
LEMMA AfterTypes ==
    ASSUME ChatIInv, NEW t \in Turns, stream[t].pc = "execute"
    PROVE  /\ Head(stream[t].todo) \in Calls
           /\ After(t) \in StreamState /\ After(t).pc = "call" /\ After(t).scope = stream[t].scope
           /\ After(t).raced = stream[t].raced /\ After(t).sources = stream[t].sources
           /\ After(t).emitted = stream[t].emitted /\ After(t).iteration = stream[t].iteration
           /\ After(t).repairs = stream[t].repairs /\ After(t).failures = stream[t].failures
           /\ After(t).asked = stream[t].asked /\ After(t).ran = stream[t].ran
           /\ After(t).cached = stream[t].cached /\ After(t).blocked = stream[t].blocked
           /\ stream[t].ran \in [Calls -> Nat] /\ stream[t].cached \subseteq Calls
           /\ t \notin AgentTurns => \A c \in Calls : stream[t].ran[c] <= 1 /\ (c \notin stream[t].cached => stream[t].ran[c] = 0)
  <1>1. stream[t] \in StreamState /\ stream[t].todo # <<>> BY StreamFacts DEF StreamFits, InPhase
  <1>2. stream[t].todo \in Seq(Calls) BY <1>1 DEF StreamState
  <1>3. Head(stream[t].todo) \in Calls /\ Tail(stream[t].todo) \in Seq(Calls) BY <1>1, <1>2
  <1>4. After(t) \in StreamState BY <1>1, <1>3 DEF After, StreamState, Phases
  <1>5. RanOnce(t, stream[t]) BY StreamFacts DEF StreamFits
  <1>. QED BY <1>1, <1>3, <1>4, <1>5 DEF After, StreamState, RanOnce

LEMMA CallSucceedsStep == ASSUME ChatIInv, NEW t \in Turns, CallSucceeds(t) PROVE ChatIInv'
  <1>. DEFINE c == Head(stream[t].todo)
              s == [After(t) EXCEPT !.cached = @ \cup {c}, !.sources = @ \cup ScopeOf[c], !.ran[c] = @ + 1]
  <1>1. stream[t].pc = "execute" /\ c \notin QuotaCalls \cup Unlisted /\ Executes(t, c) BY DEF CallSucceeds
  <1>2. c \in Calls BY <1>1, AfterTypes
  <1>3. c \notin stream[t].cached BY <1>1 DEF Executes
  <1>4. ScopeOf[c] \subseteq ReadableProjects BY <1>2, ChatAssumption
  <1>5. Complete(t, c, s) /\ UNCHANGED <<access, reply, losses, gone>> BY DEF CallSucceeds
  <1>. HIDE DEF c
  <1>. DEFINE f == After(t)
  <1>6. f \in StreamState BY <1>1, AfterTypes
  <1>7. [f.ran EXCEPT ![c] = @ + 1] \in [Calls -> Nat] BY <1>1, <1>2, AfterTypes
  <1>8. f.cached \cup {c} \subseteq Calls /\ f.sources \cup ScopeOf[c] \subseteq ReadableProjects
    BY <1>2, <1>4, <1>6 DEF StreamState
  <1>. DEFINE cached == f.cached \cup {c}
              sources == f.sources \cup ScopeOf[c]
              ran == [f.ran EXCEPT ![c] = @ + 1]
              r == [f EXCEPT !.cached = cached, !.sources = sources, !.ran = ran]
  <1>. HIDE DEF f
  <1>9. s = r BY <1>6 DEF StreamState, f
  <1>. HIDE DEF s, cached, sources, ran
  <1>10. /\ s.pc = f.pc /\ s.scope = f.scope /\ s.raced = f.raced /\ s.emitted = f.emitted
         /\ s.iteration = f.iteration /\ s.repairs = f.repairs /\ s.failures = f.failures /\ s.asked = f.asked
         /\ s.sources = sources /\ s.cached = cached /\ s.ran = ran
    BY <1>6, <1>9 DEF StreamState
  <1>11. s \in StreamState
    <2>1. cached \in SUBSET Calls /\ sources \in SUBSET ReadableProjects /\ ran \in [Calls -> Nat]
      BY <1>7, <1>8 DEF cached, sources, ran
    <2>. QED BY <2>1, <1>6, <1>9 DEF StreamState
  <1>12. /\ s.pc = "call" /\ s.scope = stream[t].scope /\ s.raced = stream[t].raced
         /\ s.emitted = stream[t].emitted /\ s.iteration = stream[t].iteration
         /\ s.repairs = stream[t].repairs /\ s.failures = stream[t].failures /\ s.asked = stream[t].asked
         /\ s.sources = stream[t].sources \cup ScopeOf[c] /\ s.cached = stream[t].cached \cup {c}
         /\ s.ran = [stream[t].ran EXCEPT ![c] = @ + 1]
    BY <1>1, <1>10, AfterTypes DEF f, cached, sources, ran
  <1>13. RanOnce(t, s)
    <2>. SUFFICES ASSUME t \notin AgentTurns, NEW d \in Calls
                  PROVE  s.ran[d] <= 1 /\ (d \notin s.cached => s.ran[d] = 0) BY DEF RanOnce
    <2>1. stream[t].ran \in [Calls -> Nat] BY <1>1, AfterTypes
    <2>2. \A b \in Calls : stream[t].ran[b] <= 1 /\ (b \notin stream[t].cached => stream[t].ran[b] = 0)
      BY <1>1, AfterTypes
    <2>3. CASE d = c
      <3>1. stream[t].ran[c] = 0 BY <1>2, <1>3, <2>2
      <3>. QED BY <2>1, <2>3, <3>1, <1>2, <1>12
    <2>4. CASE d # c BY <2>1, <2>2, <2>4, <1>12
    <2>. QED BY <2>3, <2>4
  <1>14. Entered({EntryOf(c)}, ScopeOf[c]) BY <1>1 DEF Entered, EntryOf, Covers, Known
  <1>. QED BY <1>1, <1>2, <1>5, <1>11, <1>12, <1>13, <1>14, CompleteStep

LEMMA CallEndsStep ==
    ASSUME ChatIInv, NEW t \in Turns, CallFails(t) \/ CallIsAnswered(t) \/ CallNeedsConfirmation(t)
    PROVE  ChatIInv'
  <1>. DEFINE c == Head(stream[t].todo)
              f == After(t)
  <1>1. stream[t].pc = "execute" /\ UNCHANGED <<access, reply, losses, gone>>
    BY DEF CallFails, CallIsAnswered, CallNeedsConfirmation
  <1>2. c \in Calls /\ f \in StreamState BY <1>1, AfterTypes
  <1>3. ASSUME NEW s \in StreamState, s.pc \in {"call", "confirm"}, s.scope = f.scope, s.raced = f.raced,
               s.emitted = f.emitted, s.iteration = f.iteration, s.repairs = f.repairs,
               s.failures = f.failures, s.asked = f.asked, s.ran = f.ran, s.cached = f.cached,
               s.sources = f.sources, Complete(t, c, s)
        PROVE  ChatIInv'
    <2>1. RanOnce(t, s) BY <1>1, <1>3, AfterTypes DEF RanOnce
    <2>2. Entered({EntryOf(c)}, {}) /\ s.sources = stream[t].sources \cup {} BY <1>1, <1>3, AfterTypes DEF Entered
    <2>3. /\ s.scope = stream[t].scope /\ s.raced = stream[t].raced
          /\ s.emitted = stream[t].emitted /\ s.iteration = stream[t].iteration
          /\ s.repairs = stream[t].repairs /\ s.failures = stream[t].failures /\ s.asked = stream[t].asked
      BY <1>1, <1>3, AfterTypes
    <2>. HIDE DEF c, f
    <2>. QED BY <1>1, <1>2, <1>3, <2>1, <2>2, <2>3, CompleteStep
  <1>4. f.pc = "call" BY <1>1, AfterTypes
  <1>5. CASE CallFails(t)
    <2>1. PICK hard \in BOOLEAN :
            Complete(t, c, [f EXCEPT !.failed = TRUE, !.hard = @ \/ hard,
                                     !.blocked = IF hard THEN @ \cup {NameOf[c]} ELSE @])
      BY <1>5 DEF CallFails
    <2>. DEFINE b == IF hard THEN f.blocked \cup {NameOf[c]} ELSE f.blocked
                s == [f EXCEPT !.failed = TRUE, !.hard = @ \/ hard, !.blocked = b]
    <2>2. b \subseteq {NameOf[d] : d \in Calls} BY <1>2 DEF StreamState
    <2>3. Complete(t, c, s) BY <2>1
    <2>. HIDE DEF b, f, c
    <2>4. /\ s.pc = f.pc /\ s.scope = f.scope /\ s.raced = f.raced /\ s.emitted = f.emitted
          /\ s.iteration = f.iteration /\ s.repairs = f.repairs /\ s.failures = f.failures /\ s.asked = f.asked
          /\ s.ran = f.ran /\ s.cached = f.cached /\ s.sources = f.sources
      BY <1>2 DEF StreamState
    <2>5. s \in StreamState BY <1>2, <2>2 DEF StreamState
    <2>. HIDE DEF s
    <2>. QED BY <1>3, <1>4, <2>3, <2>4, <2>5
  <1>6. CASE CallIsAnswered(t)
    <2>. DEFINE blocked == NameOf[c] \in stream[t].blocked
                s == [f EXCEPT !.failed = @ \/ blocked, !.hard = @ \/ blocked, !.reused = @ \/ ~blocked]
    <2>1. Complete(t, c, s) BY <1>6 DEF CallIsAnswered
    <2>2. blocked \in BOOLEAN OBVIOUS
    <2>. HIDE DEF blocked, f, c
    <2>4. /\ s.pc = f.pc /\ s.scope = f.scope /\ s.raced = f.raced /\ s.emitted = f.emitted
          /\ s.iteration = f.iteration /\ s.repairs = f.repairs /\ s.failures = f.failures /\ s.asked = f.asked
          /\ s.ran = f.ran /\ s.cached = f.cached /\ s.sources = f.sources
      BY <1>2 DEF StreamState
    <2>5. s \in StreamState BY <1>2, <2>2 DEF StreamState
    <2>. HIDE DEF s
    <2>. QED BY <1>3, <1>4, <2>1, <2>4, <2>5
  <1>7. CASE CallNeedsConfirmation(t)
    <2>. DEFINE s == [f EXCEPT !.pc = "confirm"]
    <2>1. Complete(t, c, s) BY <1>7 DEF CallNeedsConfirmation
    <2>. HIDE DEF f, c
    <2>4. /\ s.pc = "confirm" /\ s.scope = f.scope /\ s.raced = f.raced /\ s.emitted = f.emitted
          /\ s.iteration = f.iteration /\ s.repairs = f.repairs /\ s.failures = f.failures /\ s.asked = f.asked
          /\ s.ran = f.ran /\ s.cached = f.cached /\ s.sources = f.sources
      BY <1>2 DEF StreamState
    <2>5. s \in StreamState BY <1>2 DEF StreamState, Phases
    <2>. HIDE DEF s
    <2>. QED BY <1>3, <2>1, <2>4, <2>5
  <1>. QED BY <1>5, <1>6, <1>7

\* What a call of an agent makes of turn and audit: it is entered, and told and counted if it
\* succeeds.
AgentCalled(t, c, s, a) ==
    /\ stream' = [stream EXCEPT ![t] = s] /\ record' = [record EXCEPT ![t] = a]
    /\ a.status = record[t].status /\ a.trace = record[t].trace \cup {EntryOf(c)}
    /\ s.pc \in {stream[t].pc, "card"} /\ s.scope = stream[t].scope /\ s.raced = stream[t].raced
    /\ s.iteration = stream[t].iteration /\ s.repairs = stream[t].repairs
    /\ s.failures = stream[t].failures /\ s.asked = stream[t].asked
    /\ s.emitted.from \subseteq stream[t].sources
    /\ c \notin Unlisted
    /\ \/ s.sources = stream[t].sources /\ s.ran = stream[t].ran
       \/ /\ c \notin QuotaCalls /\ ScopeOf[c] \subseteq access
          /\ s.sources = stream[t].sources \cup ScopeOf[c]
          /\ s.ran = [stream[t].ran EXCEPT ![c] = @ + 1]

LEMMA AgentCalls ==
    ASSUME ChatIInv, NEW t \in Turns,
           AgentCallSucceeds(t) \/ AgentCallFails(t) \/ AgentCallNeedsConfirmation(t)
    PROVE  /\ t \in AgentTurns /\ stream[t].pc \in {"ask", "card"} /\ UNCHANGED <<access, reply, losses, gone>>
           /\ \E c \in Calls, s \in StreamState, a \in Audit : AgentCalled(t, c, s, a)
  <1>1. stream[t] \in StreamState /\ record[t] \in Audit BY StreamFacts
  <1>2. \A c \in Calls : EntryOf(c) \in Visibility
    <2>1. \A c \in Calls : ScopeOf[c] \subseteq ReadableProjects BY ChatAssumption
    <2>. QED BY <2>1, MarkersType DEF EntryOf
  <1>3. ASSUME NEW c \in Calls, NEW f \in StreamState, AgentCall(t, c, f),
               f.pc \in {stream[t].pc, "card"}, f.scope = stream[t].scope, f.raced = stream[t].raced,
               f.iteration = stream[t].iteration, f.repairs = stream[t].repairs,
               f.failures = stream[t].failures, f.asked = stream[t].asked,
               \/ f.sources = stream[t].sources /\ f.ran = stream[t].ran
               \/ /\ c \notin QuotaCalls /\ ScopeOf[c] \subseteq access
                  /\ f.sources = stream[t].sources \cup ScopeOf[c]
                  /\ f.ran = [stream[t].ran EXCEPT ![c] = @ + 1]
        PROVE  /\ t \in AgentTurns /\ stream[t].pc \in {"ask", "card"} /\ UNCHANGED <<access, reply, losses, gone>>
               /\ \E d \in Calls, s \in StreamState, a \in Audit : AgentCalled(t, d, s, a)
    <2>1. PICK e \in Emissions(t) : stream' = [stream EXCEPT ![t] = [f EXCEPT !.emitted = e]]
      BY <1>3 DEF AgentCall
    <2>2. e \in Reply /\ e.from \subseteq stream[t].sources BY RepliesTypes DEF Emissions
    <2>. DEFINE s == [f EXCEPT !.emitted = e]
                a == [record[t] EXCEPT !.trace = @ \cup {EntryOf(c)}]
    <2>3. /\ s.pc = f.pc /\ s.scope = f.scope /\ s.raced = f.raced /\ s.iteration = f.iteration
          /\ s.repairs = f.repairs /\ s.failures = f.failures /\ s.asked = f.asked
          /\ s.sources = f.sources /\ s.ran = f.ran /\ s.emitted = e
      BY DEF StreamState
    <2>4. s \in StreamState BY <2>2 DEF StreamState
    <2>5. a \in Audit /\ a.status = record[t].status /\ a.trace = record[t].trace \cup {EntryOf(c)}
      BY <1>1, <1>2 DEF Audit
    <2>6. stream' = [stream EXCEPT ![t] = s] /\ record' = [record EXCEPT ![t] = a] /\ c \notin Unlisted
      BY <1>3, <2>1 DEF AgentCall
    <2>. HIDE DEF s, a
    <2>7. AgentCalled(t, c, s, a) BY <1>3, <2>2, <2>3, <2>5, <2>6 DEF AgentCalled
    <2>. QED BY <1>3, <2>4, <2>5, <2>7 DEF AgentCall
  <1>4. CASE AgentCallSucceeds(t)
    <2>1. PICK c \in Calls \ QuotaCalls :
            /\ ScopeOf[c] \subseteq access
            /\ AgentCall(t, c, [stream[t] EXCEPT !.sources = @ \cup ScopeOf[c], !.ran[c] = @ + 1])
      BY <1>4 DEF AgentCallSucceeds
    <2>. DEFINE sources == stream[t].sources \cup ScopeOf[c]
                ran == [stream[t].ran EXCEPT ![c] = @ + 1]
                f == [stream[t] EXCEPT !.sources = sources, !.ran = ran]
    <2>2. AgentCall(t, c, f) BY <2>1
    <2>3. sources \subseteq ReadableProjects /\ ran \in [Calls -> Nat]
      <3>1. stream[t].ran \in [Calls -> Nat] /\ stream[t].sources \subseteq ReadableProjects BY <1>1 DEF StreamState
      <3>2. ScopeOf[c] \subseteq ReadableProjects BY ChatAssumption
      <3>. QED BY <3>1, <3>2
    <2>. HIDE DEF sources, ran
    <2>4. /\ f.pc = stream[t].pc /\ f.scope = stream[t].scope /\ f.raced = stream[t].raced
          /\ f.iteration = stream[t].iteration /\ f.repairs = stream[t].repairs
          /\ f.failures = stream[t].failures /\ f.asked = stream[t].asked
          /\ f.sources = sources /\ f.ran = ran
      BY <1>1 DEF StreamState
    <2>5. f \in StreamState BY <1>1, <2>3 DEF StreamState
    <2>. HIDE DEF f
    <2>. QED BY <1>3, <2>1, <2>2, <2>4, <2>5 DEF sources, ran
  <1>5. CASE AgentCallFails(t)
    <2>1. PICK c \in Calls, hard \in BOOLEAN :
            AgentCall(t, c, [stream[t] EXCEPT !.blocked = IF hard THEN @ \cup {NameOf[c]} ELSE @])
      BY <1>5 DEF AgentCallFails
    <2>. DEFINE b == IF hard THEN stream[t].blocked \cup {NameOf[c]} ELSE stream[t].blocked
                f == [stream[t] EXCEPT !.blocked = b]
    <2>2. AgentCall(t, c, f) BY <2>1
    <2>3. b \subseteq {NameOf[d] : d \in Calls} BY <1>1 DEF StreamState
    <2>. HIDE DEF b
    <2>4. /\ f.pc = stream[t].pc /\ f.scope = stream[t].scope /\ f.raced = stream[t].raced
          /\ f.iteration = stream[t].iteration /\ f.repairs = stream[t].repairs
          /\ f.failures = stream[t].failures /\ f.asked = stream[t].asked
          /\ f.sources = stream[t].sources /\ f.ran = stream[t].ran
      BY <1>1 DEF StreamState
    <2>5. f \in StreamState BY <1>1, <2>3 DEF StreamState
    <2>. HIDE DEF f
    <2>. QED BY <1>3, <2>2, <2>4, <2>5
  <1>6. CASE AgentCallNeedsConfirmation(t)
    <2>1. PICK c \in QuotaCalls : AgentCall(t, c, [stream[t] EXCEPT !.pc = "card"])
      BY <1>6 DEF AgentCallNeedsConfirmation
    <2>. DEFINE f == [stream[t] EXCEPT !.pc = "card"]
    <2>2. AgentCall(t, c, f) /\ c \in Calls BY <2>1, ChatAssumption
    <2>4. /\ f.pc = "card" /\ f.scope = stream[t].scope /\ f.raced = stream[t].raced
          /\ f.iteration = stream[t].iteration /\ f.repairs = stream[t].repairs
          /\ f.failures = stream[t].failures /\ f.asked = stream[t].asked
          /\ f.sources = stream[t].sources /\ f.ran = stream[t].ran
      BY <1>1 DEF StreamState
    <2>5. f \in StreamState BY <1>1 DEF StreamState, Phases
    <2>. HIDE DEF f
    <2>. QED BY <1>3, <2>2, <2>4, <2>5
  <1>. QED BY <1>4, <1>5, <1>6

LEMMA AgentCallsStep ==
    ASSUME ChatIInv, NEW t \in Turns,
           AgentCallSucceeds(t) \/ AgentCallFails(t) \/ AgentCallNeedsConfirmation(t)
    PROVE  ChatIInv'
  <1>1. t \in AgentTurns /\ stream[t].pc \in {"ask", "card"} /\ UNCHANGED <<access, reply, losses, gone>>
    BY AgentCalls
  <1>0. PICK c \in Calls, s \in StreamState, a \in Audit : AgentCalled(t, c, s, a) BY AgentCalls
  <1>2. /\ stream' = [stream EXCEPT ![t] = s] /\ record' = [record EXCEPT ![t] = a]
        /\ a.status = record[t].status /\ a.trace = record[t].trace \cup {EntryOf(c)}
        /\ s.pc \in {stream[t].pc, "card"} /\ s.scope = stream[t].scope /\ s.raced = stream[t].raced
        /\ s.iteration = stream[t].iteration /\ s.repairs = stream[t].repairs
        /\ s.failures = stream[t].failures /\ s.asked = stream[t].asked
        /\ s.emitted.from \subseteq stream[t].sources /\ c \notin Unlisted
        /\ s.sources = stream[t].sources \/ s.sources = stream[t].sources \cup ScopeOf[c]
    BY <1>0 DEF AgentCalled
  <1>3. PICK X : Entered({EntryOf(c)}, X) /\ s.sources = stream[t].sources \cup X
    <2>1. CASE s.sources = stream[t].sources
      <3>1. Entered({EntryOf(c)}, {}) /\ s.sources = stream[t].sources \cup {} BY <2>1 DEF Entered
      <3>. QED BY <3>1
    <2>2. CASE s.sources = stream[t].sources \cup ScopeOf[c]
      <3>1. Entered({EntryOf(c)}, ScopeOf[c]) BY <1>2 DEF Entered, EntryOf, Covers, Known
      <3>. QED BY <2>2, <3>1
    <2>. QED BY <1>2, <2>1, <2>2
  <1>4. stream[t].pc \in {"ask"} \cup Working /\ stream[t].pc \in Told /\ s.pc \in Told /\ s.pc # "execute"
    BY <1>1, <1>2 DEF Working, Told
  <1>5. WithinBudget(s)
    <2>1. CASE s.pc = stream[t].pc
      <3>1. WithinBudget(stream[t]) BY StreamFacts DEF StreamFits
      <3>. QED BY <2>1, <3>1, <1>2 DEF WithinBudget
    <2>2. CASE s.pc = "card" /\ stream[t].pc = "ask"
      <3>1. MaxIterations \in Nat /\ MaxArgumentRepairs \in Nat /\ MaxFailureRepairs \in Nat BY Budgets
      <3>2. stream[t].asked <= Budget(stream[t].iteration - 1) + stream[t].repairs BY <1>4, <2>2, RoundBudget
      <3>3. /\ s.asked <= Budget(s.iteration - 1) + s.repairs + 1 /\ s.asked <= Budget(MaxIterations)
            /\ s.iteration <= MaxIterations /\ s.repairs <= MaxArgumentRepairs /\ s.failures <= MaxFailureRepairs
            /\ s.iteration <= MaxIterations + 1 /\ s.repairs <= MaxArgumentRepairs + 1
            /\ s.failures <= MaxFailureRepairs + 1
        BY <1>2, <1>4, <3>1, <3>2, RoundBudget
      <3>. QED BY <2>2, <3>3 DEF WithinBudget, Before, Working
    <2>. QED BY <1>1, <1>2, <2>1, <2>2
  <1>6. RanOnce(t, s) BY <1>1 DEF RanOnce
  <1>7. s.emitted.from \subseteq s.sources BY <1>2
  <1>. QED BY <1>1, <1>2, <1>3, <1>4, <1>5, <1>6, <1>7, RoundMoves

LEMMA AgentFinishesStep == ASSUME ChatIInv, NEW t \in Turns, AgentFinishes(t) PROVE ChatIInv'
  <1>. DEFINE s == [stream[t] EXCEPT !.pc = "confirm"]
  <1>1. stream[t] \in StreamState /\ stream[t].pc = "card" BY StreamFacts DEF AgentFinishes
  <1>2. /\ s \in StreamState /\ s.pc = "confirm" /\ s.scope = stream[t].scope /\ s.raced = stream[t].raced
        /\ s.sources = stream[t].sources /\ s.emitted = stream[t].emitted /\ s.iteration = stream[t].iteration
        /\ s.repairs = stream[t].repairs /\ s.failures = stream[t].failures
        /\ s.asked = stream[t].asked /\ s.ran = stream[t].ran /\ s.cached = stream[t].cached
    BY <1>1 DEF StreamState, Phases
  <1>3. stream' = [stream EXCEPT ![t] = s] /\ UNCHANGED <<access, record, reply, losses, gone>>
    BY DEF AgentFinishes
  <1>. HIDE DEF s
  <1>4. stream[t].pc \in Working /\ s.pc \in Working /\ stream[t].pc \in Told /\ s.pc \in Told
    BY <1>1, <1>2 DEF Working, Told
  <1>5. s.asked = stream[t].asked + 0
    <2>1. stream[t].asked \in Nat BY <1>1 DEF StreamState
    <2>. QED BY <2>1, <1>2
  <1>6. WithinBudget(s) BY <1>1, <1>2, <1>4, <1>5, StillInRound
  <1>7. RanOnce(t, s) BY <1>2, StreamFacts DEF StreamFits, RanOnce
  <1>8. s.emitted.from \subseteq s.sources BY <1>2, StreamFacts DEF StreamFits, InPhase
  <1>. DEFINE a == record[t]
  <1>9. record' = [record EXCEPT ![t] = a] BY <1>3, SameAudit
  <1>10. /\ a \in Audit /\ a.status = record[t].status /\ a.trace = record[t].trace \cup {}
         /\ Entered({}, {}) /\ s.sources = stream[t].sources \cup {} /\ s.pc # "execute"
    BY <1>2, StreamFacts, SameAudit
  <1>. HIDE DEF a
  <1>. QED BY <1>2, <1>3, <1>4, <1>6, <1>7, <1>8, <1>9, <1>10, RoundMoves

LEMMA FinishRoundStep == ASSUME ChatIInv, NEW t \in Turns, FinishRound(t) PROVE ChatIInv'
  <1>. DEFINE r == stream[t]
              again == r.failed /\ ~r.hard
              over == (again /\ r.failures + 1 > MaxFailureRepairs) \/ LastRound(r.iteration)
              q == IF over THEN "summary" ELSE "ask"
              failures == IF again THEN r.failures + 1 ELSE r.failures
              tools == r.tools /\ ~r.hard /\ (r.failed \/ ~r.reused)
              s == [r EXCEPT !.pc = q, !.failures = failures, !.tools = tools, !.iteration = @ + 1, !.repairs = 0]
  <1>1. r \in StreamState /\ r.pc = "call" BY StreamFacts DEF FinishRound
  <1>2. stream' = [stream EXCEPT ![t] = s] /\ UNCHANGED <<access, record, reply, losses, gone>>
    BY DEF FinishRound
  <1>3. /\ r.iteration \in Nat \ {0} /\ r.failures \in Nat /\ r.asked \in Nat /\ r.repairs \in Nat
        /\ r.iteration <= MaxIterations /\ r.failures <= MaxFailureRepairs
        /\ r.repairs <= MaxArgumentRepairs
        /\ r.asked <= Budget(r.iteration - 1) + r.repairs + 1
        /\ Budget(r.iteration) = Budget(r.iteration - 1) + MaxArgumentRepairs + 1
        /\ Budget(r.iteration) <= Budget(MaxIterations)
        /\ Budget(r.iteration - 1) \in Nat /\ Budget(MaxIterations) \in Nat
    <2>1. r.pc \in {"ask"} \cup Working BY <1>1 DEF Working
    <2>2. r.asked <= Budget(r.iteration - 1) + r.repairs + (IF r.pc = "ask" THEN 0 ELSE 1) BY <2>1, RoundBudget
    <2>3. r.asked <= Budget(r.iteration - 1) + r.repairs + 1 BY <1>1, <2>2
    <2>. QED BY <2>1, <2>3, RoundBudget
  <1>4. /\ failures \in Nat /\ failures <= MaxFailureRepairs + 1 /\ q \in {"summary", "ask"}
        /\ q = "ask" => failures <= MaxFailureRepairs /\ r.iteration + 1 <= MaxIterations
    <2>1. MaxFailureRepairs \in Nat /\ MaxIterations \in Nat BY Budgets
    <2>2. failures \in Nat /\ failures <= MaxFailureRepairs + 1 /\ q \in {"summary", "ask"} BY <2>1, <1>3
    <2>3. ASSUME ~over PROVE failures <= MaxFailureRepairs /\ r.iteration + 1 <= MaxIterations
      <3>1. r.iteration # MaxIterations BY <2>3 DEF LastRound
      <3>2. r.iteration + 1 <= MaxIterations BY <3>1, <2>1, <1>3
      <3>3. failures <= MaxFailureRepairs BY <2>1, <2>3, <1>3
      <3>. QED BY <3>2, <3>3
    <2>. QED BY <2>2, <2>3
  <1>5. tools \in BOOLEAN BY <1>1 DEF StreamState
  <1>. HIDE DEF q, failures, tools, r
  <1>6. /\ s.pc = q /\ s.scope = r.scope /\ s.raced = r.raced /\ s.sources = r.sources
        /\ s.emitted = r.emitted /\ s.iteration = r.iteration + 1 /\ s.repairs = 0
        /\ s.failures = failures /\ s.asked = r.asked /\ s.ran = r.ran /\ s.cached = r.cached
    BY <1>1 DEF StreamState
  <1>7. s \in StreamState
    <2>1. q \in Phases /\ r.iteration + 1 \in Nat \ {0} BY <1>3, <1>4 DEF Phases
    <2>. QED BY <2>1, <1>1, <1>4, <1>5 DEF StreamState
  <1>. HIDE DEF s
  <1>8. WithinBudget(s)
    <2>1. s.asked <= Budget(s.iteration - 1) + s.repairs /\ s.asked <= Budget(MaxIterations)
      <3>1. s.iteration - 1 = r.iteration BY <1>3, <1>6
      <3>. QED BY <3>1, <1>3, <1>6, Budgets
    <2>2. s.iteration <= MaxIterations + 1 /\ s.repairs <= MaxArgumentRepairs + 1 /\ s.failures <= MaxFailureRepairs + 1
      BY <1>3, <1>4, <1>6, Budgets
    <2>3. s.pc = "ask" => s.iteration <= MaxIterations /\ s.repairs <= MaxArgumentRepairs /\ s.failures <= MaxFailureRepairs
      BY <1>4, <1>6, Budgets
    <2>. QED BY <2>1, <2>2, <2>3, <1>4, <1>6 DEF WithinBudget, Before, Working
  <1>9. RanOnce(t, s) BY <1>6, StreamFacts DEF StreamFits, RanOnce, r
  <1>10. s.emitted.from \subseteq s.sources BY <1>6, StreamFacts DEF StreamFits, InPhase, r
  <1>11. stream[t].pc \in Told /\ s.pc \in Told /\ s.pc # "execute" BY <1>1, <1>4, <1>6 DEF Told, r
  <1>12. s.scope = stream[t].scope /\ s.raced = stream[t].raced /\ s.sources = stream[t].sources BY <1>6 DEF r
  <1>. QED BY <1>2, <1>7, <1>8, <1>9, <1>10, <1>11, <1>12, StreamFacts, SameAudit, RoundMoves

LEMMA DieStep == ASSUME ChatIInv, NEW t \in Turns, Die(t) PROVE ChatIInv'
  <1>1. losses' \in 0..MaxLosses BY StreamFacts, Budgets DEF Die
  <1>. QED BY <1>1, LostStep DEF Die

\* The user loses a project; nothing that is stored changes.
LEMMA AccessStep == ASSUME ChatIInv, LoseAccess \/ UNCHANGED chatVars PROVE ChatIInv'
  <1>1. UNCHANGED <<record, reply, stream, gone>> BY DEF LoseAccess, chatVars
  <1>2. access' \subseteq ReadableProjects /\ losses' \in 0..MaxLosses
    <2>1. access \subseteq ReadableProjects /\ losses \in 0..MaxLosses BY DEF ChatIInv, ChatShaped
    <2>. QED BY <2>1, Budgets DEF LoseAccess, chatVars
  <1>3. ChatShaped' BY <1>1, <1>2 DEF ChatIInv, ChatShaped
  <1>4. ScopesHold'
    <2>1. NoneRaced' <=> NoneRaced BY <1>1 DEF NoneRaced
    <2>2. \A t \in Turns : RepliesKept(t)' <=> RepliesKept(t) BY <1>1 DEF RepliesKept, VisibilityOf, TraceOf
    <2>3. \A t \in Turns : ScopeFits(stream[t], t)' <=> ScopeFits(stream[t], t) BY <1>1 DEF ScopeFits
    <2>. QED BY <1>1, <2>1, <2>2, <2>3 DEF ChatIInv, ScopesHold
  <1>. QED BY <1>1, <1>3, <1>4 DEF ChatIInv

LEMMA DeleteStep == ASSUME ChatIInv, DeleteConversation PROVE ChatIInv'
  <1>1. gone' /\ UNCHANGED <<access, record, stream, losses>> BY DEF DeleteConversation
  <1>2. NoReply \in Reply BY DEF NoReply, Reply
  <1>3. reply' \in [Turns -> Reply] /\ gone' \in BOOLEAN /\ \A t \in Turns : reply'[t] = NoReply
    BY <1>2 DEF DeleteConversation
  <1>4. ChatShaped' BY <1>1, <1>3 DEF ChatIInv, ChatShaped
  <1>5. ScopesHold'
    <2>. SUFFICES ASSUME NoneRaced', NEW t \in Turns PROVE SourcesKept(stream'[t], record'[t]) /\ RepliesKept(t)'
      BY <1>1 DEF ScopesHold
    <2>1. NoneRaced BY <1>1 DEF NoneRaced
    <2>2. SourcesKept(stream[t], record[t]) BY <2>1 DEF ChatIInv, ScopesHold
    <2>3. RepliesKept(t)' BY <1>3 DEF RepliesKept, NoReply
    <2>. QED BY <1>1, <2>2, <2>3
  <1>6. \A t \in Turns : AuditFits(stream'[t], record'[t], reply'[t])
    BY <1>1, <1>3, StreamFacts DEF AuditFits, NoReply
  <1>. QED BY <1>1, <1>4, <1>5, <1>6, StreamFacts DEF ChatIInv

LEMMA NextChatIInv == ChatIInv /\ [ChatNext]_chatVars => ChatIInv'
  <1>. SUFFICES ASSUME ChatIInv, [ChatNext]_chatVars PROVE ChatIInv' OBVIOUS
  <1>1. ASSUME NEW t \in Turns, TurnStep(t) PROVE ChatIInv'
    BY <1>1, ReadScopeStep, ReadHistoryStep, EndStep, AnswerInvalidStep, AnswerCallsStep, StartCallStep,
       CallSucceedsStep, CallEndsStep, AgentCallsStep, AgentFinishesStep, FinishRoundStep DEF TurnStep
  <1>2. ASSUME NEW t \in Turns, Send(t) \/ Disconnect(t) \/ Die(t) PROVE ChatIInv'
    BY <1>2, SendStep, EndStep, DieStep
  <1>3. CASE LoseAccess \/ UNCHANGED chatVars BY <1>3, AccessStep
  <1>4. CASE DeleteConversation BY <1>4, DeleteStep
  <1>. QED BY <1>1, <1>2, <1>3, <1>4 DEF ChatNext

-----------------------------------------------------------------------------
(* What the invariant gives.                                               *)

LEMMA ChatInvariant == ChatSpec => []ChatIInv
  BY InitChatIInv, NextChatIInv, PTL DEF ChatSpec

LEMMA ChatTypes == ChatIInv => ChatTypeOK
  <1>. SUFFICES ASSUME ChatIInv PROVE ChatTypeOK OBVIOUS
  <1>1. access \subseteq ReadableProjects /\ losses \in 0..MaxLosses /\ gone \in BOOLEAN
    BY DEF ChatIInv, ChatShaped
  <1>. SUFFICES ASSUME NEW t \in Turns
                PROVE  /\ record[t].status \in {"none", "running"} \cup SettledStatuses
                       /\ record[t].marker \in Visibility /\ record[t].trace \subseteq Visibility
                       /\ record[t].open \in BOOLEAN
                       /\ reply[t].text \in BOOLEAN /\ reply[t].from \subseteq ReadableProjects
                       /\ stream[t].scope \in Visibility /\ stream[t].sources \subseteq ReadableProjects
                       /\ stream[t].iteration \in 1..(MaxIterations + 1)
                       /\ stream[t].repairs \in 0..(MaxArgumentRepairs + 1)
                       /\ stream[t].failures \in 0..(MaxFailureRepairs + 1)
                       /\ stream[t].asked \in 0..(MaxIterations * (MaxArgumentRepairs + 1))
    BY <1>1 DEF ChatTypeOK
  <1>2. record[t] \in Audit /\ reply[t] \in Reply /\ stream[t] \in StreamState BY StreamFacts
  <1>3. /\ stream[t].iteration \in Nat \ {0} /\ stream[t].repairs \in Nat /\ stream[t].failures \in Nat
        /\ stream[t].asked \in Nat /\ stream[t].scope \in Visibility /\ stream[t].sources \subseteq ReadableProjects
    BY <1>2 DEF StreamState
  <1>4. /\ stream[t].iteration <= MaxIterations + 1 /\ stream[t].repairs <= MaxArgumentRepairs + 1
        /\ stream[t].failures <= MaxFailureRepairs + 1 /\ stream[t].asked <= Budget(MaxIterations)
    BY StreamFacts DEF StreamFits, WithinBudget
  <1>5. stream[t].asked \in 0..(MaxIterations * (MaxArgumentRepairs + 1))
    <2>1. Budget(MaxIterations) \in Nat BY Budgets
    <2>. QED BY <2>1, <1>3, <1>4 DEF Budget
  <1>6. /\ stream[t].iteration \in 1..(MaxIterations + 1) /\ stream[t].repairs \in 0..(MaxArgumentRepairs + 1)
        /\ stream[t].failures \in 0..(MaxFailureRepairs + 1)
    BY <1>3, <1>4, Budgets
  <1>. QED BY <1>2, <1>3, <1>5, <1>6 DEF Audit, Reply

LEMMA ShownCovered == ChatIInv => ShownWithinAccess
  <1>. SUFFICES ASSUME ChatIInv, NoneRaced, NEW t \in Turns, Shown(t) PROVE reply[t].from \subseteq access
    BY DEF ShownWithinAccess, NoneRaced
  <1>1. RepliesKept(t) BY DEF ChatIInv, ScopesHold
  <1>. QED BY <1>1 DEF RepliesKept, Covers, Shown, Allowed

\* The variables of a conversation keep their types, and a turn never asks for more completions
\* than its settings allow.
THEOREM ChatTypeCorrect == ChatSpec => []ChatTypeOK
  BY ChatInvariant, ChatTypes, PTL

\* What a user can open speaks only of projects that the user can still read, for any number of
\* turns, tools and projects, as long as no turn raced with another one that was written.
THEOREM RepliesWithinAccess == ChatSpec => []ShownWithinAccess
  BY ChatInvariant, ShownCovered, PTL

\* No call that succeeded is executed again in its turn, for any answers of the model, unless an
\* agent of claude_code answers the turn.
THEOREM CallsOnce == ChatSpec => []CallsRunOnce
  <1>1. ChatIInv => CallsRunOnce BY DEF ChatIInv, StreamFits, RanOnce, CallsRunOnce
  <1>. QED BY <1>1, ChatInvariant, PTL

\* A step of a turn that has not ended, and nothing of the others.
LEMMA OwnStep ==
    ASSUME ChatIInv, NEW t \in Turns, Send(t) \/ TurnStep(t) \/ Disconnect(t) \/ Die(t)
    PROVE  /\ stream[t].pc # "settled"
           /\ \A u \in Turns \ {t} : record'[u] = record[u] /\ reply'[u] = reply[u]
  <1>. USE DEF ChatIInv, ChatShaped
  <1>1. CASE Send(t) \/ Die(t) BY <1>1 DEF Send, Die
  <1>2. ASSUME NEW status, NEW text, Settle(t, status, text)
        PROVE  \A u \in Turns \ {t} : record'[u] = record[u] /\ reply'[u] = reply[u]
    BY <1>2 DEF Settle
  <1>3. CASE Disconnect(t) BY <1>2, <1>3 DEF Disconnect, IsStreaming
  <1>4. CASE ReadScope(t) \/ ReadHistory(t) \/ AnswerCalls(t) \/ FinishRound(t)
    BY <1>4 DEF ReadScope, ReadHistory, AnswerCalls, FinishRound
  <1>5. CASE AnswerText(t) \/ AnswerFails(t) BY <1>2, <1>5 DEF AnswerText, AnswerFails
  <1>6. CASE QuotaToolMissing(t) \/ AwaitConfirmation(t) \/ Summarize(t)
    BY <1>2, <1>6 DEF QuotaToolMissing, AwaitConfirmation, Summarize
  <1>7. CASE AnswerInvalid(t) \/ StartCall(t) BY <1>7 DEF AnswerInvalid, StartCall
  <1>8. ASSUME NEW c, NEW s, Complete(t, c, s), UNCHANGED reply
        PROVE  \A u \in Turns \ {t} : record'[u] = record[u] /\ reply'[u] = reply[u]
    BY <1>8 DEF Complete
  <1>9. CASE CallSucceeds(t) BY <1>8, <1>9 DEF CallSucceeds
  <1>10. CASE CallFails(t) BY <1>8, <1>10 DEF CallFails
  <1>11. CASE CallIsAnswered(t) \/ CallNeedsConfirmation(t) BY <1>8, <1>11 DEF CallIsAnswered, CallNeedsConfirmation
  <1>12. CASE AgentCallSucceeds(t) \/ AgentCallFails(t) \/ AgentCallNeedsConfirmation(t)
    BY <1>12, AgentCalls DEF AgentCalled
  <1>13. CASE AgentFinishes(t) BY <1>13 DEF AgentFinishes
  <1>. QED BY <1>1, <1>3, <1>4, <1>5, <1>6, <1>7, <1>9, <1>10, <1>11, <1>12, <1>13 DEF TurnStep

\* A settled turn keeps its outcome, and its text as long as the conversation is there.
THEOREM OutcomesFinal == ChatSpec => OutcomesAreFinal
  <1>. DEFINE Final == \A t \in Turns : record[t].status \in SettledStatuses =>
                         record'[t].status = record[t].status /\ (reply'[t] = reply[t] \/ gone')
  <1>1. ASSUME ChatIInv, [ChatNext]_chatVars PROVE Final
    <2>. SUFFICES ASSUME NEW t \in Turns, record[t].status \in SettledStatuses
                  PROVE  record'[t].status = record[t].status /\ (reply'[t] = reply[t] \/ gone')
      OBVIOUS
    <2>1. stream[t].pc = "settled" BY <1>1, StreamFacts DEF AuditFits
    <2>2. ASSUME NEW u \in Turns, Send(u) \/ TurnStep(u) \/ Disconnect(u) \/ Die(u)
          PROVE  record'[t] = record[t] /\ reply'[t] = reply[t]
      BY <1>1, <2>1, <2>2, OwnStep
    <2>3. CASE LoseAccess \/ DeleteConversation BY <2>3 DEF LoseAccess, DeleteConversation
    <2>4. CASE UNCHANGED chatVars BY <2>4 DEF chatVars
    <2>. QED BY <1>1, <2>2, <2>3, <2>4 DEF ChatNext
  <1>2. ChatIInv /\ [ChatNext]_chatVars => [Final]_chatVars BY <1>1
  <1>. QED BY <1>2, ChatInvariant, PTL DEF ChatSpec, OutcomesAreFinal

-----------------------------------------------------------------------------
(* The refinement of ChatContract.  A turn that is not through runs, by    *)
(* AuditFits; what it is told and what it has executed change with its     *)
(* history and with a call that succeeds, and with nothing else.           *)

LEMMA TurnRuns ==
    ASSUME ChatIInv, NEW t \in Turns, stream[t].pc \notin {"none", "settled", "lost"}
    PROVE  TurnStates[t] = "running"
  <1>1. record[t].status \in {"none", "running"} \cup SettledStatuses BY StreamFacts DEF Audit
  <1>2. record[t].status = "running" BY <1>1, StreamFacts DEF AuditFits
  <1>. QED BY <1>2 DEF TurnStates, StateOf

LEMMA Unseen ==
    ASSUME ChatIInv, NEW t \in Turns, NEW s, stream' = [stream EXCEPT ![t] = s],
           stream[t].pc # "lost", s.pc # "lost", s.ran = stream[t].ran, s.sources = stream[t].sources,
           \A u \in Turns : record'[u].status = record[u].status, UNCHANGED <<access, reply, gone>>
    PROVE  UNCHANGED Contract!vars
  <1>1. stream'[t] = s /\ \A u \in Turns \ {t} : stream'[u] = stream[u] BY DEF ChatIInv, ChatShaped
  <1>2. \A u \in Turns : /\ StateOf(u)' = StateOf(u)
                         /\ stream'[u].ran = stream[u].ran /\ stream'[u].sources = stream[u].sources
    BY <1>1 DEF StateOf
  <1>3. UNCHANGED <<TurnStates, Ran, Learned>> BY <1>2 DEF TurnStates, Ran, Learned
  <1>. QED BY <1>3 DEF Contract!vars

\* Repairs, answers of the model, failed and repeated calls, and rounds that end.
LEMMA UnseenSteps ==
    ASSUME ChatIInv, NEW t \in Turns,
           ReadScope(t) \/ AnswerInvalid(t) \/ AnswerCalls(t) \/ StartCall(t) \/ CallFails(t)
             \/ CallIsAnswered(t) \/ CallNeedsConfirmation(t) \/ AgentFinishes(t) \/ FinishRound(t)
    PROVE  UNCHANGED Contract!vars
  <1>0. stream[t] \in StreamState /\ record \in [Turns -> Audit] BY StreamFacts DEF ChatIInv, ChatShaped
  <1>1. CASE ReadScope(t)
    <2>. DEFINE s == [stream[t] EXCEPT !.pc = "scoped", !.scope = HistoricalVisibility(t), !.knew = Answered]
    <2>1. stream' = [stream EXCEPT ![t] = s] /\ stream[t].pc = "sent" /\ UNCHANGED <<access, record, reply, gone>>
      BY <1>1 DEF ReadScope
    <2>2. s.pc = "scoped" /\ s.ran = stream[t].ran /\ s.sources = stream[t].sources BY <1>0 DEF StreamState
    <2>. HIDE DEF s
    <2>. QED BY <2>1, <2>2, Unseen
  <1>2. CASE AnswerInvalid(t)
    <2>. DEFINE q == IF RepairsOver(stream[t].repairs + 1) THEN "summary" ELSE "ask"
    <2>1. PICK e \in Emissions(t) :
            stream' = [stream EXCEPT ![t].emitted = e, ![t].repairs = @ + 1, ![t].asked = @ + 1, ![t].pc = q]
      BY <1>2 DEF AnswerInvalid
    <2>2. q # "lost" OBVIOUS
    <2>. HIDE DEF q
    <2>. DEFINE s == [stream[t] EXCEPT !.emitted = e, !.repairs = @ + 1, !.asked = @ + 1, !.pc = q]
    <2>3. stream' = [stream EXCEPT ![t] = s] BY <2>1
    <2>4. s.pc = q /\ s.ran = stream[t].ran /\ s.sources = stream[t].sources BY <1>0 DEF StreamState
    <2>5. stream[t].pc = "ask" /\ UNCHANGED <<access, reply, gone>> BY <1>2 DEF AnswerInvalid
    <2>6. \A u \in Turns : record'[u].status = record[u].status BY <1>0, <1>2 DEF AnswerInvalid, Audit
    <2>. HIDE DEF s
    <2>. QED BY <2>2, <2>3, <2>4, <2>5, <2>6, Unseen
  <1>3. CASE AnswerCalls(t)
    <2>1. PICK n \in 1..MaxBatch : \E batch \in [1..n -> Calls], e \in Emissions(t) :
            stream' = [stream EXCEPT ![t].pc = "call", ![t].todo = batch, ![t].emitted = e,
                                 ![t].asked = @ + 1, ![t].failed = FALSE, ![t].hard = FALSE,
                                 ![t].reused = FALSE]
      BY <1>3 DEF AnswerCalls
    <2>2. PICK batch \in [1..n -> Calls], e \in Emissions(t) :
            stream' = [stream EXCEPT ![t].pc = "call", ![t].todo = batch, ![t].emitted = e,
                                 ![t].asked = @ + 1, ![t].failed = FALSE, ![t].hard = FALSE,
                                 ![t].reused = FALSE]
      BY <2>1
    <2>. DEFINE s == [stream[t] EXCEPT !.pc = "call", !.todo = batch, !.emitted = e, !.asked = @ + 1,
                                       !.failed = FALSE, !.hard = FALSE, !.reused = FALSE]
    <2>3. stream' = [stream EXCEPT ![t] = s] BY <2>2
    <2>4. s.pc = "call" /\ s.ran = stream[t].ran /\ s.sources = stream[t].sources BY <1>0 DEF StreamState
    <2>5. stream[t].pc = "ask" /\ UNCHANGED <<access, record, reply, gone>> BY <1>3 DEF AnswerCalls
    <2>. HIDE DEF s
    <2>. QED BY <2>3, <2>4, <2>5, Unseen
  <1>4. CASE StartCall(t)
    <2>. DEFINE s == [stream[t] EXCEPT !.pc = "execute"]
    <2>1. stream' = [stream EXCEPT ![t] = s] /\ stream[t].pc = "call" /\ UNCHANGED <<access, reply, gone>>
      BY <1>4 DEF StartCall
    <2>2. s.pc = "execute" /\ s.ran = stream[t].ran /\ s.sources = stream[t].sources BY <1>0 DEF StreamState
    <2>3. \A u \in Turns : record'[u].status = record[u].status BY <1>0, <1>4 DEF StartCall, Audit
    <2>. HIDE DEF s
    <2>. QED BY <2>1, <2>2, <2>3, Unseen
  <1>5. ASSUME NEW s, NEW c \in Calls, stream[t].pc = "execute", Complete(t, c, s), UNCHANGED <<access, reply, gone>>,
               s.pc # "lost", s.ran = After(t).ran, s.sources = After(t).sources
        PROVE  UNCHANGED Contract!vars
    <2>1. s.ran = stream[t].ran /\ s.sources = stream[t].sources BY <1>5, AfterTypes
    <2>2. stream' = [stream EXCEPT ![t] = s] BY <1>5 DEF Complete
    <2>3. \A u \in Turns : record'[u].status = record[u].status BY <1>0, <1>5 DEF Complete, Audit
    <2>. QED BY <1>5, <2>1, <2>2, <2>3, Unseen
  <1>6. CASE CallFails(t) \/ CallIsAnswered(t) \/ CallNeedsConfirmation(t)
    <2>. DEFINE c == Head(stream[t].todo)
                f == After(t)
    <2>1. stream[t].pc = "execute" /\ UNCHANGED <<access, reply, gone>>
      BY <1>6 DEF CallFails, CallIsAnswered, CallNeedsConfirmation
    <2>2. c \in Calls /\ f \in StreamState /\ f.pc = "call" BY <2>1, AfterTypes
    <2>3. CASE CallFails(t)
      <3>1. PICK hard \in BOOLEAN :
              Complete(t, c, [f EXCEPT !.failed = TRUE, !.hard = @ \/ hard,
                                       !.blocked = IF hard THEN @ \cup {NameOf[c]} ELSE @])
        BY <2>3 DEF CallFails
      <3>. DEFINE b == IF hard THEN f.blocked \cup {NameOf[c]} ELSE f.blocked
                  s == [f EXCEPT !.failed = TRUE, !.hard = @ \/ hard, !.blocked = b]
      <3>2. Complete(t, c, s) BY <3>1
      <3>. HIDE DEF b, f, c
      <3>3. s.pc = f.pc /\ s.ran = f.ran /\ s.sources = f.sources BY <2>2 DEF StreamState
      <3>. HIDE DEF s
      <3>. QED BY <1>5, <2>1, <2>2, <3>2, <3>3 DEF f
    <2>4. CASE CallIsAnswered(t)
      <3>. DEFINE blocked == NameOf[c] \in stream[t].blocked
                  s == [f EXCEPT !.failed = @ \/ blocked, !.hard = @ \/ blocked, !.reused = @ \/ ~blocked]
      <3>1. Complete(t, c, s) BY <2>4 DEF CallIsAnswered
      <3>. HIDE DEF blocked, f, c
      <3>2. s.pc = f.pc /\ s.ran = f.ran /\ s.sources = f.sources BY <2>2 DEF StreamState
      <3>. HIDE DEF s
      <3>. QED BY <1>5, <2>1, <2>2, <3>1, <3>2 DEF f
    <2>5. CASE CallNeedsConfirmation(t)
      <3>. DEFINE s == [f EXCEPT !.pc = "confirm"]
      <3>1. Complete(t, c, s) BY <2>5 DEF CallNeedsConfirmation
      <3>. HIDE DEF f, c
      <3>2. s.pc = "confirm" /\ s.ran = f.ran /\ s.sources = f.sources BY <2>2 DEF StreamState
      <3>. HIDE DEF s
      <3>. QED BY <1>5, <2>1, <2>2, <3>1, <3>2 DEF f
    <2>. QED BY <1>6, <2>3, <2>4, <2>5
  <1>7. CASE FinishRound(t)
    <2>. DEFINE r == stream[t]
                again == r.failed /\ ~r.hard
                over == (again /\ r.failures + 1 > MaxFailureRepairs) \/ LastRound(r.iteration)
                q == IF over THEN "summary" ELSE "ask"
                failures == IF again THEN r.failures + 1 ELSE r.failures
                tools == r.tools /\ ~r.hard /\ (r.failed \/ ~r.reused)
                s == [r EXCEPT !.pc = q, !.failures = failures, !.tools = tools,
                               !.iteration = @ + 1, !.repairs = 0]
    <2>1. stream' = [stream EXCEPT ![t] = s] /\ stream[t].pc = "call" /\ UNCHANGED <<access, record, reply, gone>>
      BY <1>7 DEF FinishRound
    <2>2. q # "lost" OBVIOUS
    <2>. HIDE DEF q, failures, tools
    <2>3. s.pc = q /\ s.ran = stream[t].ran /\ s.sources = stream[t].sources BY <1>0 DEF StreamState
    <2>. HIDE DEF s
    <2>. QED BY <2>1, <2>2, <2>3, Unseen
  <1>8. CASE AgentFinishes(t)
    <2>. DEFINE s == [stream[t] EXCEPT !.pc = "confirm"]
    <2>1. stream' = [stream EXCEPT ![t] = s] /\ stream[t].pc = "card" /\ UNCHANGED <<access, record, reply, gone>>
      BY <1>8 DEF AgentFinishes
    <2>2. s.pc = "confirm" /\ s.ran = stream[t].ran /\ s.sources = stream[t].sources BY <1>0 DEF StreamState
    <2>. HIDE DEF s
    <2>. QED BY <2>1, <2>2, Unseen
  <1>. QED BY <1>1, <1>2, <1>3, <1>4, <1>6, <1>7, <1>8

LEMMA BeginStep == ASSUME ChatIInv, NEW t \in Turns, Send(t) PROVE Contract!Begin(t)
  <1>1. stream[t].pc = "none" /\ ~gone /\ UNCHANGED <<access, reply, gone>> BY DEF Send
  <1>2. stream \in [Turns -> StreamState] /\ record \in [Turns -> Audit] BY DEF ChatIInv, ChatShaped
  <1>3. record[t].status = "none" BY <1>1, StreamFacts DEF AuditFits
  <1>4. /\ stream' = [stream EXCEPT ![t] = [stream[t] EXCEPT !.pc = "sent"]]
        /\ record' = [record EXCEPT ![t].status = "running"]
    BY DEF Send
  <1>5. /\ stream'[t].pc = "sent" /\ stream'[t].ran = stream[t].ran /\ stream'[t].sources = stream[t].sources
        /\ record'[t].status = "running"
        /\ \A u \in Turns \ {t} : stream'[u] = stream[u] /\ record'[u] = record[u]
    BY <1>2, <1>4 DEF StreamState, Audit
  <1>6. TurnStates' = [TurnStates EXCEPT ![t] = "running"] BY <1>5 DEF TurnStates, StateOf
  <1>7. UNCHANGED <<Ran, Learned>> BY <1>5 DEF Ran, Learned
  <1>8. TurnStates[t] = "none" BY <1>1, <1>3 DEF TurnStates, StateOf
  <1>. QED BY <1>1, <1>6, <1>7, <1>8 DEF Contract!Begin

LEMMA RecallStep == ASSUME ChatIInv, NEW t \in Turns, ReadHistory(t) PROVE Contract!Recall(t, Quoted(t))
  <1>. DEFINE told == UNION {reply[u].from : u \in Quoted(t)}
              s == [stream[t] EXCEPT !.pc = "ask", !.raced = Answered # stream[t].knew, !.sources = told]
  <1>1. stream[t].pc = "scoped" /\ UNCHANGED <<access, record, reply, gone>> BY DEF ReadHistory
  <1>2. stream \in [Turns -> StreamState] /\ stream[t] \in StreamState BY DEF ChatIInv, ChatShaped
  <1>3. stream' = [stream EXCEPT ![t] = s] BY DEF ReadHistory
  <1>4. stream[t].sources = {} BY <1>1, StreamFacts DEF StreamFits, InPhase, Before
  <1>. HIDE DEF told
  <1>5. s.pc = "ask" /\ s.ran = stream[t].ran /\ s.sources = told BY <1>2 DEF StreamState
  <1>. HIDE DEF s
  <1>6. stream'[t] = s /\ \A u \in Turns \ {t} : stream'[u] = stream[u] BY <1>2, <1>3
  <1>7. UNCHANGED <<TurnStates, Ran>> BY <1>1, <1>5, <1>6 DEF TurnStates, StateOf, Ran
  <1>8. Learned' = [Learned EXCEPT ![t] = @ \cup told] BY <1>4, <1>5, <1>6 DEF Learned
  <1>9. \A u \in Quoted(t) : u # t /\ reply[u].text BY DEF Quoted, Shown
  <1>10. TurnStates[t] = "running" BY <1>1, TurnRuns
  <1>. QED BY <1>1, <1>7, <1>8, <1>9, <1>10 DEF Contract!Recall, told

LEMMA RunStep ==
    ASSUME ChatIInv, NEW t \in Turns, CallSucceeds(t)
    PROVE  \E c \in Calls : Contract!Run(t, c)
  <1>. DEFINE c == Head(stream[t].todo)
              f == After(t)
              sources == f.sources \cup ScopeOf[c]
              ran == [f.ran EXCEPT ![c] = @ + 1]
              s == [f EXCEPT !.cached = @ \cup {c}, !.sources = sources, !.ran = ran]
  <1>1. stream[t].pc = "execute" /\ c \notin QuotaCalls \cup Unlisted /\ Executes(t, c) /\ ScopeOf[c] \subseteq access
    BY DEF CallSucceeds
  <1>2. c \in Calls /\ f \in StreamState /\ f.pc = "call" /\ f.sources = stream[t].sources /\ f.ran = stream[t].ran
    BY <1>1, AfterTypes
  <1>3. t \notin AgentTurns => stream[t].ran[c] = 0 BY <1>1, <1>2, AfterTypes DEF Executes
  <1>4. /\ stream' = [stream EXCEPT ![t] = s]
        /\ record' = [record EXCEPT ![t].open = FALSE, ![t].trace = @ \cup {EntryOf(c)}]
    <2>1. Complete(t, c, [f EXCEPT !.cached = @ \cup {c}, !.sources = @ \cup ScopeOf[c], !.ran[c] = @ + 1])
      BY DEF CallSucceeds
    <2>. HIDE DEF c, f
    <2>2. [f EXCEPT !.cached = @ \cup {c}, !.sources = @ \cup ScopeOf[c], !.ran[c] = @ + 1] = s BY <1>2 DEF StreamState
    <2>. QED BY <2>1, <2>2 DEF Complete
  <1>5. UNCHANGED <<access, reply, gone>> BY DEF CallSucceeds
  <1>6. stream \in [Turns -> StreamState] /\ record \in [Turns -> Audit] BY DEF ChatIInv, ChatShaped
  <1>. HIDE DEF c, f, sources, ran
  <1>7. s.pc = f.pc /\ s.sources = sources /\ s.ran = ran BY <1>2 DEF StreamState
  <1>. HIDE DEF s
  <1>8. stream'[t] = s /\ \A u \in Turns \ {t} : stream'[u] = stream[u] BY <1>4, <1>6
  <1>9. \A u \in Turns : record'[u].status = record[u].status BY <1>4, <1>6 DEF Audit
  <1>10. UNCHANGED TurnStates BY <1>1, <1>2, <1>7, <1>8, <1>9 DEF TurnStates, StateOf
  <1>11. Learned' = [Learned EXCEPT ![t] = @ \cup ScopeOf[c]] BY <1>2, <1>7, <1>8 DEF Learned, sources
  <1>12. Ran' = [Ran EXCEPT ![t][c] = @ + 1]
    <2>1. ran = [stream[t].ran EXCEPT ![c] = @ + 1] BY <1>2 DEF ran
    <2>. QED BY <2>1, <1>7, <1>8 DEF Ran
  <1>13. (t \notin AgentTurns => Ran[t][c] = 0) /\ TurnStates[t] = "running" /\ c \in Direct BY <1>1, <1>2, <1>3, TurnRuns DEF Ran, Direct
  <1>14. Contract!Run(t, c) BY <1>1, <1>5, <1>10, <1>11, <1>12, <1>13 DEF Contract!Run
  <1>. QED BY <1>2, <1>14

LEMMA AgentRunStep ==
    ASSUME ChatIInv, NEW t \in Turns,
           AgentCallSucceeds(t) \/ AgentCallFails(t) \/ AgentCallNeedsConfirmation(t)
    PROVE  UNCHANGED Contract!vars \/ \E c \in Calls : Contract!Run(t, c)
  <1>1. t \in AgentTurns /\ stream[t].pc \in {"ask", "card"} /\ UNCHANGED <<access, reply, gone>>
    BY AgentCalls
  <1>0. PICK c \in Calls, s \in StreamState, a \in Audit : AgentCalled(t, c, s, a) BY AgentCalls
  <1>2. /\ stream' = [stream EXCEPT ![t] = s] /\ record' = [record EXCEPT ![t] = a]
        /\ a.status = record[t].status /\ s.pc \in {stream[t].pc, "card"}
    BY <1>0 DEF AgentCalled
  <1>3. stream \in [Turns -> StreamState] /\ record \in [Turns -> Audit] BY DEF ChatIInv, ChatShaped
  <1>4. \A u \in Turns : record'[u].status = record[u].status BY <1>2, <1>3
  <1>5. stream[t].pc # "lost" /\ s.pc # "lost" BY <1>1, <1>2
  <1>6. CASE s.sources = stream[t].sources /\ s.ran = stream[t].ran
    BY <1>1, <1>2, <1>4, <1>5, <1>6, Unseen
  <1>7. CASE /\ c \notin QuotaCalls \cup Unlisted /\ ScopeOf[c] \subseteq access
             /\ s.sources = stream[t].sources \cup ScopeOf[c]
             /\ s.ran = [stream[t].ran EXCEPT ![c] = @ + 1]
    <2>1. stream'[t] = s /\ \A u \in Turns \ {t} : stream'[u] = stream[u] BY <1>2, <1>3
    <2>2. UNCHANGED TurnStates BY <1>4, <1>5, <2>1 DEF TurnStates, StateOf
    <2>3. Learned' = [Learned EXCEPT ![t] = @ \cup ScopeOf[c]] BY <1>7, <2>1 DEF Learned
    <2>4. Ran' = [Ran EXCEPT ![t][c] = @ + 1] BY <1>7, <2>1 DEF Ran
    <2>5. TurnStates[t] = "running" /\ c \in Direct BY <1>1, <1>7, TurnRuns DEF Direct
    <2>6. Contract!Run(t, c) BY <1>1, <1>7, <2>2, <2>3, <2>4, <2>5 DEF Contract!Run
    <2>. QED BY <2>6
  <1>. QED BY <1>0, <1>6, <1>7 DEF AgentCalled

LEMMA AbandonStep ==
    ASSUME ChatIInv, NEW t \in Turns, stream[t].pc \notin {"none", "settled", "lost"},
           stream' = [stream EXCEPT ![t].pc = "lost"], UNCHANGED <<access, record, reply, gone>>
    PROVE  Contract!Abandon(t)
  <1>1. stream \in [Turns -> StreamState] BY DEF ChatIInv, ChatShaped
  <1>2. /\ stream'[t].pc = "lost" /\ stream'[t].ran = stream[t].ran /\ stream'[t].sources = stream[t].sources
        /\ \A u \in Turns \ {t} : stream'[u] = stream[u]
    BY <1>1 DEF StreamState
  <1>3. TurnStates' = [TurnStates EXCEPT ![t] = "abandoned"] BY <1>2 DEF TurnStates, StateOf
  <1>4. UNCHANGED <<Ran, Learned>> BY <1>2 DEF Ran, Learned
  <1>. QED BY <1>3, <1>4, TurnRuns DEF Contract!Abandon

LEMMA SettleStep ==
    ASSUME ChatIInv, NEW t \in Turns, stream[t].pc \in {"scoped"} \cup Told,
           NEW status \in SettledStatuses, NEW text \in Reply, text.from \subseteq stream[t].sources,
           status # "cancelled" => text.text,
           Settle(t, status, text), UNCHANGED <<access, gone>>
    PROVE  Contract!Abandon(t) \/ \E o \in SettledStatuses : Contract!Settle(t, o, reply'[t])
  <1>0. stream[t].pc \notin {"none", "settled", "lost"} BY DEF Told
  <1>1. CASE gone BY <1>0, <1>1, AbandonStep DEF Settle
  <1>2. CASE ~gone
    <2>1. /\ stream \in [Turns -> StreamState] /\ record \in [Turns -> Audit] /\ reply \in [Turns -> Reply]
      BY DEF ChatIInv, ChatShaped
    <2>2. /\ stream' = [stream EXCEPT ![t].pc = "settled"] /\ reply' = [reply EXCEPT ![t] = text]
          /\ record' = [record EXCEPT ![t].status = status, ![t].marker = ScopeKept(t)]
      BY <1>2 DEF Settle
    <2>3. /\ stream'[t].pc = "settled" /\ stream'[t].ran = stream[t].ran /\ stream'[t].sources = stream[t].sources
          /\ \A u \in Turns \ {t} : stream'[u] = stream[u]
      BY <2>1, <2>2 DEF StreamState
    <2>4. record'[t].status = status /\ \A u \in Turns \ {t} : record'[u] = record[u]
      BY <2>1, <2>2 DEF Audit
    <2>5. TurnStates' = [TurnStates EXCEPT ![t] = status] BY <2>3, <2>4 DEF TurnStates, StateOf
    <2>6. UNCHANGED <<Ran, Learned>> BY <2>3 DEF Ran, Learned
    <2>7. reply'[t] = text /\ text.from \subseteq Learned[t] BY <2>1, <2>2 DEF Learned
    <2>8. TurnStates[t] = "running" BY <1>0, TurnRuns
    <2>9. Contract!Settle(t, status, text) BY <1>2, <2>2, <2>5, <2>6, <2>7, <2>8 DEF Contract!Settle
    <2>. QED BY <2>7, <2>9
  <1>. QED BY <1>1, <1>2

LEMMA ContractStep ==
    ASSUME ChatIInv, [ChatNext]_chatVars PROVE [Contract!Next]_(Contract!vars)
  <1>1. ASSUME NEW t \in Turns, TurnStep(t) \/ Disconnect(t) PROVE [Contract!Next]_(Contract!vars)
    <2>1. CASE ReadHistory(t)
      <3>1. Quoted(t) \in SUBSET Turns BY DEF Quoted
      <3>. QED BY <2>1, <3>1, RecallStep DEF Contract!Next
    <2>2. CASE CallSucceeds(t) BY <2>2, RunStep DEF Contract!Next
    <2>3. CASE AnswerText(t) \/ AnswerFails(t) \/ QuotaToolMissing(t) \/ AwaitConfirmation(t)
                 \/ Summarize(t) \/ Disconnect(t)
      <3>1. Contract!Abandon(t) \/ \E o \in SettledStatuses : Contract!Settle(t, o, reply'[t])
        BY <2>3, EndsSettle, SettleStep
      <3>. QED BY <3>1 DEF Contract!Next
    <2>4. CASE ReadScope(t) \/ AnswerInvalid(t) \/ AnswerCalls(t) \/ StartCall(t) \/ CallFails(t)
                 \/ CallIsAnswered(t) \/ CallNeedsConfirmation(t) \/ AgentFinishes(t) \/ FinishRound(t)
      BY <2>4, UnseenSteps
    <2>5. CASE AgentCallSucceeds(t) \/ AgentCallFails(t) \/ AgentCallNeedsConfirmation(t)
      BY <2>5, AgentRunStep DEF Contract!Next
    <2>. QED BY <1>1, <2>1, <2>2, <2>3, <2>4, <2>5 DEF TurnStep
  <1>2. ASSUME NEW t \in Turns, Send(t) PROVE Contract!Next BY <1>2, BeginStep DEF Contract!Next
  <1>3. ASSUME NEW t \in Turns, Die(t) PROVE Contract!Next
    <2>1. stream[t].pc \notin {"none", "settled", "lost"} /\ stream' = [stream EXCEPT ![t].pc = "lost"]
          /\ UNCHANGED <<access, record, reply, gone>>
      BY <1>3 DEF Die
    <2>. QED BY <2>1, AbandonStep DEF Contract!Next
  <1>4. CASE LoseAccess
    <2>1. access' \subseteq access /\ UNCHANGED <<record, reply, stream, gone>> BY <1>4 DEF LoseAccess
    <2>2. UNCHANGED <<TurnStates, Ran, Learned>> BY <2>1 DEF TurnStates, StateOf, Ran, Learned
    <2>. QED BY <2>1, <2>2 DEF Contract!LoseAccess, Contract!Next
  <1>5. CASE DeleteConversation
    <2>1. gone' = TRUE /\ reply' = [t \in Turns |-> NoReply] /\ UNCHANGED <<access, record, stream>>
      BY <1>5 DEF DeleteConversation
    <2>2. UNCHANGED <<TurnStates, Ran, Learned>> BY <2>1 DEF TurnStates, StateOf, Ran, Learned
    <2>. QED BY <2>1, <2>2 DEF Contract!Delete, Contract!Next, Contract!NoAnswer, NoReply
  <1>6. CASE UNCHANGED chatVars
    <2>1. UNCHANGED <<access, record, reply, stream, gone>> BY <1>6 DEF chatVars
    <2>2. UNCHANGED <<TurnStates, Ran, Learned>> BY <2>1 DEF TurnStates, StateOf, Ran, Learned
    <2>. QED BY <2>1, <2>2 DEF Contract!vars
  <1>. QED BY <1>1, <1>2, <1>3, <1>4, <1>5, <1>6 DEF ChatNext

\* Whatever its model answers, its client does and its process meets, a turn executes what it may,
\* each call once unless an agent repeats it, and ends once with a reply of what it was told, for
\* any turns, calls and projects.
THEOREM ContractImplemented == ChatSpec => ImplementsContract
  <1>1. ChatInit => Contract!Init
    <2>. SUFFICES ASSUME ChatInit PROVE Contract!Init OBVIOUS
    <2>1. \A t \in Turns : /\ stream[t].pc = "none" /\ stream[t].ran = [c \in Calls |-> 0]
                           /\ stream[t].sources = {} /\ record[t].status = "none"
      BY DEF ChatInit, NotSent, NoAudit
    <2>2. /\ TurnStates = [t \in Turns |-> "none"] /\ Learned = [t \in Turns |-> {}]
          /\ Ran = [t \in Turns |-> [c \in Calls |-> 0]]
      BY <2>1 DEF TurnStates, StateOf, Learned, Ran
    <2>. QED BY <2>2 DEF ChatInit, Contract!Init, Contract!NoAnswer, NoReply
  <1>2. ChatIInv /\ [ChatNext]_chatVars => [Contract!Next]_(Contract!vars) BY ContractStep
  <1>. QED BY <1>1, <1>2, ChatInvariant, PTL DEF ChatSpec, ImplementsContract, Contract!Spec

-----------------------------------------------------------------------------
(***************************************************************************)
(* ProjectMembership.  Changes of the owner that do not overlap find in    *)
(* the project the owner that they replace (OwnerIsRead).                  *)
(***************************************************************************)

RequestRow == [pc : {"idle", "flush", "roles", "remove"},
               user : Users \cup {Nobody}, previous : Users \cup {Nobody}]

\* What a request is about, and who waits for the row of the project.
RequestsFit ==
    \A r \in ProjectRequests :
        /\ request[r].pc \in {"flush", "roles"} => request[r].user \in Users /\ request[r].previous \in Users
        /\ request[r].pc = "remove" => request[r].user \in Users
        /\ request[r].pc = "roles" <=> rowLock = r

\* Who has the row replaces the owner that it has read.
OwnerIsRead ==
    ~overlapped => \A r \in ProjectRequests : request[r].pc = "roles" => request[r].previous = owner

GrantsFit == granting <= ops

MemberIInv == MemberTypeOK /\ GrantsFit /\ RequestsFit /\ OwnerIsRead /\ AdminsAreAppointed

\* The directories' owners are users.
LEMMA OwnersAreUsers == ASSUME MemberTypeOK PROVE DirectoryOwners \subseteq Users
  BY DEF MemberTypeOK, DirectoryOwners

\* A grant makes readers only.
LEMMA GrantedRoles ==
  ASSUME MemberTypeOK, NEW S \in SUBSET Users
  PROVE  /\ Granted(S) \in [Users -> Roles \cup {"none"}]
         /\ \A u \in Users : Granted(S)[u] = "project_admin" <=> role[u] = "project_admin"
  BY DEF MemberTypeOK, Granted, Roles

LEMMA InitMemberIInv == MemberInit => MemberIInv
<1> SUFFICES ASSUME MemberInit PROVE MemberIInv
  OBVIOUS
<1>1. MemberTypeOK
  <2>1. owner \in Users /\ role \in [Users -> Roles \cup {"none"}] BY DEF MemberInit, Roles
  <2>2. request \in [ProjectRequests -> RequestRow] BY DEF MemberInit, RequestRow, NoRequest
  <2>3. grants.pc \in {"idle", "insert"} /\ grants.missing \subseteq Users
    BY DEF MemberInit, NotGranting
  <2>4. 0 \in 0..MaxOps BY MembershipAssumption
  <2> QED BY <2>1, <2>2, <2>3, <2>4 DEF MemberInit, MemberTypeOK, RequestRow
<1>2. RequestsFit /\ OwnerIsRead /\ GrantsFit
  BY MembershipAssumption DEF MemberInit, RequestsFit, OwnerIsRead, GrantsFit, NoRequest
<1>3. AdminsAreAppointed BY DEF MemberInit, AdminsAreAppointed, FormerOwners
<1> QED BY <1>1, <1>2, <1>3 DEF MemberIInv

\* Steps of requests that change neither roles nor owner.
LEMMA ReadStep ==
  ASSUME MemberIInv, NEW r \in ProjectRequests, NEW u \in Users,
         LoadProject(r, u) \/ CheckRemoval(r, u) \/ FlushOwner(r)
  PROVE  MemberIInv'
<1> USE DEF MemberIInv
<1>1. UNCHANGED <<owner, role, holder, bound, granting, grants, appointed>>
  BY DEF LoadProject, CheckRemoval, FlushOwner
<1>2. MemberTypeOK'
  <2>1. request' \in [ProjectRequests -> RequestRow]
    BY DEF MemberTypeOK, RequestRow, LoadProject, CheckRemoval, FlushOwner
  <2>2. rowLock' \in ProjectRequests \cup {Nobody} /\ overlapped' \in BOOLEAN
    BY DEF MemberTypeOK, LoadProject, CheckRemoval, FlushOwner
  <2>3. ops' \in 0..MaxOps
    BY MembershipAssumption DEF MemberTypeOK, LoadProject, CheckRemoval, FlushOwner, Starts
  <2> QED BY <1>1, <2>1, <2>2, <2>3 DEF MemberTypeOK, RequestRow
<1>3. GrantsFit'
  BY <1>1, MembershipAssumption DEF MemberTypeOK, GrantsFit, LoadProject, CheckRemoval, FlushOwner, Starts
<1>4. RequestsFit'
  <2>1. CASE LoadProject(r, u)
    BY <2>1, MembershipAssumption DEF MemberTypeOK, RequestsFit, LoadProject
  <2>2. CASE CheckRemoval(r, u)
    BY <2>2, MembershipAssumption DEF MemberTypeOK, RequestsFit, CheckRemoval
  <2>3. CASE FlushOwner(r)
    BY <2>3, MembershipAssumption DEF MemberTypeOK, RequestsFit, FlushOwner
  <2> QED BY <2>1, <2>2, <2>3
<1>5. OwnerIsRead'
  <2>1. CASE LoadProject(r, u) BY <2>1 DEF MemberTypeOK, OwnerIsRead, LoadProject
  <2>2. CASE CheckRemoval(r, u) BY <2>2 DEF MemberTypeOK, OwnerIsRead, CheckRemoval
  <2>3. CASE FlushOwner(r)
    BY <2>3, MembershipAssumption DEF MemberTypeOK, OwnerIsRead, RequestsFit, FlushOwner
  <2> QED BY <2>1, <2>2, <2>3
<1>6. AdminsAreAppointed'
  BY <1>1 DEF AdminsAreAppointed, FormerOwners, LoadProject, CheckRemoval, FlushOwner
<1> QED BY <1>2, <1>3, <1>4, <1>5, <1>6

LEMMA CommitOwnerStep ==
  ASSUME MemberIInv, NEW r \in ProjectRequests, CommitOwner(r) PROVE MemberIInv'
<1> USE DEF MemberIInv
<1> DEFINE new == request[r].user
           previous == request[r].previous
<1>1. /\ request[r].pc = "roles" /\ new \in Users /\ previous \in Users
      /\ owner' = (IF previous # new THEN new ELSE owner)
      /\ rowLock' = Nobody /\ request' = [request EXCEPT ![r] = NoRequest]
      /\ appointed' = IF previous # new THEN appointed \ {previous} ELSE appointed
      /\ role' = [u \in Users |-> CASE u = new -> "project_admin"
                                    [] u = previous /\ previous # new -> StepDown(u)
                                    [] OTHER -> role[u]]
      /\ UNCHANGED <<holder, bound, granting, grants, overlapped, ops>>
  BY DEF CommitOwner, RequestsFit
<1>2. StepDown(previous) \in {"reader", "none", "editor"}
  BY <1>1 DEF StepDown, MemberTypeOK, Roles
<1>3. MemberTypeOK'
  <2>1. role' \in [Users -> Roles \cup {"none"}] BY <1>1, <1>2 DEF MemberTypeOK, Roles
  <2> QED BY <1>1, <2>1 DEF MemberTypeOK, NoRequest
<1>4. GrantsFit' BY <1>1 DEF GrantsFit
<1>5. RequestsFit'
  BY <1>1, MembershipAssumption DEF MemberTypeOK, RequestsFit, NoRequest
<1>6. OwnerIsRead'
  BY <1>1 DEF MemberTypeOK, OwnerIsRead, RequestsFit, NoRequest
<1>7. AdminsAreAppointed'
  <2> SUFFICES ASSUME ~overlapped, NEW u \in Users, u # owner', role'[u] = "project_admin"
               PROVE  u \in appointed'
    BY <1>1 DEF AdminsAreAppointed, FormerOwners
  <2>1. previous = owner /\ owner' = new BY <1>1 DEF OwnerIsRead
  <2>2. u # previous BY <1>1, <1>2, <2>1
  <2>3. role[u] = "project_admin" /\ u # owner BY <1>1, <2>1, <2>2
  <2> QED BY <1>1, <2>2, <2>3 DEF AdminsAreAppointed, FormerOwners
<1> QED BY <1>3, <1>4, <1>5, <1>6, <1>7

LEMMA RoleStep ==
  ASSUME MemberIInv, NEW u \in Users, SetRole(u) PROVE MemberIInv'
<1> USE DEF MemberIInv
<1>1. PICK super \in Managers, new \in Roles :
         /\ MayAssign(super, new) /\ role' = [role EXCEPT ![u] = new]
         /\ appointed' = IF super /\ new = "project_admin" THEN appointed \cup {u} ELSE appointed \ {u}
  BY DEF SetRole
<1>2. Starts /\ UNCHANGED <<owner, holder, bound, request, rowLock, granting, grants, overlapped>>
  BY DEF SetRole
<1>3. MemberTypeOK' BY <1>1, <1>2, MembershipAssumption DEF MemberTypeOK, Starts
<1>4. RequestsFit' /\ OwnerIsRead' BY <1>2 DEF RequestsFit, OwnerIsRead
<1>5. GrantsFit' BY <1>2 DEF MemberTypeOK, GrantsFit, Starts
<1>6. super \in BOOLEAN BY DEF Managers
<1>7. AdminsAreAppointed'
  BY <1>1, <1>2, <1>6 DEF AdminsAreAppointed, FormerOwners, MemberTypeOK, MayAssign
<1> QED BY <1>3, <1>4, <1>5, <1>7

LEMMA CommitRemovalStep ==
  ASSUME MemberIInv, NEW r \in ProjectRequests, CommitRemoval(r) PROVE MemberIInv'
<1> USE DEF MemberIInv
<1>1. /\ request[r].pc = "remove" /\ request[r].user \in Users
      /\ role' = [role EXCEPT ![request[r].user] = "none"]
      /\ appointed' = appointed \ {request[r].user} /\ request' = [request EXCEPT ![r] = NoRequest]
      /\ UNCHANGED <<owner, holder, bound, rowLock, granting, grants, overlapped, ops>>
  BY DEF CommitRemoval, RequestsFit
<1>2. MemberTypeOK' BY <1>1 DEF MemberTypeOK, NoRequest
<1>3. RequestsFit' /\ OwnerIsRead' /\ GrantsFit'
  BY <1>1 DEF MemberTypeOK, RequestsFit, OwnerIsRead, GrantsFit, NoRequest
<1>4. AdminsAreAppointed' BY <1>1 DEF AdminsAreAppointed, FormerOwners, MemberTypeOK
<1> QED BY <1>2, <1>3, <1>4

\* Directories, groups and rounds.
LEMMA DirectoryStep ==
  ASSUME MemberIInv,
         (\E d \in Directories, u \in Users \cup {Nobody} : AssignDirectory(d, u)) \/ BindGroup \/ LoseGrant
         \/ RoundReads
  PROVE  MemberIInv'
<1> USE DEF MemberIInv
<1>1. UNCHANGED <<owner, role, request, rowLock, appointed, overlapped>>
  BY DEF AssignDirectory, BindGroup, LoseGrant, RoundReads
<1>2. granting \in Nat /\ ops \in Nat /\ granting <= ops /\ MaxOps \in Nat
  BY MembershipAssumption DEF MemberTypeOK, GrantsFit
<1>3. GrantsFit' /\ granting' \in 0..MaxOps /\ ops' \in 0..MaxOps
  BY <1>2 DEF GrantsFit, MemberTypeOK, AssignDirectory, BindGroup, LoseGrant, RoundReads, Starts
<1>4. grants'.pc \in {"idle", "insert"} /\ grants'.missing \subseteq Users
  BY OwnersAreUsers DEF MemberTypeOK, AssignDirectory, BindGroup, LoseGrant, RoundReads, Missing
<1>5. holder' \in [Directories -> Users \cup {Nobody}] /\ bound' \in BOOLEAN
  BY DEF MemberTypeOK, AssignDirectory, BindGroup, LoseGrant, RoundReads
<1>6. MemberTypeOK' BY <1>1, <1>3, <1>4, <1>5 DEF MemberTypeOK
<1>7. RequestsFit' /\ OwnerIsRead' /\ AdminsAreAppointed'
  BY <1>1 DEF RequestsFit, OwnerIsRead, AdminsAreAppointed, FormerOwners
<1> QED BY <1>3, <1>6, <1>7

LEMMA GrantStep ==
  ASSUME MemberIInv, GrantReaders \/ RoundInserts PROVE MemberIInv'
<1> USE DEF MemberIInv
<1>1. UNCHANGED <<owner, holder, bound, request, rowLock, appointed, overlapped, ops>>
  BY DEF GrantReaders, RoundInserts
<1>2. /\ role' \in [Users -> Roles \cup {"none"}]
      /\ \A u \in Users : role'[u] = "project_admin" <=> role[u] = "project_admin"
  <2>1. CASE GrantReaders BY <2>1, OwnersAreUsers, GrantedRoles DEF GrantReaders
  <2>2. CASE RoundInserts
    <3>1. grants.missing \in SUBSET Users BY DEF MemberTypeOK
    <3>2. role' = role \/ role' = Granted(grants.missing) BY <2>2 DEF RoundInserts
    <3> QED BY <3>1, <3>2, GrantedRoles DEF MemberTypeOK
  <2> QED BY <2>1, <2>2
<1>3. granting' \in 0..MaxOps /\ GrantsFit'
  <2>1. granting \in 0..MaxOps /\ granting <= ops /\ ops \in 0..MaxOps /\ MaxOps \in Nat
    BY MembershipAssumption DEF MemberTypeOK, GrantsFit
  <2>2. granting' = granting \/ (granting > 0 /\ granting' = granting - 1)
    BY DEF GrantReaders, RoundInserts
  <2> QED BY <1>1, <2>1, <2>2 DEF GrantsFit
<1>4. grants'.pc \in {"idle", "insert"} /\ grants'.missing \subseteq Users
  BY DEF GrantReaders, RoundInserts, MemberTypeOK, NotGranting
<1>5. MemberTypeOK' BY <1>1, <1>2, <1>3, <1>4 DEF MemberTypeOK
<1>6. RequestsFit' /\ OwnerIsRead' BY <1>1 DEF RequestsFit, OwnerIsRead
<1>7. AdminsAreAppointed' BY <1>1, <1>2 DEF AdminsAreAppointed, FormerOwners
<1> QED BY <1>3, <1>5, <1>6, <1>7

LEMMA NextMemberIInv == MemberIInv /\ [MemberNext]_memberVars => MemberIInv'
<1> SUFFICES ASSUME MemberIInv, [MemberNext]_memberVars PROVE MemberIInv'
  OBVIOUS
<1>1. CASE \E r \in ProjectRequests, u \in Users : LoadProject(r, u) \/ CheckRemoval(r, u)
  BY <1>1, ReadStep
<1>2. CASE \E r \in ProjectRequests : FlushOwner(r)
  <2>1. owner \in Users BY DEF MemberIInv, MemberTypeOK
  <2> QED BY <1>2, <2>1, ReadStep
<1>3. CASE \E r \in ProjectRequests : CommitOwner(r) \/ CommitRemoval(r)
  BY <1>3, CommitOwnerStep, CommitRemovalStep
<1>4. CASE \E u \in Users : SetRole(u)
  BY <1>4, RoleStep
<1>5. CASE (\E d \in Directories, u \in Users \cup {Nobody} : AssignDirectory(d, u))
           \/ BindGroup \/ LoseGrant \/ RoundReads
  BY <1>5, DirectoryStep
<1>6. CASE GrantReaders \/ RoundInserts
  BY <1>6, GrantStep
<1>7. CASE UNCHANGED memberVars
  BY <1>7 DEF memberVars, MemberIInv, MemberTypeOK, GrantsFit, RequestsFit, OwnerIsRead,
              AdminsAreAppointed, FormerOwners
<1> QED BY <1>1, <1>2, <1>3, <1>4, <1>5, <1>6, <1>7 DEF MemberNext

\* Owner, roles, open requests and the grant in progress keep their types.
THEOREM MemberTypeCorrect == MemberSpec => []MemberTypeOK
<1>1. MemberIInv => MemberTypeOK BY DEF MemberIInv
<1> QED BY InitMemberIInv, NextMemberIInv, <1>1, PTL DEF MemberSpec

\* As long as no two changes of the owner overlap, a project administrator is the owner or was
\* appointed, for any users, directories and requests.
THEOREM FormerOwnersStepDown == MemberSpec => []AdminsAreAppointed
<1>1. MemberIInv => AdminsAreAppointed BY DEF MemberIInv
<1> QED BY InitMemberIInv, NextMemberIInv, <1>1, PTL DEF MemberSpec
=============================================================================
