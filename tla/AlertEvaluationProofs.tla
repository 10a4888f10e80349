----------------------- MODULE AlertEvaluationProofs -----------------------
(***************************************************************************)
(* Theorems about AlertEvaluation, for every set of targets, evaluators    *)
(* and rules and every bound on time.                                      *)
(***************************************************************************)
EXTENDS AlertEvaluation, TLAPS

\* The count of a state row says whether an alert is open.
CountFits(s) == (s.level # NoLevel) <=> (s.count = 2)

\* What stands in the state row is what the last observations say.
RowFollowsHistory(t) ==
    /\ state[t] = NoState <=> seen[t] = <<>>
    /\ state[t] # NoState =>
         LET last == seen[t][Len(seen[t])]
         IN /\ CountFits(state[t])
            /\ last.at = state[t].observed
            /\ last.rule = state[t].rule
            /\ last.breach <=> state[t].count > 0
            /\ TwoBreaches(t) <=> state[t].count = 2

\* An outcome steps from the committed row of its target.
OutcomeFollowsRow(e, d) ==
    /\ d.state.observed = ev[e].at
    /\ d.state.rule = d.rule
    /\ CountFits(d.state)
    /\ d.breach <=> d.state.count > 0
    /\ state[d.target] # NoState => state[d.target].observed < ev[e].at
    /\ d.state.count = 2 <=>
         /\ d.breach
         /\ state[d.target] # NoState
         /\ state[d.target].rule = d.rule
         /\ state[d.target].count > 0

Obs == [at : 1..MaxTime, src : 0..MaxTime, rule : Rules, breach : BOOLEAN]

EvInv == \A e \in Evaluators : ev[e].pc # "idle" => ev[e].at \in 1..MaxTime

\* While an evaluator holds an outcome, nobody else can step the row.
DraftInv ==
    \A e \in Evaluators : \A d \in ev[e].draft :
        rowLock[d.target] = e /\ OutcomeFollowsRow(e, d)
HistoryInv ==
    /\ seen \in [Targets -> Seq(Obs)]
    /\ \A t \in Targets : RowFollowsHistory(t)

IInv == TypeOK /\ EvInv /\ DraftInv /\ HistoryInv /\ ObservationsInOrder

-----------------------------------------------------------------------------
(* The transition of one target                                            *)

LEMMA LevelType ==
  ASSUME NEW r \in Rules, NEW q \in Nat
  PROVE  Level(r, q) \in Levels \cup {NoLevel}
  <1> DEFINE S == {NoLevel} \cup {l \in Levels : q >= r.threshold[l]}
  <1>1. S \subseteq {0, 1, 2, 3} /\ 0 \in S /\ S \subseteq Levels \cup {NoLevel}
    BY DEF Levels, NoLevel
  <1>2. \E x \in S : \A y \in S : x >= y
    <2>1. CASE 3 \in S
      BY <1>1, <2>1
    <2>2. CASE 3 \notin S /\ 2 \in S
      BY <1>1, <2>2
    <2>3. CASE 3 \notin S /\ 2 \notin S /\ 1 \in S
      BY <1>1, <2>3
    <2>4. CASE 3 \notin S /\ 2 \notin S /\ 1 \notin S
      BY <1>1, <2>4
    <2> QED BY <2>1, <2>2, <2>3, <2>4
  <1>3. Max(S) \in S
    BY <1>2 DEF Max
  <1>4. Level(r, q) = Max(S)
    BY DEF Level
  <1>5. Level(r, q) \in S
    BY <1>3, <1>4
  <1> QED BY <1>1, <1>5

\* The shape of the row that a step leaves behind.
Stepped(next, r, at, level, count) ==
    /\ next.state \in StateRow
    /\ next.event \in Events
    /\ next.level \in Levels \cup {NoLevel}
    /\ next.state.rule = r
    /\ next.state.observed = at
    /\ next.state.level = level
    /\ next.state.count = count

\* Advance, case by case.
LEMMA AdvanceStep ==
  ASSUME NEW s \in StateRow, CountFits(s),
         NEW level \in Levels \cup {NoLevel}, NEW at \in 1..MaxTime
  PROVE  LET next == Advance(s, s.rule, level, at) IN
         IF level = NoLevel THEN Stepped(next, s.rule, at, NoLevel, 0)
         ELSE IF s.count = 0 THEN Stepped(next, s.rule, at, NoLevel, 1)
         ELSE Stepped(next, s.rule, at, level, 2)
  <1> DEFINE t == [s EXCEPT !.observed = at]
             next == Advance(s, s.rule, level, at)
  <1>1. /\ t \in StateRow
        /\ t.observed = at /\ t.rule = s.rule
        /\ t.count = s.count /\ t.level = s.level /\ t.notified = s.notified
    BY DEF StateRow
  <1> HIDE DEF t, next
  <1>2. s.level \in 0..3 /\ s.count \in 0..2 /\ level \in 0..3
    BY DEF StateRow, Levels, NoLevel
  <1>3. ASSUME NEW u \in StateRow
        PROVE  LET v == Closed(u)
               IN /\ v \in StateRow /\ v.count = 0 /\ v.level = NoLevel
                  /\ v.rule = u.rule /\ v.observed = u.observed
    <2>1. PICK c \in 0..2 : c = 0
      OBVIOUS
    <2>2. PICK l \in Levels \cup {NoLevel} : l = NoLevel
      OBVIOUS
    <2>3. Closed(u) = [u EXCEPT !.count = c, !.level = l]
      BY <2>1, <2>2 DEF Closed
    <2>4. LET v == [u EXCEPT !.count = c, !.level = l]
          IN /\ v \in StateRow /\ v.count = c /\ v.level = l
             /\ v.rule = u.rule /\ v.observed = u.observed
      BY DEF StateRow
    <2> QED BY <2>1, <2>2, <2>3, <2>4
  <1>4. ASSUME NEW u \in StateRow, NEW l \in Levels \cup {NoLevel}
        PROVE  LET v == Told(u, l, at)
               IN /\ v \in StateRow /\ v.level = l
                  /\ v.rule = u.rule /\ v.count = u.count /\ v.observed = u.observed
    BY DEF Told, StateRow
  <1>6. CASE level = NoLevel
    <2>1. next = Quiet(t)
      BY <1>6 DEF Advance, next, t
    <2> DEFINE u == Closed(t)
    <2>2. u \in StateRow /\ u.count = 0 /\ u.level = NoLevel /\ u.observed = at /\ u.rule = s.rule
      BY <1>1, <1>3
    <2>3. next = Silent(u) \/ next = Raise(u, "recovery", NoLevel)
      BY <2>1 DEF Quiet
    <2> HIDE DEF u
    <2>4. Stepped(next, s.rule, at, NoLevel, 0)
      BY <2>2, <2>3 DEF Stepped, Silent, Raise, Events, NoEvent
    <2> QED BY <1>6, <2>4 DEF next
  <1>7. CASE level # NoLevel /\ s.level = NoLevel
    <2>1. next = Breach(t, level, at)
      BY <1>2, <1>7 DEF Advance, next, t, NoLevel
    <2>2. s.count \in {0, 1}
      BY <1>2, <1>7 DEF CountFits
    <2> DEFINE u == [t EXCEPT !.count = s.count + 1]
    <2>3. /\ u \in StateRow /\ u.count = s.count + 1 /\ u.level = NoLevel
          /\ u.observed = at /\ u.rule = s.rule
      BY <1>1, <1>7, <2>2 DEF StateRow
    <2>4. next = IF u.count < 2 THEN Silent(u) ELSE Raise(Told(u, level, at), "trigger", level)
      BY <1>1, <2>1 DEF Breach
    <2> HIDE DEF u
    <2>5. CASE s.count = 0
      <3>1. next = Silent(u)
        BY <2>3, <2>4, <2>5
      <3>2. Stepped(Silent(u), s.rule, at, NoLevel, 1)
        BY <2>3, <2>5 DEF Stepped, Silent, Events, NoEvent
      <3> QED BY <1>7, <2>5, <3>1, <3>2 DEF next
    <2>6. CASE s.count = 1
      <3> DEFINE v == Told(u, level, at)
      <3>1. next = Raise(v, "trigger", level)
        BY <2>3, <2>4, <2>6
      <3>2. /\ v \in StateRow /\ v.count = 2 /\ v.level = level
            /\ v.observed = at /\ v.rule = s.rule
        BY <2>3, <2>6, <1>4
      <3> HIDE DEF v
      <3>3. Stepped(Raise(v, "trigger", level), s.rule, at, level, 2)
        BY <3>2 DEF Stepped, Raise, Events, Notifying
      <3> QED BY <1>7, <2>6, <3>1, <3>3 DEF next
    <2> QED BY <2>2, <2>5, <2>6
  <1>8. CASE level # NoLevel /\ s.level # NoLevel
    <2>1. s.count = 2
      BY <1>8 DEF CountFits
    <2> DEFINE u == Told(t, level, at)
               v == [t EXCEPT !.level = level]
    <2>2. u \in StateRow /\ u.count = 2 /\ u.level = level /\ u.observed = at /\ u.rule = s.rule
      BY <1>1, <2>1, <1>4
    <2>3. v \in StateRow /\ v.count = 2 /\ v.level = level /\ v.observed = at /\ v.rule = s.rule
      BY <1>1, <2>1 DEF StateRow
    <2>4. \/ next = Raise(u, "escalation", level)
          \/ next = Silent(v)
          \/ next = Raise(u, "repeat", level)
          \/ next = Silent(t) /\ level = s.level
      <3>1. CASE level > s.level
        BY <1>2, <1>8, <3>1 DEF Advance, Escalate, next, t
      <3>2. CASE level < s.level
        BY <1>2, <1>8, <3>2 DEF Advance, next, t
      <3>3. CASE level = s.level
        BY <1>2, <1>8, <3>3 DEF Advance, Persist, next, t
      <3> QED BY <1>2, <3>1, <3>2, <3>3
    <2> HIDE DEF u, v
    <2>5. Stepped(next, s.rule, at, level, 2)
      BY <1>1, <2>1, <2>2, <2>3, <2>4 DEF Stepped, Silent, Raise, Events, Notifying, NoEvent
    <2> QED BY <1>8, <2>1, <2>5 DEF next
  <1> QED BY <1>6, <1>7, <1>8

\* Transition, for a target with a ratio.
LEMMA TransitionStep ==
  ASSUME NEW s \in StateRow \cup {NoState}, s # NoState => CountFits(s),
         NEW r \in Rules, NEW q \in Nat, NEW at \in 1..MaxTime,
         ~ Transition(s, r, q, at).skipped
  PROVE  LET next == Transition(s, r, q, at)
             old == s # NoState /\ s.rule = r
         IN /\ s # NoState => s.observed < at
            /\ \/ Level(r, q) = NoLevel /\ Stepped(next, r, at, NoLevel, 0)
               \/ /\ Level(r, q) # NoLevel
                  /\ ~ old \/ s.count = 0
                  /\ Stepped(next, r, at, NoLevel, 1)
               \/ /\ Level(r, q) # NoLevel
                  /\ old /\ s.count > 0
                  /\ Stepped(next, r, at, Level(r, q), 2)
  <1> DEFINE level == Level(r, q)
             next == Transition(s, r, q, at)
  <1>1. level \in Levels \cup {NoLevel}
    BY LevelType
  <1>2. q # NoRatio
    BY MarkersAssumption
  <1>3. ~ IsStale(s, at)
    BY <1>2 DEF Transition, Skipped
  <1>4. s # NoState => s.observed < at
    BY <1>3, BoundsAssumption DEF IsStale, StateRow
  <1>5. CASE s = NoState \/ s.rule # r
    <2>1. next = Silent(FreshState(r, level, at))
      BY <1>2, <1>3, <1>5 DEF Transition
    <2> HIDE DEF level, next
    <2>2. IF level = NoLevel THEN Stepped(next, r, at, NoLevel, 0)
          ELSE Stepped(next, r, at, NoLevel, 1)
      BY <2>1 DEF Silent, FreshState, Stepped, StateRow, Levels, NoLevel, Events, NoEvent
    <2> QED BY <1>4, <1>5, <2>2 DEF level, next
  <1>6. CASE s # NoState /\ s.rule = r
    <2>1. next = Advance(s, s.rule, level, at)
      BY <1>2, <1>3, <1>6 DEF Transition
    <2>2. s \in StateRow /\ CountFits(s) /\ s.count \in 0..2
      BY <1>6 DEF StateRow
    <2> HIDE DEF level, next
    <2>3. IF level = NoLevel THEN Stepped(next, s.rule, at, NoLevel, 0)
          ELSE IF s.count = 0 THEN Stepped(next, s.rule, at, NoLevel, 1)
          ELSE Stepped(next, s.rule, at, level, 2)
      BY <1>1, <2>1, <2>2, AdvanceStep
    <2> QED BY <1>4, <1>6, <2>2, <2>3 DEF level, next
  <1> QED BY <1>5, <1>6
-----------------------------------------------------------------------------
(* The inductive invariant                                                 *)

LEMMA RestingType == Resting \in Evaluation
  BY BoundsAssumption DEF Resting, Evaluation, Stages

LEMMA CompletedType ==
  ASSUME TypeOK, NEW e \in Evaluators
  PROVE  Completed(e) \in Evaluation
  BY RestingType DEF TypeOK, Completed, Resting, Evaluation, Stages

LEMMA InvInit == Init => IInv
  <1> SUFFICES ASSUME Init PROVE IInv
    OBVIOUS
  <1>1. TypeOK
    BY RestingType, BoundsAssumption DEF Init, TypeOK, NoRow
  <1>2. EvInv /\ DraftInv
    BY DEF Init, EvInv, DraftInv, Resting
  <1>3. HistoryInv /\ ObservationsInOrder
    BY DEF Init, HistoryInv, RowFollowsHistory, ObservationsInOrder
  <1> QED BY <1>1, <1>2, <1>3 DEF IInv

Row(c) == [at : 0..c, ratio : Ratios \cup {NoRatio}, src : 0..c]

\* The part of TypeOK about what evaluators only read.
InputOK ==
    /\ clock \in 0..MaxTime
    /\ round \in 0..clock
    /\ pending \subseteq Dated
    /\ row \in [Targets -> Row(clock)]
    /\ rule \in [Targets -> Rules]
    /\ changes \in 0..MaxRuleChanges

\* Collection, quota adjustments and administration.
InputNext ==
    \/ StartRound \/ CommitCluster \/ FinalizeProjects
    \/ \E t \in Dated : QuotaSync(t)
    \/ \E t \in Projects : EditProject(t)
    \/ \E t \in Targets : ChangeRule(t)

LEMMA InputType == InputOK /\ InputNext => InputOK'
  <1> SUFFICES ASSUME InputOK, InputNext PROVE InputOK'
    OBVIOUS
  <1>1. \A x \in Row(clock) : \A d \in Nat :
          d >= clock => x \in Row(d) /\ \A c \in 0..d : [x EXCEPT !.at = c] \in Row(d)
    BY DEF InputOK, Row
  <1>2. \A values, t : t \in Targets /\ (\A y \in DOMAIN values : values[y] \in Ratios)
          => Refreshed(values)[t] \in Row(clock)
    BY BoundsAssumption DEF Refreshed, Row, InputOK
  <1>3. clock < MaxTime => row \in [Targets -> Row(clock + 1)] /\ clock + 1 \in 0..MaxTime
    BY <1>1, BoundsAssumption DEF InputOK
  <1>4. CASE StartRound
    <2>1. clock' = clock + 1 /\ round' \in 0..clock' /\ pending' = Dated
      BY <1>4, BoundsAssumption DEF StartRound, InputOK
    <2>2. row' \in [Targets -> Row(clock + 1)]
      BY <1>3, <1>4 DEF StartRound
    <2>3. clock' \in 0..MaxTime /\ pending' \subseteq Dated
      BY <1>3, <1>4, <2>1 DEF StartRound
    <2>4. rule' = rule /\ changes' = changes
      BY <1>4 DEF StartRound
    <2> QED BY <2>1, <2>2, <2>3, <2>4 DEF InputOK
  <1>5. CASE CommitCluster
    <2>0. PICK S \in SUBSET pending \ {{}} :
            \E kept \in SUBSET {t \in S : row[t].at > round} :
              \E values \in [S \ kept -> Ratios] :
                /\ row' = [t \in Targets |-> IF t \in kept THEN [row[t] EXCEPT !.at = round]
                                             ELSE Refreshed(values)[t]]
                /\ pending' = pending \ S
      BY <1>5 DEF CommitCluster
    <2>1. PICK kept, values :
            /\ \A t \in DOMAIN values : values[t] \in Ratios
            /\ row' = [t \in Targets |-> IF t \in kept THEN [row[t] EXCEPT !.at = round]
                                         ELSE Refreshed(values)[t]]
            /\ pending' = pending \ S
      BY <2>0
    <2>2. \A t \in Targets : Refreshed(values)[t] \in Row(clock)
      BY <1>2, <2>1
    <2>3. \A t \in Targets : [row[t] EXCEPT !.at = round] \in Row(clock)
      BY <1>1, BoundsAssumption DEF InputOK
    <2>4. row' \in [Targets -> Row(clock)]
      BY <2>1, <2>2, <2>3
    <2> QED BY <1>5, <2>1, <2>4 DEF CommitCluster, InputOK
  <1>6. CASE FinalizeProjects
    <2>1. PICK values :
            (\A t \in DOMAIN values : values[t] \in Ratios) /\ row' = Refreshed(values)
      BY <1>6 DEF FinalizeProjects
    <2>2. \A t \in Targets : Refreshed(values)[t] \in Row(clock)
      BY <1>2, <2>1
    <2>3. row' \in [Targets -> Row(clock)]
      BY <2>1, <2>2 DEF Refreshed
    <2> QED BY <1>6, <2>3, BoundsAssumption DEF FinalizeProjects, InputOK
  <1>7. ASSUME NEW t \in Dated, QuotaSync(t) PROVE InputOK'
    <2>1. \A q \in Ratios :
            [at |-> clock + 1, ratio |-> q, src |-> clock + 1] \in Row(clock + 1)
      BY DEF InputOK, Row
    <2>2. row' \in [Targets -> Row(clock + 1)]
      BY <1>3, <1>7, <2>1 DEF QuotaSync
    <2> QED BY <1>3, <1>7, <2>2 DEF QuotaSync, InputOK
  <1>8. ASSUME NEW t \in Projects, EditProject(t) PROVE InputOK'
    <2>1. [row[t] EXCEPT !.at = clock + 1] \in Row(clock + 1)
      BY <1>1, BoundsAssumption DEF InputOK, Targets
    <2>2. row' \in [Targets -> Row(clock + 1)]
      BY <1>3, <1>8, <2>1 DEF EditProject
    <2>3. rule' \in [Targets -> Rules] /\ changes' \in 0..MaxRuleChanges
      BY <1>8, BoundsAssumption DEF EditProject, InputOK
    <2> QED BY <1>3, <1>8, <2>2, <2>3 DEF EditProject, InputOK
  <1>9. ASSUME NEW t \in Targets, ChangeRule(t) PROVE InputOK'
    BY <1>9, BoundsAssumption DEF ChangeRule, InputOK
  <1> QED BY <1>4, <1>5, <1>6, <1>7, <1>8, <1>9 DEF InputNext

\* The histories and the rows they belong to.
LEMMA HistoryUnchanged ==
  ASSUME HistoryInv, ObservationsInOrder, UNCHANGED <<state, seen>>
  PROVE  HistoryInv' /\ ObservationsInOrder'
  BY DEF HistoryInv, ObservationsInOrder, RowFollowsHistory, TwoBreaches

LEMMA InputStep == IInv /\ InputNext => IInv'
  <1> SUFFICES ASSUME IInv, InputNext PROVE IInv'
    OBVIOUS
  <1>1. UNCHANGED <<state, lock, rowLock, ev, seen, log>>
    BY DEF InputNext, StartRound, CommitCluster, FinalizeProjects, QuotaSync, EditProject,
           ChangeRule, dbVars
  <1>2. InputOK'
    BY InputType DEF IInv, TypeOK, InputOK, Row
  <1>3. TypeOK'
    BY <1>1, <1>2 DEF IInv, TypeOK, InputOK, Row
  <1>4. EvInv' /\ DraftInv'
    BY <1>1 DEF IInv, EvInv, DraftInv, OutcomeFollowsRow
  <1> QED BY <1>1, <1>3, <1>4, HistoryUnchanged DEF IInv

\* An evaluator that rests or begins has no outcomes; the others keep theirs.
LEMMA QuietStep ==
  ASSUME IInv, NEW e \in Evaluators, NEW x \in Evaluation,
         x.draft = {}, x.pc # "idle" => x.at \in 1..MaxTime,
         ev' = [ev EXCEPT ![e] = x],
         rowLock' = rowLock \/ rowLock' = Unlock(e),
         lock' \in Evaluators \cup {NoOne},
         UNCHANGED <<inputVars, dbVars>>
  PROVE  IInv'
  <1>1. \A f \in Evaluators : ev'[f] = IF f = e THEN x ELSE ev[f]
    BY DEF IInv, TypeOK
  <1>2. rowLock' \in [Targets -> Evaluators \cup {NoOne}]
    BY DEF IInv, TypeOK, Unlock
  <1>3. TypeOK'
    <2>1. ev' \in [Evaluators -> Evaluation]
      BY DEF IInv, TypeOK
    <2> QED BY <1>2, <2>1 DEF IInv, TypeOK, inputVars, dbVars
  <1>4. EvInv'
    BY <1>1 DEF IInv, EvInv
  <1>5. DraftInv'
    <2> SUFFICES ASSUME NEW f \in Evaluators, NEW d \in ev'[f].draft
                 PROVE  rowLock'[d.target] = f /\ OutcomeFollowsRow(f, d)'
      BY DEF DraftInv
    <2>1. f # e /\ ev'[f] = ev[f] /\ d \in ev[f].draft
      BY <1>1
    <2>2. rowLock[d.target] = f /\ OutcomeFollowsRow(f, d)
      BY <2>1 DEF IInv, DraftInv
    <2>3. d.target \in Targets
      BY <2>1 DEF IInv, TypeOK, Evaluation, Entry
    <2>4. rowLock'[d.target] = rowLock[d.target]
      BY <2>1, <2>2, <2>3 DEF Unlock
    <2> QED BY <2>1, <2>2, <2>4 DEF OutcomeFollowsRow, dbVars
  <1> QED BY <1>3, <1>4, <1>5, HistoryUnchanged DEF IInv, dbVars

LEMMA BeginStep ==
  ASSUME IInv, NEW e \in Evaluators, Begin(e)
  PROVE  IInv'
  <1>1. PICK at \in 1..clock :
          ev' = [ev EXCEPT ![e] = [pc |-> "sampled", at |-> at, ids |-> SampleIds(at),
                                  todo |-> {}, draft |-> {}]]
    BY DEF Begin
  <1> DEFINE x == [pc |-> "sampled", at |-> at, ids |-> SampleIds(at), todo |-> {}, draft |-> {}]
  <1>2. at \in 1..MaxTime
    BY BoundsAssumption DEF IInv, TypeOK
  <1>3. x \in Evaluation
    BY <1>2, BoundsAssumption DEF Evaluation, Stages, SampleIds
  <1>4. x.draft = {} /\ x.at \in 1..MaxTime
    BY <1>2
  <1> HIDE DEF x
  <1>5. ev' = [ev EXCEPT ![e] = x]
    BY <1>1 DEF x
  <1> QED BY <1>3, <1>4, <1>5, QuietStep DEF Begin

LEMMA AbortStep ==
  ASSUME IInv, NEW e \in Evaluators, Abort(e)
  PROVE  IInv'
  <1>1. lock' \in Evaluators \cup {NoOne}
    BY DEF Abort, IInv, TypeOK
  <1>2. Resting.draft = {} /\ Resting.pc = "idle"
    BY DEF Resting
  <1> QED BY <1>1, <1>2, RestingType, QuietStep DEF Abort

LEMMA LoadAny ==
  ASSUME IInv, NEW e \in Evaluators,
         NEW before \in Stages \ {"idle"}, NEW pc \in Stages \ {"idle"},
         NEW S \in SUBSET Targets, Load(e, before, pc, S)
  PROVE  IInv'
  <1>1. /\ ev[e].pc # "idle"
        /\ ev' = [ev EXCEPT ![e].pc = pc, ![e].todo = Loaded(S)]
        /\ UNCHANGED <<inputVars, lock, rowLock, dbVars>>
    BY DEF Load
  <1>2. Loaded(S) \subseteq Job
    BY BoundsAssumption DEF Loaded, Job, IInv, TypeOK
  <1>3. ev[e] \in Evaluation
    BY DEF IInv, TypeOK
  <1>4. /\ ev'[e] \in Evaluation
        /\ ev'[e].pc # "idle" /\ ev'[e].at = ev[e].at /\ ev'[e].draft = ev[e].draft
    BY <1>1, <1>2, <1>3 DEF Evaluation, IInv, TypeOK
  <1>5. \A f \in Evaluators : f # e => ev'[f] = ev[f]
    BY <1>1 DEF IInv, TypeOK
  <1>6. TypeOK'
    <2>1. ev' \in [Evaluators -> Evaluation]
      BY <1>1, <1>4, <1>5 DEF IInv, TypeOK
    <2> QED BY <1>1, <2>1 DEF IInv, TypeOK, inputVars, dbVars
  <1>7. EvInv'
    BY <1>1, <1>4, <1>5 DEF IInv, EvInv
  <1>8. DraftInv'
    <2> SUFFICES ASSUME NEW f \in Evaluators, NEW d \in ev'[f].draft
                 PROVE  rowLock'[d.target] = f /\ OutcomeFollowsRow(f, d)'
      BY DEF DraftInv
    <2>1. d \in ev[f].draft /\ ev'[f].at = ev[f].at
      BY <1>4, <1>5
    <2> QED BY <1>1, <2>1 DEF IInv, DraftInv, OutcomeFollowsRow, dbVars
  <1> QED BY <1>1, <1>6, <1>7, <1>8, HistoryUnchanged DEF IInv, dbVars

LEMMA LoadStep ==
  ASSUME IInv, NEW e \in Evaluators, LoadDirectories(e) \/ LoadGroups(e) \/ LoadProjects(e)
  PROVE  IInv'
  <1>1. /\ StillDated(e, Directories) \subseteq Targets /\ StillDated(e, Groups) \subseteq Targets
        /\ ev[e].ids \cap Projects \subseteq Targets
    BY DEF StillDated, Targets, Dated
  <1>2. {"sampled", "directories", "groups", "projects"} \subseteq Stages \ {"idle"}
    BY DEF Stages
  <1>3. CASE LoadDirectories(e)
    BY <1>1, <1>2, <1>3, LoadAny DEF LoadDirectories
  <1>4. CASE LoadGroups(e)
    BY <1>1, <1>2, <1>4, LoadAny DEF LoadGroups
  <1>5. CASE LoadProjects(e)
    BY <1>1, <1>2, <1>5, LoadAny DEF LoadProjects
  <1> QED BY <1>3, <1>4, <1>5

\* One target: what the outcome says, and what it leaves to others.
LEMMA OutcomeStep ==
  ASSUME IInv, NEW e \in Evaluators, NEW job \in Job, ev[e].pc # "idle",
         job.ratio # NoRatio, ~ Step(e, job).skipped
  PROVE  /\ Outcome(e, job) \in Entry
         /\ Outcome(e, job).target = job.target
         /\ OutcomeFollowsRow(e, Outcome(e, job))
  <1> DEFINE s == state[job.target]
             r == job.rule
             q == job.ratio
             at == ev[e].at
             next == Step(e, job)
             d == Outcome(e, job)
  <1>1. job.target \in Targets /\ r \in Rules /\ q \in Nat /\ job.src \in 0..MaxTime
    BY RatiosAssumption DEF Job
  <1>2. at \in 1..MaxTime
    BY DEF IInv, EvInv
  <1>3. s \in StateRow \cup {NoState} /\ (s # NoState => CountFits(s))
    BY <1>1 DEF IInv, TypeOK, HistoryInv, RowFollowsHistory
  <1>4. next = Transition(s, r, q, at) /\ ~ Transition(s, r, q, at).skipped
    BY DEF Step
  <1>5. d = [target |-> job.target, state |-> next.state, event |-> next.event,
             level |-> next.level, rule |-> r, src |-> job.src, breach |-> Level(r, q) # NoLevel]
    BY DEF Outcome
  <1> HIDE DEF s, r, q, at, next, d
  <1>6. /\ s # NoState => s.observed < at
        /\ \/ Level(r, q) = NoLevel /\ Stepped(next, r, at, NoLevel, 0)
           \/ /\ Level(r, q) # NoLevel
              /\ ~ (s # NoState /\ s.rule = r) \/ s.count = 0
              /\ Stepped(next, r, at, NoLevel, 1)
           \/ /\ Level(r, q) # NoLevel
              /\ s # NoState /\ s.rule = r /\ s.count > 0
              /\ Stepped(next, r, at, Level(r, q), 2)
    BY <1>1, <1>2, <1>3, <1>4, TransitionStep
  <1>7. next.state \in StateRow /\ next.event \in Events /\ next.level \in Levels \cup {NoLevel}
    BY <1>6 DEF Stepped
  <1>8. d \in Entry
    BY <1>1, <1>5, <1>7 DEF Entry
  <1>9. /\ d.target = job.target /\ d.state = next.state /\ d.rule = r
        /\ d.breach <=> Level(r, q) # NoLevel
    BY <1>5
  <1>10. s # NoState => s.count \in 0..2
    BY <1>3 DEF StateRow
  <1>11. OutcomeFollowsRow(e, d)
    <2>1. /\ d.state.observed = at /\ d.state.rule = d.rule
          /\ d.breach <=> d.state.count > 0
          /\ CountFits(d.state)
      BY <1>6, <1>9 DEF Stepped, CountFits, NoLevel
    <2>2. d.state.count = 2 <=> d.breach /\ s # NoState /\ s.rule = d.rule /\ s.count > 0
      BY <1>6, <1>9, <1>10 DEF Stepped
    <2> QED BY <1>6, <1>9, <2>1, <2>2 DEF OutcomeFollowsRow, s, at
  <1> QED BY <1>8, <1>9, <1>11 DEF d

LEMMA EvaluateStep ==
  ASSUME IInv, NEW e \in Evaluators, EvaluateOne(e)
  PROVE  IInv'
  <1>1. PICK job \in ev[e].todo :
          /\ job.ratio = NoRatio \/ RowFree(e, job.target)
          /\ rowLock' = IF job.ratio = NoRatio THEN rowLock ELSE [rowLock EXCEPT ![job.target] = e]
          /\ ev' = [ev EXCEPT ![e].todo = @ \ {job},
                              ![e].draft = IF Step(e, job).skipped THEN @
                                           ELSE @ \cup {Outcome(e, job)}]
    BY DEF EvaluateOne
  <1>2. ev[e].pc # "idle" /\ UNCHANGED <<inputVars, lock, dbVars>>
    BY DEF EvaluateOne
  <1>3. ev[e] \in Evaluation /\ job \in Job /\ job.target \in Targets
    BY <1>1 DEF IInv, TypeOK, Evaluation, Job
  <1>4. job.ratio = NoRatio => Step(e, job).skipped
    BY DEF Step, Transition, Skipped
  <1> DEFINE drafts == IF Step(e, job).skipped THEN ev[e].draft
                       ELSE ev[e].draft \cup {Outcome(e, job)}
  <1>5. ~ Step(e, job).skipped => Outcome(e, job) \in Entry
    BY <1>2, <1>3, <1>4, OutcomeStep
  <1>6. drafts \subseteq Entry
    BY <1>3, <1>5 DEF Evaluation
  <1>7. /\ ev'[e] \in Evaluation
        /\ ev'[e].pc = ev[e].pc /\ ev'[e].at = ev[e].at /\ ev'[e].draft = drafts
    BY <1>1, <1>3, <1>6 DEF Evaluation, IInv, TypeOK
  <1>8. \A f \in Evaluators : f # e => ev'[f] = ev[f]
    BY <1>1 DEF IInv, TypeOK
  <1>9. rowLock' \in [Targets -> Evaluators \cup {NoOne}]
    BY <1>1 DEF IInv, TypeOK
  <1>10. TypeOK'
    <2>1. ev' \in [Evaluators -> Evaluation]
      BY <1>1, <1>7, <1>8 DEF IInv, TypeOK
    <2> QED BY <1>2, <1>9, <2>1 DEF IInv, TypeOK, inputVars, dbVars
  <1>11. EvInv'
    BY <1>7, <1>8 DEF IInv, EvInv
  <1>12. \A t \in Targets : \A f \in Evaluators : rowLock[t] = f => rowLock'[t] = f
    BY <1>1, <1>3, MarkersAssumption DEF IInv, TypeOK, RowFree
  <1>13. DraftInv'
    <2> SUFFICES ASSUME NEW f \in Evaluators, NEW d \in ev'[f].draft
                 PROVE  rowLock'[d.target] = f /\ OutcomeFollowsRow(f, d)'
      BY DEF DraftInv
    <2>1. ev'[f].at = ev[f].at
      BY <1>7, <1>8
    <2>2. CASE d \in ev[f].draft
      <3>1. rowLock[d.target] = f /\ OutcomeFollowsRow(f, d) /\ d.target \in Targets
        BY <2>2 DEF IInv, DraftInv, TypeOK, Evaluation, Entry
      <3> QED BY <1>2, <1>12, <2>1, <3>1 DEF OutcomeFollowsRow, dbVars
    <2>3. CASE d \notin ev[f].draft
      <3>1. f = e /\ ~ Step(e, job).skipped /\ d = Outcome(e, job)
        BY <1>7, <1>8, <2>3
      <3>2. rowLock'[job.target] = e /\ job.ratio # NoRatio
        BY <1>1, <1>3, <1>4, <3>1 DEF IInv, TypeOK
      <3>3. d.target = job.target /\ OutcomeFollowsRow(e, d)
        BY <1>2, <1>3, <1>4, <3>1, OutcomeStep
      <3>4. OutcomeFollowsRow(e, d)'
        BY <1>2, <2>1, <3>1, <3>3 DEF OutcomeFollowsRow, dbVars
      <3> QED BY <3>1, <3>2, <3>3, <3>4
    <2> QED BY <2>2, <2>3
  <1> QED BY <1>2, <1>10, <1>11, <1>13, HistoryUnchanged DEF IInv, dbVars

\* The commit of one target's outcome.
LEMMA CommitRow ==
  ASSUME IInv, NEW e \in Evaluators, Commit(e), NEW t \in Targets, Drafted(e, t)
  PROVE  /\ state'[t] \in StateRow
         /\ seen'[t] \in Seq(Obs)
         /\ RowFollowsHistory(t)'
         /\ \A i, j \in DOMAIN seen'[t] : i < j => seen'[t][i].at < seen'[t][j].at
  <1> DEFINE d == Draft(e, t)
             o == Observation(e, d)
             h == seen[t]
             n == Len(h)
  <1>1. d \in ev[e].draft /\ d.target = t
    BY DEF Drafted, Draft
  <1>2. d \in Entry /\ OutcomeFollowsRow(e, d)
    BY <1>1 DEF IInv, DraftInv, TypeOK, Evaluation
  <1>3. ev[e].at \in 1..MaxTime
    BY DEF IInv, EvInv, Commit
  <1>4. o \in Obs /\ o.at = ev[e].at /\ o.rule = d.rule /\ o.breach = d.breach
    BY <1>2, <1>3 DEF Observation, Obs, Entry
  <1>5. h \in Seq(Obs) /\ RowFollowsHistory(t)
    BY DEF IInv, HistoryInv
  <1>6. state'[t] = d.state /\ seen'[t] = Append(h, o)
    BY DEF Commit
  <1>7. d.state \in StateRow /\ d.state # NoState
    BY <1>2, StateAssumption DEF Entry
  <1>8. /\ OutcomeFollowsRow(e, d)
        /\ d.state.observed = o.at /\ d.state.rule = o.rule /\ CountFits(d.state)
        /\ o.breach <=> d.state.count > 0
        /\ state[t] # NoState => state[t].observed < o.at
        /\ d.state.count = 2 <=>
             o.breach /\ state[t] # NoState /\ state[t].rule = o.rule /\ state[t].count > 0
    BY <1>1, <1>2, <1>4 DEF OutcomeFollowsRow
  <1> HIDE DEF d, o, h, n
  <1>9. n \in Nat /\ Len(Append(h, o)) = n + 1 /\ Append(h, o)[n + 1] = o
        /\ \A i \in 1..n : Append(h, o)[i] = h[i]
        /\ DOMAIN Append(h, o) = 1..(n + 1)
    BY <1>4, <1>5 DEF n
  <1>10. (state[t] = NoState <=> n = 0)
         /\ (state[t] # NoState => h[n].at = state[t].observed /\ h[n].rule = state[t].rule
                                  /\ (h[n].breach <=> state[t].count > 0))
    BY <1>5 DEF RowFollowsHistory, h, n
  <1>11. TwoBreaches(t)' <=> n >= 1 /\ o.breach /\ h[n].breach /\ o.rule = h[n].rule
    BY <1>6, <1>9 DEF TwoBreaches
  <1>12. TwoBreaches(t)' <=> d.state.count = 2
    BY <1>8, <1>9, <1>10, <1>11
  <1>13. RowFollowsHistory(t)'
    BY <1>6, <1>7, <1>8, <1>9, <1>12 DEF RowFollowsHistory
  <1>14. ASSUME NEW i \in 1..(n + 1), NEW j \in 1..(n + 1), i < j
         PROVE  Append(h, o)[i].at < Append(h, o)[j].at
    <2>1. \A k \in 1..n : h[k].at \in 1..MaxTime
      <3>1. \A k \in 1..n : h[k] \in Obs
        BY <1>5 DEF n
      <3> QED BY <3>1 DEF Obs
    <2>2. \A k, l \in 1..n : k < l => h[k].at < h[l].at
      <3>1. \A k, l \in DOMAIN h : k < l => h[k].at < h[l].at
        BY DEF IInv, ObservationsInOrder, h
      <3>2. DOMAIN h = 1..n
        BY <1>5 DEF n
      <3> QED BY <3>1, <3>2
    <2>3. CASE j \in 1..n
      BY <1>9, <1>14, <2>2, <2>3
    <2>4. CASE j = n + 1
      <3>1. i \in 1..n /\ n \in 1..n /\ state[t] # NoState
        BY <1>9, <1>10, <1>14, <2>4
      <3>2. h[i].at <= h[n].at
        BY <1>9, <2>1, <2>2, <3>1
      <3>3. h[n].at < o.at /\ o.at \in 1..MaxTime
        BY <1>3, <1>4, <1>8, <1>10, <3>1
      <3> QED BY <1>9, <2>1, <2>4, <3>1, <3>2, <3>3, BoundsAssumption
    <2> QED BY <1>9, <2>3, <2>4
  <1>15. \A i, j \in DOMAIN seen'[t] : i < j => seen'[t][i].at < seen'[t][j].at
    <2>1. seen'[t] = Append(h, o) /\ DOMAIN seen'[t] = 1..(n + 1)
      BY <1>6, <1>9
    <2> QED BY <1>14, <2>1
  <1> QED BY <1>4, <1>5, <1>6, <1>7, <1>13, <1>15 DEF h

LEMMA CommitStep ==
  ASSUME IInv, NEW e \in Evaluators, Commit(e)
  PROVE  IInv'
  <1>1. \A t \in Targets : ~ Drafted(e, t) =>
          state'[t] = state[t] /\ seen'[t] = seen[t]
    BY DEF Commit
  <1>2. \A f \in Evaluators : ev'[f] = IF f = e THEN Completed(e) ELSE ev[f]
    BY DEF IInv, TypeOK, Commit
  <1>3. TypeOK'
    <2>1. state' \in [Targets -> StateRow \cup {NoState}]
      BY <1>1, CommitRow DEF Commit, IInv, TypeOK
    <2>2. ev' \in [Evaluators -> Evaluation]
      BY CompletedType DEF IInv, TypeOK, Commit
    <2>3. rowLock' \in [Targets -> Evaluators \cup {NoOne}] /\ lock' \in Evaluators \cup {NoOne}
      BY DEF IInv, TypeOK, Commit, Unlock
    <2> QED BY <2>1, <2>2, <2>3 DEF IInv, TypeOK, Commit, inputVars
  <1>4. EvInv'
    BY <1>2 DEF IInv, EvInv, Completed, Resting
  <1>5. DraftInv'
    <2> SUFFICES ASSUME NEW f \in Evaluators, NEW d \in ev'[f].draft
                 PROVE  rowLock'[d.target] = f /\ OutcomeFollowsRow(f, d)'
      BY DEF DraftInv
    <2>1. f # e /\ ev'[f] = ev[f] /\ d \in ev[f].draft
      BY <1>2 DEF Completed, Resting
    <2>2. rowLock[d.target] = f /\ OutcomeFollowsRow(f, d)
      BY <2>1 DEF IInv, DraftInv
    <2>3. d.target \in Targets
      BY <2>1 DEF IInv, TypeOK, Evaluation, Entry
    <2>4. ~ Drafted(e, d.target)
      BY <2>1, <2>2 DEF Drafted, IInv, DraftInv
    <2>5. rowLock'[d.target] = f
      BY <2>1, <2>2, <2>3 DEF Commit, Unlock
    <2>6. state'[d.target] = state[d.target]
      BY <1>1, <2>3, <2>4
    <2> QED BY <2>1, <2>2, <2>5, <2>6 DEF OutcomeFollowsRow
  <1>6. HistoryInv'
    <2>1. seen' \in [Targets -> Seq(Obs)]
      BY <1>1, CommitRow DEF Commit, IInv, HistoryInv
    <2>2. ASSUME NEW t \in Targets PROVE RowFollowsHistory(t)'
      BY <1>1, CommitRow DEF IInv, HistoryInv, RowFollowsHistory, TwoBreaches
    <2> QED BY <2>1, <2>2 DEF HistoryInv
  <1>7. ObservationsInOrder'
    BY <1>1, CommitRow DEF IInv, ObservationsInOrder
  <1> QED BY <1>3, <1>4, <1>5, <1>6, <1>7 DEF IInv

LEMMA InvNext == IInv /\ [Next]_vars => IInv'
  <1> SUFFICES ASSUME IInv, [Next]_vars PROVE IInv'
    OBVIOUS
  <1>1. CASE InputNext
    BY <1>1, InputStep
  <1>2. ASSUME NEW e \in Evaluators, Evaluate(e) PROVE IInv'
    <2>1. CASE Skip(e) \/ vars' = vars
      BY <2>1, HistoryUnchanged
      DEF Skip, vars, IInv, TypeOK, EvInv, DraftInv, OutcomeFollowsRow
    <2> QED BY <1>2, <2>1, BeginStep, LoadStep, EvaluateStep, CommitStep, AbortStep
            DEF Evaluate, Work
  <1>3. CASE LockExpires \/ UNCHANGED vars
    BY <1>3, HistoryUnchanged
    DEF LockExpires, vars, inputVars, dbVars, IInv, TypeOK, EvInv, DraftInv, OutcomeFollowsRow
  <1> QED BY <1>1, <1>2, <1>3 DEF Next, InputNext

-----------------------------------------------------------------------------
(* The events that the steps of a row send                                 *)

Open(s) == s # NoState /\ s.level # NoLevel

\* What the step of a row s under rule r at time at says to be due, and what it leaves.
EventFits(s, next, r, at) ==
    /\ Open(next.state) =>
         \/ next.event \in Notifying /\ next.state.notified = at
         \/ next.event = NoEvent /\ Open(s) /\ s.rule = r /\ next.state.notified = s.notified
    /\ next.event \notin {"trigger", NoEvent} => Open(s) /\ s.rule = r
    /\ next.event = "recovery" => ~Open(next.state)
    /\ next.event = "repeat" =>
         next.level \in Levels /\ s.notified # NoTime /\ at - s.notified >= r.repeat[next.level]

LogEntry == [event : Events \ {NoEvent}, at : 1..MaxTime, level : Levels \cup {NoLevel}, rule : Rules]

\* The trigger of the alert that is open under a rule.
TriggeredIn(h, r) ==
    \E j \in DOMAIN h : /\ h[j].event = "trigger" /\ h[j].rule = r
                        /\ \A k \in DOMAIN h : k > j => h[k].event # "recovery"

\* What was sent about a target is older than its row; an open alert was triggered, and what
\* was told about it is not newer than the row says.
LogFits(t) ==
    /\ state[t] = NoState => log[t] = <<>>
    /\ state[t] # NoState => \A i \in DOMAIN log[t] : log[t][i].at <= state[t].observed
    /\ Open(state[t]) =>
         /\ state[t].notified # NoTime
         /\ \A i \in DOMAIN log[t] : log[t][i].event \in Notifying => log[t][i].at <= state[t].notified
         /\ TriggeredIn(log[t], state[t].rule)

Belong(h) ==
    \A i \in DOMAIN h : h[i].event # "trigger" =>
        \E j \in 1..(i - 1) : /\ h[j].event = "trigger" /\ h[j].rule = h[i].rule
                              /\ \A k \in (j + 1)..(i - 1) : h[k].event # "recovery"
Spaced(h) ==
    \A i, j \in DOMAIN h :
        (j < i /\ h[i].event = "repeat" /\ h[j].event \in Notifying /\ h[i].rule = h[j].rule)
            => h[i].at - h[j].at >= h[i].rule.repeat[h[i].level]

LogInv ==
    /\ log \in [Targets -> Seq(LogEntry)]
    /\ \A t \in Targets : LogFits(t) /\ Belong(log[t]) /\ Spaced(log[t])
DueInv ==
    \A e \in Evaluators : \A d \in ev[e].draft : EventFits(state[d.target], d, d.rule, ev[e].at)
LInv == LogInv /\ DueInv

LEMMA LogInvDue == LogInv => EventsAreDue
  BY DEF LogInv, EventsAreDue, EventsBelongToAnAlert, RepeatsAreSpaced, Belong, Spaced

\* Transition, for a target with a ratio.
LEMMA EventStep ==
  ASSUME NEW s \in StateRow \cup {NoState}, s # NoState => CountFits(s),
         Open(s) => s.notified # NoTime,
         NEW r \in Rules, NEW q \in Nat, NEW at \in 1..MaxTime,
         ~ Transition(s, r, q, at).skipped
  PROVE  EventFits(s, Transition(s, r, q, at), r, at)
  <1> DEFINE level == Level(r, q)
             next == Transition(s, r, q, at)
  <1>1. level \in Levels \cup {NoLevel}
    BY LevelType
  <1>2. q # NoRatio /\ ~ IsStale(s, at)
    BY MarkersAssumption DEF Transition, Skipped
  <1>3. CASE s = NoState \/ s.rule # r
    <2>1. next = Silent(FreshState(r, level, at))
      BY <1>2, <1>3 DEF Transition
    <2> HIDE DEF level, next
    <2>2. EventFits(s, next, r, at)
      BY <2>1 DEF Silent, FreshState, EventFits, Open, NoEvent
    <2> QED BY <2>2 DEF next
  <1>4. CASE s # NoState /\ s.rule = r
    <2> DEFINE t == [s EXCEPT !.observed = at]
    <2>1. next = Advance(s, r, level, at)
      BY <1>2, <1>4 DEF Transition
    <2>2. /\ t \in StateRow /\ t.count = s.count /\ t.level = s.level /\ t.notified = s.notified
          /\ s \in StateRow /\ s.level \in 0..3 /\ level \in 0..3
      BY <1>1, <1>4 DEF StateRow, Levels, NoLevel
    <2> HIDE DEF t, level, next
    <2>3. \A u \in StateRow : /\ Closed(u).level = NoLevel
                              /\ Told(u, level, at).level = level /\ Told(u, level, at).notified = at
      BY DEF Closed, Told, StateRow
    <2>4. CASE level = NoLevel
      <3>1. \/ next = Silent(Closed(t))
            \/ next = Raise(Closed(t), "recovery", NoLevel) /\ s.level # NoLevel
        BY <2>1, <2>2, <2>4 DEF Advance, Quiet, t
      <3> QED BY <1>4, <2>2, <2>3, <3>1 DEF Silent, Raise, EventFits, Open, NoEvent, next
    <2>5. CASE level # NoLevel /\ s.level = NoLevel
      <3> DEFINE u == [t EXCEPT !.count = s.count + 1]
      <3>1. next = Breach(t, level, at)
        BY <2>1, <2>2, <2>5 DEF Advance, NoLevel, t
      <3>2. s.count \in {0, 1}
        BY <1>4, <2>2, <2>5 DEF CountFits, StateRow
      <3>3. u \in StateRow /\ u.level = NoLevel
        BY <2>2, <2>5, <3>2 DEF StateRow
      <3>4. next = Silent(u) \/ next = Raise(Told(u, level, at), "trigger", level)
        BY <2>2, <3>1 DEF Breach
      <3> HIDE DEF u
      <3> QED BY <2>3, <3>3, <3>4 DEF Silent, Raise, EventFits, Open, NoEvent, Notifying, next
    <2>6. CASE level # NoLevel /\ s.level # NoLevel
      <3> DEFINE u == Told(t, level, at)
                 v == [t EXCEPT !.level = level]
      <3>0. v.level = level /\ v.notified = s.notified
        BY <2>2 DEF StateRow
      <3>1. \/ next = Raise(u, "escalation", level)
            \/ next = Silent(v)
            \/ next = Raise(u, "repeat", level) /\ at - s.notified >= r.repeat[level]
            \/ next = Silent(t)
        <4>1. CASE level > s.level
          BY <2>1, <2>2, <2>6, <4>1 DEF Advance, Escalate, t
        <4>2. CASE level < s.level
          BY <2>1, <2>2, <2>6, <4>2 DEF Advance, t
        <4>3. CASE level = s.level
          BY <1>4, <2>1, <2>2, <2>6, <4>3 DEF Advance, Persist, Open, t
        <4> QED BY <2>2, <4>1, <4>2, <4>3
      <3>2. u.level = level /\ u.notified = at
        BY <2>2, <2>3
      <3>3. level \in Levels /\ Open(s) /\ s.rule = r
        BY <1>1, <1>4, <2>6 DEF level, Open
      <3> HIDE DEF u, v
      <3> QED BY <2>2, <3>0, <3>1, <3>2, <3>3 DEF Silent, Raise, EventFits, Open, NoEvent, Notifying, next
    <2> QED BY <2>4, <2>5, <2>6
  <1> QED BY <1>3, <1>4

\* Steps that send nothing and draft nothing.
LEMMA QuietLog ==
  ASSUME LInv, UNCHANGED <<state, log>>,
         \A f \in Evaluators : \A d \in ev'[f].draft : d \in ev[f].draft /\ ev'[f].at = ev[f].at
  PROVE  LInv'
  BY DEF LInv, LogInv, DueInv, LogFits

LEMMA EvaluateLog ==
  ASSUME IInv, LInv, NEW e \in Evaluators, EvaluateOne(e)
  PROVE  LInv'
  <1>1. PICK job \in ev[e].todo :
          ev' = [ev EXCEPT ![e].todo = @ \ {job},
                           ![e].draft = IF Step(e, job).skipped THEN @
                                        ELSE @ \cup {Outcome(e, job)}]
    BY DEF EvaluateOne
  <1>2. ev[e].pc # "idle" /\ UNCHANGED <<state, log>>
    BY DEF EvaluateOne, dbVars
  <1>3. ev[e] \in Evaluation /\ job \in Job
    BY <1>1 DEF IInv, TypeOK, Evaluation
  <1> DEFINE o == Outcome(e, job)
  <1>4. /\ ev'[e].at = ev[e].at
        /\ ev'[e].draft = IF Step(e, job).skipped THEN ev[e].draft ELSE ev[e].draft \cup {o}
        /\ \A f \in Evaluators : f # e => ev'[f] = ev[f]
    BY <1>1, <1>3 DEF IInv, TypeOK, Evaluation
  <1>5. ASSUME ~ Step(e, job).skipped
        PROVE  EventFits(state[o.target], o, o.rule, ev[e].at)
    <2> DEFINE s == state[job.target]
               next == Transition(s, job.rule, job.ratio, ev[e].at)
    <2>1. job.ratio # NoRatio
      BY <1>5 DEF Step, Transition, Skipped
    <2>2. job.target \in Targets /\ job.rule \in Rules /\ job.ratio \in Nat
      BY <1>3, <2>1, RatiosAssumption DEF Job
    <2>3. s \in StateRow \cup {NoState} /\ (s # NoState => CountFits(s)) /\ ev[e].at \in 1..MaxTime
      BY <1>2, <2>2 DEF IInv, TypeOK, HistoryInv, RowFollowsHistory, EvInv
    <2>4. Open(s) => s.notified # NoTime
      BY <2>2 DEF LInv, LogInv, LogFits
    <2>5. EventFits(s, next, job.rule, ev[e].at)
      BY <1>5, <2>2, <2>3, <2>4, EventStep DEF Step
    <2>6. /\ o.target = job.target /\ o.rule = job.rule /\ o.state = next.state
          /\ o.event = next.event /\ o.level = next.level
      BY DEF Outcome, Step
    <2> HIDE DEF next, o
    <2> QED BY <2>5, <2>6 DEF EventFits
  <1> HIDE DEF o
  <1>6. DueInv'
    <2> SUFFICES ASSUME NEW f \in Evaluators, NEW d \in ev'[f].draft
                 PROVE  EventFits(state[d.target], d, d.rule, ev[f].at) /\ ev'[f].at = ev[f].at
      BY <1>2 DEF DueInv
    <2>1. ev'[f].at = ev[f].at
      BY <1>4
    <2>2. d \in ev[f].draft \/ (f = e /\ d = o /\ ~ Step(e, job).skipped)
      BY <1>4
    <2> QED BY <1>5, <2>1, <2>2 DEF LInv, DueInv
  <1> QED BY <1>2, <1>6 DEF LInv, LogInv, LogFits

\* The commit of one target's outcome.
LEMMA CommitLog ==
  ASSUME IInv, LInv, NEW e \in Evaluators, Commit(e), NEW t \in Targets, Drafted(e, t)
  PROVE  /\ log'[t] \in Seq(LogEntry)
         /\ LogFits(t)' /\ Belong(log'[t]) /\ Spaced(log'[t])
  <1> DEFINE d == Draft(e, t)
             o == Event(e, d)
             h == log[t]
             n == Len(h)
             s == state[t]
             at == ev[e].at
  <1>1. d \in ev[e].draft /\ d.target = t
    BY DEF Drafted, Draft
  <1>2. d \in Entry /\ OutcomeFollowsRow(e, d) /\ EventFits(s, d, d.rule, at)
    BY <1>1 DEF IInv, DraftInv, TypeOK, Evaluation, LInv, DueInv
  <1>3. at \in 1..MaxTime
    BY DEF IInv, EvInv, Commit
  <1>4. /\ d.state \in StateRow /\ d.state # NoState /\ d.rule \in Rules
        /\ d.event \in Events /\ d.level \in Levels \cup {NoLevel}
        /\ d.state.observed = at /\ d.state.rule = d.rule
        /\ s # NoState => s.observed < at
    BY <1>1, <1>2, StateAssumption DEF Entry, OutcomeFollowsRow
  <1>5. /\ h \in Seq(LogEntry) /\ LogFits(t) /\ Belong(h) /\ Spaced(h)
    BY DEF LInv, LogInv
  <1>6. /\ state'[t] = d.state
        /\ log'[t] = IF d.event # NoEvent THEN Append(h, o) ELSE h
    BY DEF Commit
  <1>7. o.event = d.event /\ o.at = at /\ o.level = d.level /\ o.rule = d.rule
    BY DEF Event
  <1>8. d.event # NoEvent => o \in LogEntry
    BY <1>3, <1>4 DEF Event, LogEntry
  <1>9. s \in StateRow \cup {NoState}
    BY DEF IInv, TypeOK
  <1>10. s # NoState => s.observed \in 1..MaxTime /\ s.notified \in (1..MaxTime) \cup {NoTime}
    BY <1>9 DEF StateRow
  <1>11. /\ EventFits(s, d, d.rule, at)
         /\ s = NoState => h = <<>>
         /\ s # NoState => \A i \in DOMAIN h : h[i].at <= s.observed
         /\ Open(s) =>
              /\ s.notified # NoTime
              /\ \A i \in DOMAIN h : h[i].event \in Notifying => h[i].at <= s.notified
              /\ TriggeredIn(h, s.rule)
    BY <1>2, <1>5 DEF LogFits
  <1> HIDE DEF d, o, h, n, s, at
  <1>12. /\ n \in Nat /\ DOMAIN h = 1..n
         /\ \A i \in 1..n : h[i] \in LogEntry
    BY <1>5 DEF n
  <1>13. \A i \in 1..n : h[i].at \in 1..MaxTime
    BY <1>12 DEF LogEntry
  <1>14. \A i \in 1..n : h[i].at < at
    <2>1. CASE s = NoState
      BY <1>11, <1>12, <2>1
    <2>2. CASE s # NoState
      BY <1>3, <1>4, <1>10, <1>11, <1>12, <1>13, <2>2
    <2> QED BY <2>1, <2>2
  <1>15. CASE d.event = NoEvent
    <2>1. log'[t] = h
      BY <1>6, <1>15
    <2>2. Open(d.state) => Open(s) /\ s.rule = d.state.rule /\ d.state.notified = s.notified
      BY <1>4, <1>11, <1>15 DEF EventFits, Notifying, NoEvent
    <2>3. \A i \in DOMAIN h : h[i].at <= d.state.observed
      BY <1>3, <1>4, <1>12, <1>13, <1>14
    <2>4. LogFits(t)'
      BY <1>4, <1>6, <1>11, <2>1, <2>2, <2>3 DEF LogFits, Open
    <2> QED BY <1>5, <2>1, <2>4
  <1>16. CASE d.event # NoEvent
    <2> DEFINE g == Append(h, o)
    <2>1. log'[t] = g /\ o \in LogEntry
      BY <1>6, <1>8, <1>16
    <2>2. /\ g \in Seq(LogEntry) /\ DOMAIN g = 1..(n + 1)
          /\ g[n + 1] = o /\ \A i \in 1..n : g[i] = h[i]
      BY <1>5, <2>1 DEF n
    <2> HIDE DEF g
    <2>3. \A i \in DOMAIN g : g[i].at <= at
      BY <1>3, <1>7, <1>12, <1>13, <1>14, <2>2
    <2>4. ASSUME Open(s) PROVE TriggeredIn(h, s.rule)
      BY <1>11, <2>4
    <2>5. ASSUME Open(d.state)
          PROVE  d.event \in Notifying /\ d.state.notified = at /\ TriggeredIn(g, d.rule)
      <3>1. d.event \in Notifying /\ d.state.notified = at
        BY <1>11, <1>16, <2>5 DEF EventFits
      <3>2. CASE d.event = "trigger"
        <4>1. n + 1 \in DOMAIN g /\ g[n + 1].event = "trigger" /\ g[n + 1].rule = d.rule
          BY <1>7, <1>12, <2>2, <3>2
        <4>2. \A k \in DOMAIN g : ~ (k > n + 1)
          BY <1>12, <2>2
        <4> QED BY <3>1, <4>1, <4>2 DEF TriggeredIn
      <3>3. CASE d.event # "trigger"
        <4>1. Open(s) /\ s.rule = d.rule
          BY <1>11, <1>16, <3>3 DEF EventFits
        <4>2. PICK j \in 1..n : /\ h[j].event = "trigger" /\ h[j].rule = d.rule
                                /\ \A k \in 1..n : k > j => h[k].event # "recovery"
          BY <1>12, <2>4, <4>1 DEF TriggeredIn
        <4>3. o.event # "recovery"
          BY <1>7, <3>1 DEF Notifying
        <4>4. j \in DOMAIN g /\ g[j] = h[j] /\ \A k \in DOMAIN g : k > j => g[k].event # "recovery"
          BY <1>12, <2>2, <4>2, <4>3
        <4>5. TriggeredIn(g, d.rule)
          BY <4>2, <4>4, Zenon DEF TriggeredIn
        <4> QED BY <3>1, <4>5
      <3> QED BY <3>1, <3>2, <3>3
    <2>6. LogFits(t)'
      <3>1. at # NoTime
        BY <1>3, MarkersAssumption
      <3> QED BY <1>4, <1>6, <2>1, <2>3, <2>5, <3>1 DEF LogFits, Open
    <2>7. Belong(g)
      <3> SUFFICES ASSUME NEW i \in 1..(n + 1), g[i].event # "trigger"
                   PROVE  \E j \in 1..(i - 1) : /\ g[j].event = "trigger" /\ g[j].rule = g[i].rule
                                                /\ \A k \in (j + 1)..(i - 1) : g[k].event # "recovery"
        BY <2>2 DEF Belong
      <3>1. CASE i \in 1..n
        <4>1. PICK j \in 1..(i - 1) : /\ h[j].event = "trigger" /\ h[j].rule = h[i].rule
                                      /\ \A k \in (j + 1)..(i - 1) : h[k].event # "recovery"
          BY <1>5, <1>12, <2>2, <3>1 DEF Belong
        <4>2. \A k \in 1..i : g[k] = h[k]
          BY <1>12, <2>2, <3>1
        <4>3. \A k \in (j + 1)..(i - 1) : k \in 1..i
          BY <1>12, <3>1, <4>1
        <4>4. j \in 1..i /\ i \in 1..i
          BY <1>12, <3>1, <4>1
        <4> QED BY <4>1, <4>2, <4>3, <4>4
      <3>2. CASE i = n + 1
        <4>1. Open(s) /\ s.rule = d.rule
          BY <1>7, <1>11, <1>16, <2>2, <3>2 DEF EventFits
        <4>2. PICK j \in 1..n : /\ h[j].event = "trigger" /\ h[j].rule = d.rule
                                /\ \A k \in 1..n : k > j => h[k].event # "recovery"
          BY <1>12, <2>4, <4>1 DEF TriggeredIn
        <4>3. \A k \in (j + 1)..(i - 1) : k \in 1..n /\ k > j
          BY <1>12, <3>2, <4>2
        <4>4. j \in 1..(i - 1)
          BY <1>12, <3>2, <4>2
        <4> QED BY <1>7, <2>2, <3>2, <4>2, <4>3, <4>4
      <3> QED BY <1>12, <3>1, <3>2
    <2>8. Spaced(g)
      <3> SUFFICES ASSUME NEW i \in 1..(n + 1), NEW j \in 1..(n + 1),
                          j < i, g[i].event = "repeat", g[j].event \in Notifying,
                          g[i].rule = g[j].rule
                   PROVE  g[i].at - g[j].at >= g[i].rule.repeat[g[i].level]
        BY <2>2 DEF Spaced
      <3>1. j \in 1..n
        BY <1>12
      <3>2. CASE i \in 1..n
        BY <1>5, <1>12, <2>2, <3>1, <3>2 DEF Spaced
      <3>3. CASE i = n + 1
        <4>1. g[i] = o /\ g[j] = h[j]
          BY <2>2, <3>1, <3>3
        <4>2. /\ Open(s) /\ d.level \in Levels /\ s.notified # NoTime
              /\ at - s.notified >= d.rule.repeat[d.level]
          BY <1>7, <1>11, <4>1 DEF EventFits, NoEvent
        <4>3. h[j].at <= s.notified /\ s.notified \in 1..MaxTime
          BY <1>10, <1>11, <1>12, <3>1, <4>1, <4>2 DEF Open
        <4>4. d.rule.repeat[d.level] \in Nat
          BY <1>4, <4>2, RulesAssumption
        <4>5. at - h[j].at >= d.rule.repeat[d.level]
          BY <1>3, <1>13, <3>1, <4>2, <4>3, <4>4
        <4> QED BY <1>7, <4>1, <4>5
      <3> QED BY <1>12, <3>2, <3>3
    <2> QED BY <2>1, <2>2, <2>6, <2>7, <2>8
  <1> QED BY <1>15, <1>16

LEMMA CommitLogs ==
  ASSUME IInv, LInv, NEW e \in Evaluators, Commit(e)
  PROVE  LInv'
  <1>1. \A t \in Targets : ~ Drafted(e, t) => state'[t] = state[t] /\ log'[t] = log[t]
    BY DEF Commit
  <1>2. \A f \in Evaluators : ev'[f] = IF f = e THEN Completed(e) ELSE ev[f]
    BY DEF IInv, TypeOK, Commit
  <1>3. LogInv'
    <2>1. log' \in [Targets -> Seq(LogEntry)]
      <3>1. \A t \in Targets : log'[t] \in Seq(LogEntry)
        BY <1>1, CommitLog DEF LInv, LogInv
      <3>2. log' = [t \in Targets |-> log'[t]]
        BY DEF Commit
      <3> QED BY <3>1, <3>2
    <2>2. ASSUME NEW t \in Targets PROVE LogFits(t)' /\ Belong(log'[t]) /\ Spaced(log'[t])
      <3>1. CASE Drafted(e, t)
        BY <3>1, CommitLog
      <3>2. CASE ~ Drafted(e, t)
        BY <1>1, <3>2 DEF LInv, LogInv, LogFits
      <3> QED BY <3>1, <3>2
    <2> QED BY <2>1, <2>2 DEF LogInv
  <1>4. DueInv'
    <2> SUFFICES ASSUME NEW f \in Evaluators, NEW d \in ev'[f].draft
                 PROVE  EventFits(state'[d.target], d, d.rule, ev'[f].at)
      BY DEF DueInv
    <2>1. f # e /\ ev'[f] = ev[f] /\ d \in ev[f].draft
      BY <1>2 DEF Completed, Resting
    <2>2. rowLock[d.target] = f /\ d.target \in Targets
      BY <2>1 DEF IInv, DraftInv, TypeOK, Evaluation, Entry
    <2>3. ~ Drafted(e, d.target)
      BY <2>1, <2>2 DEF Drafted, IInv, DraftInv
    <2> QED BY <1>1, <2>1, <2>2, <2>3 DEF LInv, DueInv
  <1> QED BY <1>3, <1>4 DEF LInv

LEMMA LogInit == Init => LInv
  BY DEF Init, LInv, LogInv, DueInv, LogFits, Belong, Spaced, Open, Resting

LEMMA LogNext == IInv /\ LInv /\ [Next]_vars => LInv'
  <1> SUFFICES ASSUME IInv, LInv, [Next]_vars PROVE LInv'
    OBVIOUS
  <1>1. CASE InputNext
    <2>1. UNCHANGED <<state, ev, log>>
      BY <1>1 DEF InputNext, StartRound, CommitCluster, FinalizeProjects, QuotaSync, EditProject,
                  ChangeRule, dbVars
    <2> QED BY <2>1, QuietLog
  <1>2. ASSUME NEW e \in Evaluators, Evaluate(e) PROVE LInv'
    <2>1. CASE Skip(e)
      BY <2>1, QuietLog DEF Skip, vars
    <2>2. CASE Begin(e)
      <3>1. PICK at \in 1..clock :
              ev' = [ev EXCEPT ![e] = [pc |-> "sampled", at |-> at, ids |-> SampleIds(at),
                                       todo |-> {}, draft |-> {}]]
        BY <2>2 DEF Begin
      <3>2. ev'[e].draft = {} /\ \A f \in Evaluators : f # e => ev'[f] = ev[f]
        BY <3>1 DEF IInv, TypeOK
      <3> QED BY <2>2, <3>2, QuietLog DEF Begin, dbVars
    <2>3. CASE LoadDirectories(e) \/ LoadGroups(e) \/ LoadProjects(e)
      <3>1. PICK pc, S : ev' = [ev EXCEPT ![e].pc = pc, ![e].todo = Loaded(S)]
        BY <2>3 DEF LoadDirectories, LoadGroups, LoadProjects, Load
      <3>2. UNCHANGED <<state, log>>
        BY <2>3 DEF LoadDirectories, LoadGroups, LoadProjects, Load, dbVars
      <3>3. ev \in [Evaluators -> Evaluation]
        BY DEF IInv, TypeOK
      <3>4. \A f \in Evaluators : ev'[f].draft = ev[f].draft /\ ev'[f].at = ev[f].at
        BY <3>1, <3>3 DEF Evaluation
      <3> QED BY <3>2, <3>4, QuietLog
    <2>4. CASE Abort(e)
      <3>1. \A f \in Evaluators : ev'[f] = IF f = e THEN Resting ELSE ev[f]
        BY <2>4 DEF Abort, IInv, TypeOK
      <3> QED BY <2>4, <3>1, QuietLog DEF Abort, Resting, dbVars
    <2> QED BY <1>2, <2>1, <2>2, <2>3, <2>4, EvaluateLog, CommitLogs DEF Evaluate, Work
  <1>3. CASE LockExpires \/ UNCHANGED vars
    BY <1>3, QuietLog DEF LockExpires, vars, dbVars
  <1> QED BY <1>1, <1>2, <1>3 DEF Next, InputNext

-----------------------------------------------------------------------------
(* Theorems                                                                *)

\* Every variable keeps its type: the count of a state row never passes 2, and
\* a state row is only looked into when the table holds one.
THEOREM TypeCorrect == Spec => []TypeOK
  <1>1. IInv => TypeOK
    BY DEF IInv
  <1> QED BY <1>1, InvInit, InvNext, PTL DEF Spec

\* An observation is never evaluated twice or after a newer one, whatever
\* evaluators overlap after their Redis lock expired: the locks on the state
\* rows and the test on last_observed_at suffice.
THEOREM InOrder == Spec => []ObservationsInOrder
  <1>1. IInv => ObservationsInOrder
    BY DEF IInv
  <1> QED BY <1>1, InvInit, InvNext, PTL DEF Spec

\* An alert is open exactly while the last two observations of its target
\* breach the rule that both were made under.
THEOREM OpenAlerts == Spec => []OpenIffTwoBreaches
  <1>1. IInv => OpenIffTwoBreaches
    <2> SUFFICES ASSUME IInv, NEW t \in Targets
                 PROVE  (state[t] # NoState /\ state[t].level # NoLevel) <=> TwoBreaches(t)
      BY DEF OpenIffTwoBreaches
    <2>1. RowFollowsHistory(t)
      BY DEF IInv, HistoryInv
    <2>2. CASE state[t] # NoState
      BY <2>1, <2>2 DEF RowFollowsHistory, CountFits
    <2>3. CASE state[t] = NoState
      BY <2>1, <2>3 DEF RowFollowsHistory, TwoBreaches
    <2> QED BY <2>2, <2>3
  <1> QED BY <1>1, InvInit, InvNext, PTL DEF Spec

\* Every escalation, repetition and recovery belongs to an alert that was triggered under the
\* same rule and has not recovered, and a repetition keeps its distance from everything told
\* about the alert before, for all rules, evaluators and edits.
THEOREM EventsDue == Spec => []EventsAreDue
  <1>1. IInv /\ LInv => EventsAreDue
    BY LogInvDue DEF LInv
  <1>2. Init => IInv /\ LInv
    BY InvInit, LogInit
  <1>3. (IInv /\ LInv) /\ [Next]_vars => (IInv /\ LInv)'
    BY InvNext, LogNext
  <1> QED BY <1>1, <1>2, <1>3, PTL DEF Spec

-----------------------------------------------------------------------------
(* One value, one observation.                                             *)

\* The transactions do not overlap: no evaluator has lost the Redis lock while it works.
OneEvaluates == \A e, f \in Evaluators : ev[e].pc # "idle" /\ ev[f].pc # "idle" => e = f

\* The value that was written to t's row at src and evaluated at a sample time: the row does not
\* carry it with a newer stamp, and the round in progress does not write it again.
Behind(t, src, at) ==
    /\ src <= clock
    /\ src = row[t].src => row[t].at <= at
    /\ t \in pending => src # round

\* A row that the round has yet to collect holds a value of before the round or of a quota
\* adjustment.
PendingIsOld == \A t \in Dated : t \in pending => row[t].src # round

SeenIsBehind == \A t \in Dated : \A i \in DOMAIN seen[t] : Behind(t, seen[t][i].src, seen[t][i].at)

Carried(e) == ev[e].todo \cup ev[e].draft

\* What an evaluator has loaded was not evaluated before at an earlier sample time.
Unspent(t, src, at) == \A i \in DOMAIN seen[t] : seen[t][i].src = src => at <= seen[t][i].at

CarriedFits ==
    \A e \in Evaluators : \A d \in Carried(e) :
        d.target \in Dated => Behind(d.target, d.src, ev[e].at) /\ Unspent(d.target, d.src, ev[e].at)

RestIsEmpty == \A e \in Evaluators : ev[e].pc = "idle" => Carried(e) = {}

CountInv == PendingIsOld /\ SeenIsBehind /\ CarriedFits /\ RestIsEmpty /\ DatedRefreshesCountOnce

LEMMA StampTypes ==
  ASSUME IInv
  PROVE  /\ clock \in Nat /\ round \in Nat /\ round <= clock /\ InputOK
         /\ \A t \in Targets : row[t].at \in Nat /\ row[t].src \in Nat /\ row[t].src <= clock
         /\ \A e \in Evaluators : ev[e].at \in Nat
         /\ \A t \in Targets : \A i \in DOMAIN seen[t] : seen[t][i].at \in Nat /\ seen[t][i].src \in Nat
         /\ \A e \in Evaluators : \A d \in Carried(e) : d.target \in Targets /\ d.src \in Nat
  <1>1. clock \in Nat /\ round \in Nat /\ round <= clock
    BY BoundsAssumption DEF IInv, TypeOK
  <1>2. InputOK
    BY DEF IInv, TypeOK, InputOK, Row
  <1>3. \A t \in Targets : row[t].at \in Nat /\ row[t].src \in Nat /\ row[t].src <= clock
    BY <1>1, <1>2 DEF InputOK, Row
  <1>4. \A e \in Evaluators : ev[e].at \in Nat
    BY BoundsAssumption DEF IInv, TypeOK, Evaluation
  <1>5. ASSUME NEW t \in Targets, NEW i \in DOMAIN seen[t]
        PROVE  seen[t][i].at \in Nat /\ seen[t][i].src \in Nat
    <2>1. seen[t] \in Seq(Obs)
      BY DEF IInv, HistoryInv
    <2>2. seen[t][i] \in Obs
      BY <1>5, <2>1
    <2> QED BY <2>2, BoundsAssumption DEF Obs
  <1>6. ASSUME NEW e \in Evaluators, NEW d \in Carried(e)
        PROVE  d.target \in Targets /\ d.src \in Nat
    <2>1. ev[e] \in Evaluation
      BY DEF IInv, TypeOK
    <2>2. d \in Job \/ d \in Entry
      BY <1>6, <2>1 DEF Carried, Evaluation
    <2> QED BY <2>2, BoundsAssumption DEF Job, Entry
  <1> QED BY <1>1, <1>2, <1>3, <1>4, <1>5, <1>6

\* A value that is behind stays behind, whatever is collected, restamped or edited.
LEMMA BehindStays ==
  ASSUME IInv, InputNext, PendingIsOld, NEW t \in Dated, NEW src \in Nat, NEW at \in Nat,
         Behind(t, src, at)
  PROVE  /\ Behind(t, src, at)'
         /\ t \in pending' => row'[t].src # round'
  <1>1. /\ clock \in Nat /\ round \in Nat /\ round <= clock
        /\ row[t].at \in Nat /\ row[t].src \in Nat /\ row[t].src <= clock
        /\ t \in Targets /\ t \notin Projects
    BY StampTypes, TargetsAssumption DEF Targets, Dated
  <1>2. t \in pending => row[t].src # round
    BY DEF PendingIsOld
  <1> USE DEF Behind
  <1>3. CASE StartRound
    BY <1>1, <1>3 DEF StartRound
  <1>4. CASE CommitCluster
    <2>1. PICK S \in SUBSET pending \ {{}} :
            \E kept \in SUBSET {u \in S : row[u].at > round} :
              \E values \in [S \ kept -> Ratios] :
                /\ row' = [u \in Targets |-> IF u \in kept THEN [row[u] EXCEPT !.at = round]
                                             ELSE Refreshed(values)[u]]
                /\ pending' = pending \ S
      BY <1>4 DEF CommitCluster
    <2>2. PICK kept \in SUBSET {u \in S : row[u].at > round} :
            \E values \in [S \ kept -> Ratios] :
              /\ row' = [u \in Targets |-> IF u \in kept THEN [row[u] EXCEPT !.at = round]
                                           ELSE Refreshed(values)[u]]
              /\ pending' = pending \ S
      BY <2>1
    <2>20. PICK values \in [S \ kept -> Ratios] :
              /\ row' = [u \in Targets |-> IF u \in kept THEN [row[u] EXCEPT !.at = round]
                                           ELSE Refreshed(values)[u]]
              /\ pending' = pending \ S
      BY <2>2
    <2>3. UNCHANGED <<clock, round>>
      BY <1>4 DEF CommitCluster
    <2>4. CASE t \in kept
      <3>1. row[t] \in Row(clock)
        BY <1>1, StampTypes DEF InputOK
      <3>2. row'[t].src = row[t].src /\ row'[t].at = round /\ round < row[t].at
        BY <1>1, <2>20, <2>4, <3>1 DEF Row
      <3>3. t \notin pending'
        BY <2>20, <2>4
      <3> QED BY <1>1, <2>3, <3>2, <3>3
    <2>5. CASE t \in S \ kept
      <3>1. row'[t].src = round /\ t \notin pending' /\ t \in pending
        BY <1>1, <2>1, <2>20, <2>5 DEF Refreshed
      <3> QED BY <1>1, <2>3, <3>1
    <2>6. CASE t \notin S
      <3>1. row'[t] = row[t] /\ (t \in pending' <=> t \in pending)
        BY <1>1, <2>20, <2>6 DEF Refreshed
      <3> QED BY <1>1, <1>2, <2>3, <3>1
    <2> QED BY <2>4, <2>5, <2>6
  <1>5. CASE FinalizeProjects
    <2>1. row'[t] = row[t]
      BY <1>1, <1>5 DEF FinalizeProjects, Refreshed
    <2> QED BY <1>1, <1>5, <2>1 DEF FinalizeProjects
  <1>6. ASSUME NEW u \in Dated, QuotaSync(u)
        PROVE  Behind(t, src, at)' /\ (t \in pending' => row'[t].src # round')
    <2>1. clock' = clock + 1 /\ UNCHANGED <<round, pending>>
      BY <1>6 DEF QuotaSync
    <2>2. row'[t] = row[t] \/ row'[t].src = clock + 1
      BY <1>1, <1>6, StampTypes DEF QuotaSync, InputOK
    <2>3. CASE row'[t] = row[t]
      BY <1>1, <1>2, <2>1, <2>3
    <2>4. CASE row'[t].src = clock + 1
      BY <1>1, <2>1, <2>4
    <2> QED BY <2>2, <2>3, <2>4
  <1>7. ASSUME NEW p \in Projects, EditProject(p)
        PROVE  Behind(t, src, at)' /\ (t \in pending' => row'[t].src # round')
    <2>1. clock' = clock + 1 /\ UNCHANGED <<round, pending>> /\ row'[t] = row[t]
      BY <1>1, <1>7, StampTypes DEF EditProject, InputOK
    <2> QED BY <1>1, <1>2, <2>1
  <1>8. ASSUME NEW u \in Targets, ChangeRule(u)
        PROVE  Behind(t, src, at)' /\ (t \in pending' => row'[t].src # round')
    BY <1>1, <1>2, <1>8 DEF ChangeRule
  <1> QED BY <1>3, <1>4, <1>5, <1>6, <1>7, <1>8 DEF InputNext

LEMMA CountInput == ASSUME IInv, CountInv, InputNext PROVE CountInv'
  <1>1. UNCHANGED <<seen, ev>>
    BY DEF InputNext, StartRound, CommitCluster, FinalizeProjects, QuotaSync, EditProject,
           ChangeRule, dbVars
  <1>2. PendingIsOld'
    <2> SUFFICES ASSUME NEW t \in Dated PROVE t \in pending' => row'[t].src # round'
      BY DEF PendingIsOld
    <2>1. t \in Targets
      BY DEF Targets
    <2>2. row[t].src \in Nat /\ row[t].at \in Nat /\ Behind(t, row[t].src, row[t].at)
      BY <2>1, StampTypes DEF Behind, CountInv, PendingIsOld
    <2> QED BY <2>2, BehindStays DEF CountInv
  <1>3. SeenIsBehind'
    <2> SUFFICES ASSUME NEW t \in Dated, NEW i \in DOMAIN seen[t]
                 PROVE  Behind(t, seen[t][i].src, seen[t][i].at)'
      BY <1>1 DEF SeenIsBehind
    <2> DEFINE src == seen[t][i].src
               at == seen[t][i].at
    <2>1. src \in Nat /\ at \in Nat /\ Behind(t, src, at)
      BY StampTypes DEF CountInv, SeenIsBehind, Targets
    <2>2. src' = src /\ at' = at
      BY <1>1
    <2> HIDE DEF src, at
    <2>3. ASSUME NEW x \in Nat, NEW y \in Nat, Behind(t, x, y) PROVE Behind(t, x, y)'
      BY <2>3, BehindStays DEF CountInv
    <2> QED BY <2>1, <2>2, <2>3 DEF Behind, src, at
  <1>4. CarriedFits'
    <2> SUFFICES ASSUME NEW e \in Evaluators, NEW d \in Carried(e), d.target \in Dated
                 PROVE  Behind(d.target, d.src, ev[e].at)' /\ Unspent(d.target, d.src, ev[e].at)'
      BY <1>1 DEF CarriedFits, Carried
    <2>1. d.src \in Nat /\ ev[e].at \in Nat
      BY StampTypes
    <2>2. Behind(d.target, d.src, ev[e].at) /\ Unspent(d.target, d.src, ev[e].at)
      BY DEF CountInv, CarriedFits
    <2>3. ASSUME NEW y \in Nat, Behind(d.target, d.src, y) PROVE Behind(d.target, d.src, y)'
      BY <2>1, <2>3, BehindStays DEF CountInv
    <2> QED BY <1>1, <2>1, <2>2, <2>3 DEF Behind, Unspent
  <1> QED BY <1>1, <1>2, <1>3, <1>4 DEF CountInv, RestIsEmpty, Carried, DatedRefreshesCountOnce, RefreshesCountOnce

\* An evaluator rests, begins, loads or evaluates: it carries no value that CountInv does not
\* allow, and the rows and histories stay.
LEMMA CountEvaluator ==
  ASSUME IInv, CountInv, NEW e \in Evaluators,
         UNCHANGED <<clock, round, pending, row, seen>>,
         \A f \in Evaluators \ {e} : ev'[f] = ev[f],
         ev'[e].pc = "idle" => Carried(e)' = {},
         \A d \in Carried(e)' : d.target \in Dated =>
             Behind(d.target, d.src, ev'[e].at) /\ Unspent(d.target, d.src, ev'[e].at)
  PROVE  CountInv'
  <1>1. \A t \in Dated : \A src, at : Behind(t, src, at)' <=> Behind(t, src, at)
    BY DEF Behind
  <1>2. \A t \in Dated : \A src, at : Unspent(t, src, at)' <=> Unspent(t, src, at)
    BY DEF Unspent
  <1>3. PendingIsOld' /\ DatedRefreshesCountOnce'
    BY DEF CountInv, PendingIsOld, DatedRefreshesCountOnce, RefreshesCountOnce
  <1>4. SeenIsBehind'
    BY <1>1 DEF CountInv, SeenIsBehind, Behind
  <1>5. ASSUME NEW f \in Evaluators, f # e
        PROVE  Carried(f)' = Carried(f) /\ ev'[f] = ev[f]
    BY <1>5 DEF Carried
  <1>6. RestIsEmpty'
    BY <1>5 DEF CountInv, RestIsEmpty
  <1>7. CarriedFits'
    <2> SUFFICES ASSUME NEW f \in Evaluators, NEW d \in Carried(f)', d.target \in Dated
                 PROVE  Behind(d.target, d.src, ev[f].at)' /\ Unspent(d.target, d.src, ev[f].at)'
      BY DEF CarriedFits
    <2>1. Behind(d.target, d.src, ev'[f].at) /\ Unspent(d.target, d.src, ev'[f].at)
      <3>1. CASE f = e
        BY <3>1
      <3>2. CASE f # e
        BY <3>2, <1>5 DEF CountInv, CarriedFits
      <3> QED BY <3>1, <3>2
    <2> QED BY <2>1 DEF Behind, Unspent
  <1> QED BY <1>3, <1>4, <1>6, <1>7 DEF CountInv

LEMMA CountLoad ==
  ASSUME IInv, CountInv, NEW e \in Evaluators, LoadDirectories(e) \/ LoadGroups(e) \/ LoadProjects(e)
  PROVE  CountInv'
  <1>1. ASSUME NEW before, before # "idle", NEW pc \in Stages \ {"idle"}, NEW S \in SUBSET Targets,
               Load(e, before, pc, S), \A t \in S : t \in Dated => row[t].at = ev[e].at
        PROVE  CountInv'
    <2>1. ev[e] \in Evaluation /\ ev \in [Evaluators -> Evaluation]
      BY DEF IInv, TypeOK
    <2>2. ev' = [ev EXCEPT ![e].pc = pc, ![e].todo = Loaded(S)]
      BY <1>1 DEF Load
    <2> DEFINE jobs == Loaded(S)
               x == [ev[e] EXCEPT !.pc = pc, !.todo = jobs]
    <2>3. ev'[e] = x /\ \A f \in Evaluators \ {e} : ev'[f] = ev[f]
      BY <2>1, <2>2
    <2> HIDE DEF jobs
    <2>4. x.pc = pc /\ x.at = ev[e].at /\ x.draft = ev[e].draft /\ x.todo = jobs
      BY <2>1 DEF Evaluation
    <2> HIDE DEF x
    <2>5. UNCHANGED <<clock, round, pending, row, seen>>
      BY <1>1 DEF Load, inputVars, dbVars
    <2>6. ASSUME NEW d \in Carried(e)', d.target \in Dated
          PROVE  Behind(d.target, d.src, ev'[e].at) /\ Unspent(d.target, d.src, ev'[e].at)
      <3>1. CASE d \in ev[e].draft
        BY <2>3, <2>4, <2>6, <3>1 DEF CountInv, CarriedFits, Carried
      <3>2. CASE d \in jobs
        <4>1. PICK t \in S : d.target = t /\ d.src = row[t].src
          BY <3>2 DEF jobs, Loaded
        <4>2. t \in Dated /\ t \in Targets /\ row[t].at = ev[e].at
          BY <1>1, <2>6, <4>1
        <4>3. row[t].at \in Nat /\ row[t].src <= clock
          BY <4>2, StampTypes
        <4>4. Behind(t, row[t].src, ev[e].at)
          BY <4>2, <4>3 DEF Behind, CountInv, PendingIsOld
        <4>5. Unspent(t, row[t].src, ev[e].at)
          BY <4>2 DEF Unspent, CountInv, SeenIsBehind, Behind
        <4> QED BY <2>3, <2>4, <4>1, <4>4, <4>5
      <3> QED BY <2>3, <2>4, <2>6, <3>1, <3>2 DEF Carried
    <2>7. ev'[e].pc # "idle"
      BY <2>3, <2>4
    <2> QED BY <2>3, <2>5, <2>6, <2>7, CountEvaluator
  <1>2. /\ StillDated(e, Directories) \in SUBSET Targets /\ StillDated(e, Groups) \in SUBSET Targets
        /\ ev[e].ids \cap Projects \in SUBSET Targets
    BY DEF StillDated, Targets, Dated
  <1>3. /\ \A t \in StillDated(e, Directories) : row[t].at = ev[e].at
        /\ \A t \in StillDated(e, Groups) : row[t].at = ev[e].at
    BY DEF StillDated
  <1>4. \A t \in ev[e].ids \cap Projects : t \notin Dated
    BY TargetsAssumption DEF Dated
  <1>5. {"directories", "groups", "projects"} \subseteq Stages \ {"idle"}
    BY DEF Stages
  <1>6. CASE LoadDirectories(e)
    BY <1>1, <1>2, <1>3, <1>5, <1>6 DEF LoadDirectories
  <1>7. CASE LoadGroups(e)
    BY <1>1, <1>2, <1>3, <1>5, <1>7 DEF LoadGroups
  <1>8. CASE LoadProjects(e)
    BY <1>1, <1>2, <1>4, <1>5, <1>8 DEF LoadProjects
  <1> QED BY <1>6, <1>7, <1>8

LEMMA CountEvaluate ==
  ASSUME IInv, CountInv, NEW e \in Evaluators, EvaluateOne(e)
  PROVE  CountInv'
  <1>1. PICK job \in ev[e].todo :
          ev' = [ev EXCEPT ![e].todo = @ \ {job},
                           ![e].draft = IF Step(e, job).skipped THEN @
                                        ELSE @ \cup {Outcome(e, job)}]
    BY DEF EvaluateOne
  <1>2. ev[e] \in Evaluation /\ ev[e].pc # "idle"
    BY DEF IInv, TypeOK, EvaluateOne
  <1>3. /\ \A f \in Evaluators \ {e} : ev'[f] = ev[f]
        /\ ev'[e].pc = ev[e].pc /\ ev'[e].at = ev[e].at
        /\ ev'[e].todo \subseteq ev[e].todo
        /\ ev'[e].draft \subseteq ev[e].draft \cup {Outcome(e, job)}
    BY <1>1, <1>2 DEF IInv, TypeOK, Evaluation
  <1>4. UNCHANGED <<clock, round, pending, row, seen>>
    BY DEF EvaluateOne, inputVars, dbVars
  <1>5. Outcome(e, job).target = job.target /\ Outcome(e, job).src = job.src /\ job \in Carried(e)
    BY DEF Outcome, Carried
  <1>6. ASSUME NEW d \in Carried(e)', d.target \in Dated
        PROVE  Behind(d.target, d.src, ev'[e].at) /\ Unspent(d.target, d.src, ev'[e].at)
    <2>1. PICK o \in Carried(e) : o.target = d.target /\ o.src = d.src
      BY <1>3, <1>5, <1>6 DEF Carried
    <2>2. Behind(o.target, o.src, ev[e].at) /\ Unspent(o.target, o.src, ev[e].at)
      BY <1>6, <2>1 DEF CountInv, CarriedFits
    <2> QED BY <1>3, <2>1, <2>2
  <1>7. ev'[e].pc # "idle"
    BY <1>2, <1>3
  <1> QED BY <1>3, <1>4, <1>6, <1>7, CountEvaluator

\* The evaluator lets go of all it had.
LEMMA CountRest ==
  ASSUME IInv, CountInv, NEW e \in Evaluators, Begin(e) \/ Abort(e)
  PROVE  CountInv'
  <1>1. PICK x : x.todo = {} /\ x.draft = {} /\ ev' = [ev EXCEPT ![e] = x]
    BY DEF Begin, Abort, Resting
  <1>2. UNCHANGED <<clock, round, pending, row, seen>>
    BY DEF Begin, Abort, inputVars, dbVars
  <1>3. ev'[e] = x /\ \A f \in Evaluators \ {e} : ev'[f] = ev[f]
    BY <1>1 DEF IInv, TypeOK
  <1>4. Carried(e)' = {}
    BY <1>1, <1>3 DEF Carried
  <1> QED BY <1>2, <1>3, <1>4, CountEvaluator

\* A commit of an evaluator that works alone.
LEMMA CountCommit ==
  ASSUME IInv, IInv', CountInv, OneEvaluates, NEW e \in Evaluators, Commit(e)
  PROVE  CountInv'
  <1>1. UNCHANGED <<clock, round, pending, row>>
    BY DEF Commit, inputVars
  <1>2. \A f \in Evaluators : Carried(f)' = {}
    <2> SUFFICES ASSUME NEW f \in Evaluators PROVE Carried(f)' = {}
      OBVIOUS
    <2>1. CASE f = e
      <3>1. ev'[e] = Completed(e)
        BY DEF Commit, IInv, TypeOK
      <3>2. Completed(e).todo = {} /\ Completed(e).draft = {}
        BY DEF Completed, Resting
      <3> QED BY <2>1, <3>1, <3>2 DEF Carried
    <2>2. CASE f # e
      <3>1. ev[f].pc = "idle"
        BY <2>2 DEF OneEvaluates, Commit
      <3>2. ev'[f] = ev[f]
        BY <2>2 DEF Commit, IInv, TypeOK
      <3> QED BY <3>1, <3>2 DEF CountInv, RestIsEmpty, Carried
    <2> QED BY <2>1, <2>2
  <1>3. PendingIsOld' /\ CarriedFits' /\ RestIsEmpty'
    BY <1>1, <1>2 DEF CountInv, PendingIsOld, CarriedFits, RestIsEmpty
  <1>4. ASSUME NEW t \in Dated
        PROVE  /\ \A i \in DOMAIN seen'[t] : Behind(t, seen'[t][i].src, seen'[t][i].at)
               /\ \A i, j \in DOMAIN seen'[t] : i # j => seen'[t][i].src # seen'[t][j].src
    <2> DEFINE h == seen[t]
               d == Draft(e, t)
               o == Observation(e, d)
    <2>1. t \in Targets
      BY DEF Targets
    <2>2. h \in Seq(Obs) /\ seen'[t] \in Seq(Obs)
      BY <2>1 DEF IInv, HistoryInv
    <2>3. /\ \A i \in DOMAIN h : Behind(t, h[i].src, h[i].at)
          /\ \A i, j \in DOMAIN h : i # j => h[i].src # h[j].src
      BY DEF CountInv, SeenIsBehind, DatedRefreshesCountOnce, RefreshesCountOnce
    <2>4. CASE ~Drafted(e, t)
      <3>1. seen'[t] = h
        BY <2>1, <2>4 DEF Commit
      <3> QED BY <2>3, <3>1
    <2>5. CASE Drafted(e, t)
      <3>1. seen'[t] = Append(h, o)
        BY <2>1, <2>5 DEF Commit
      <3>2. d \in Carried(e) /\ d.target = t
        BY <2>5 DEF Drafted, Draft, Carried
      <3>3. o.src = d.src /\ o.at = ev[e].at
        BY DEF Observation
      <3>4. Behind(t, o.src, o.at) /\ \A i \in DOMAIN h : h[i].src = o.src => o.at <= h[i].at
        BY <3>2, <3>3 DEF CountInv, CarriedFits, Unspent
      <3> HIDE DEF o, d
      <3>5. Len(h) \in Nat /\ DOMAIN h = 1..Len(h) /\ DOMAIN seen'[t] = 1..(Len(h) + 1)
        BY <2>2, <3>1
      <3>6. seen'[t][Len(h) + 1] = o /\ \A i \in 1..Len(h) : seen'[t][i] = h[i]
        BY <2>2, <3>1
      <3>7. ASSUME NEW i \in 1..Len(h) PROVE h[i].src # o.src
        <4>1. seen'[t][i].at < seen'[t][Len(h) + 1].at
          BY <2>1, <3>5 DEF IInv, ObservationsInOrder
        <4>2. h[i].at < o.at
          BY <3>6, <4>1
        <4>3. h[i] \in Obs /\ o \in Obs
          BY <2>2, <3>5, <3>6
        <4>4. h[i].at \in Nat /\ o.at \in Nat
          BY <4>3, BoundsAssumption DEF Obs
        <4> QED BY <3>4, <3>5, <4>2, <4>4
      <3>8. ASSUME NEW i \in DOMAIN seen'[t]
            PROVE  Behind(t, seen'[t][i].src, seen'[t][i].at)
        <4>1. CASE i = Len(h) + 1
          BY <3>4, <3>6, <4>1
        <4>2. CASE i # Len(h) + 1
          <5>1. i \in 1..Len(h)
            BY <3>5, <4>2
          <5> QED BY <2>3, <3>5, <3>6, <5>1
        <4> QED BY <4>1, <4>2
      <3>9. ASSUME NEW i \in DOMAIN seen'[t], NEW j \in DOMAIN seen'[t], i # j
            PROVE  seen'[t][i].src # seen'[t][j].src
        <4>1. i = Len(h) + 1 \/ i \in 1..Len(h)
          BY <3>5
        <4>2. j = Len(h) + 1 \/ j \in 1..Len(h)
          BY <3>5
        <4>3. CASE i \in 1..Len(h) /\ j \in 1..Len(h)
          BY <2>3, <3>5, <3>6, <3>9, <4>3
        <4>4. CASE i = Len(h) + 1 /\ j \in 1..Len(h)
          BY <3>6, <3>7, <4>4
        <4>5. CASE j = Len(h) + 1 /\ i \in 1..Len(h)
          BY <3>6, <3>7, <4>5
        <4> QED BY <3>9, <4>1, <4>2, <4>3, <4>4, <4>5
      <3> QED BY <3>8, <3>9
    <2> QED BY <2>4, <2>5
  <1>5. SeenIsBehind'
    BY <1>1, <1>4 DEF SeenIsBehind, Behind
  <1>6. DatedRefreshesCountOnce'
    BY <1>4 DEF DatedRefreshesCountOnce, RefreshesCountOnce
  <1> QED BY <1>3, <1>5, <1>6 DEF CountInv

LEMMA CountInit == Init => CountInv
  <1> SUFFICES ASSUME Init PROVE CountInv
    OBVIOUS
  <1>1. \A e \in Evaluators : Carried(e) = {}
    BY DEF Init, Carried, Resting
  <1>2. \A t \in Dated : DOMAIN seen[t] = {} /\ t \notin pending
    BY DEF Init, Targets
  <1> QED BY <1>1, <1>2 DEF CountInv, PendingIsOld, SeenIsBehind, CarriedFits, RestIsEmpty,
                           DatedRefreshesCountOnce, RefreshesCountOnce

LEMMA CountStays ==
  ASSUME IInv, CountInv, UNCHANGED <<clock, round, pending, row, seen, ev>>
  PROVE  CountInv'
  BY DEF CountInv, PendingIsOld, SeenIsBehind, CarriedFits, RestIsEmpty, Carried, Behind, Unspent,
         DatedRefreshesCountOnce, RefreshesCountOnce

LEMMA CountNext == IInv /\ IInv' /\ CountInv /\ OneEvaluates /\ [Next]_vars => CountInv'
  <1> SUFFICES ASSUME IInv, IInv', CountInv, OneEvaluates, [Next]_vars PROVE CountInv'
    OBVIOUS
  <1>1. CASE InputNext
    BY <1>1, CountInput
  <1>2. ASSUME NEW e \in Evaluators, Evaluate(e) PROVE CountInv'
    <2>1. CASE Skip(e)
      BY <2>1, CountStays DEF Skip, vars
    <2>2. CASE Begin(e) \/ Abort(e)
      BY <2>2, CountRest
    <2>3. CASE LoadDirectories(e) \/ LoadGroups(e) \/ LoadProjects(e)
      BY <2>3, CountLoad
    <2>4. CASE EvaluateOne(e)
      BY <2>4, CountEvaluate
    <2>5. CASE Commit(e)
      BY <2>5, CountCommit
    <2> QED BY <1>2, <2>1, <2>2, <2>3, <2>4, <2>5 DEF Evaluate, Work
  <1>3. CASE LockExpires
    BY <1>3, CountStays DEF LockExpires, inputVars, dbVars
  <1>4. CASE UNCHANGED vars
    BY <1>4, CountStays DEF vars
  <1> QED BY <1>1, <1>2, <1>3, <1>4 DEF Next, InputNext

\* A value that a directory's or group's row was given once is one observation, for any targets,
\* rounds, quota adjustments and rules, as long as no evaluator is still at work under a lock
\* that it has lost when the next one begins.
THEOREM RefreshesCount == Spec /\ []OneEvaluates => []DatedRefreshesCountOnce
  <1>1. Spec => []IInv
    BY InvInit, InvNext, PTL DEF Spec
  <1>2. CountInv => DatedRefreshesCountOnce
    BY DEF CountInv
  <1> QED BY <1>1, <1>2, CountInit, CountNext, PTL DEF Spec
=============================================================================
