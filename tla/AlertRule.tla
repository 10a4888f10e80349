----------------------------- MODULE AlertRule -----------------------------
(***************************************************************************)
(* The alert state machine of one target, without any state of its own:    *)
(* backend/services/storageAlertRuleService.py.                            *)
(*                                                                         *)
(* A rule is a record [threshold, repeat] of functions over the levels; its*)
(* signature is the rule itself (a digest of its canonical form in the     *)
(* code).  A row of storage_alert_states is a record                       *)
(* [rule, count, level, observed, notified].                               *)
(***************************************************************************)
EXTENDS Naturals, FiniteSetsExt

CONSTANTS
    NoState,    \* the target has no row in storage_alert_states
    NoRatio,    \* no utilisation, or no soft limit for a rule on soft quotas
    NoTime      \* a time column that is NULL

NoLevel == 0
Levels == 1..3                   \* important, serious, emergency

NoEvent == "none"
Notifying == {"trigger", "escalation", "repeat"}
Events == Notifying \cup {"recovery", NoEvent}

\* The highest level whose threshold is reached.
Level(rule, ratio) == Max({NoLevel} \cup {l \in Levels : ratio >= rule.threshold[l]})

\* A target without a row, or under another rule than last time: the state
\* starts afresh, an open alert is dropped without an event.
FreshState(rule, level, at) ==
    [rule |-> rule, count |-> IF level = NoLevel THEN 0 ELSE 1, level |-> NoLevel,
     observed |-> at, notified |-> NoTime]

Skipped(state) == [skipped |-> TRUE, state |-> state, event |-> NoEvent, level |-> NoLevel]
Silent(state) == [skipped |-> FALSE, state |-> state, event |-> NoEvent, level |-> NoLevel]
Raise(state, event, level) ==
    [skipped |-> FALSE, state |-> state, event |-> event, level |-> level]

Told(state, level, at) == [state EXCEPT !.level = level, !.notified = at]

\* Mutant: an observation below every threshold leaves the count of breaches.
Closed_KeepsCount(state) == [state EXCEPT !.level = NoLevel]

Closed(state) == [state EXCEPT !.count = 0, !.level = NoLevel]

\* Below every threshold.
Quiet(state) ==
    IF state.level = NoLevel THEN Silent(Closed(state)) ELSE Raise(Closed(state), "recovery", NoLevel)

\* A breach without an open alert: the second in a row opens one.
Breach(state, level, at) ==
    LET counted == [state EXCEPT !.count = @ + 1]
    IN IF counted.count < 2 THEN Silent(counted) ELSE Raise(Told(counted, level, at), "trigger", level)

\* Mutant: an escalation does not restart the wait for a repetition.
Escalate_NotTimed(state, level, at) ==
    Raise([state EXCEPT !.level = level], "escalation", level)

Escalate(state, level, at) == Raise(Told(state, level, at), "escalation", level)

\* A breach at the level of the open alert.
Persist(state, rule, level, at) ==
    IF state.notified = NoTime \/ at - state.notified >= rule.repeat[level]
    THEN Raise(Told(state, level, at), "repeat", level)
    ELSE Silent(state)

\* The step of a target whose row is under the same rule.
Advance(state, rule, level, at) ==
    LET seen == [state EXCEPT !.observed = at]
    IN CASE level = NoLevel -> Quiet(seen)
         [] level # NoLevel /\ state.level = NoLevel -> Breach(seen, level, at)
         [] level # NoLevel /\ state.level # NoLevel /\ level > state.level ->
              Escalate(seen, level, at)
         [] level # NoLevel /\ level < state.level -> Silent([seen EXCEPT !.level = level])
         [] level # NoLevel /\ level = state.level -> Persist(seen, rule, level, at)

\* Mutant: an observation may be evaluated twice.
IsStale_Older(state, at) == state # NoState /\ at < state.observed

\* An observation that is not newer than the last one evaluated.
IsStale(state, at) == state # NoState /\ at <= state.observed

\* Mutant: the signature of the rule is not compared.
Transition_AnyRule(state, rule, ratio, at) ==
    IF ratio = NoRatio \/ IsStale(state, at) THEN Skipped(state)
    ELSE LET level == Level(rule, ratio)
         IN IF state = NoState THEN Silent(FreshState(rule, level, at))
            ELSE Advance([state EXCEPT !.rule = rule], rule, level, at)

\* transition_alert_state, with the test for a missing ratio of its caller.
Transition(state, rule, ratio, at) ==
    IF ratio = NoRatio \/ IsStale(state, at) THEN Skipped(state)
    ELSE LET level == Level(rule, ratio)
         IN IF state = NoState THEN Silent(FreshState(rule, level, at))
            ELSE IF state.rule # rule THEN Silent(FreshState(rule, level, at))
            ELSE Advance(state, rule, level, at)
=============================================================================
