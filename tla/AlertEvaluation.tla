-------------------------- MODULE AlertEvaluation --------------------------
(***************************************************************************)
(* The evaluation of storage alerts next to the collection that feeds it:  *)
(* backend/celery_tasks/tasks/storage_alerts.py up to the commit of states *)
(* and events.                                                             *)
(*                                                                         *)
(* An evaluator takes the Redis lock, picks the newest sample time in one  *)
(* session, and then works through one transaction: it loads the directory *)
(* rows that still carry that time, steps each one's state row under its   *)
(* row lock, does the same for the project groups, then for the projects   *)
(* of the sample, and commits.  The collection commits the groups of a round and,   *)
(* in a later transaction, the project totals; a quota adjustment stamps   *)
(* its group with the current time.  The Redis lock can expire under a     *)
(* running evaluator (140 s against a limit of 150 s, none in a solo pool).*)
(***************************************************************************)
EXTENDS AlertRule, Sequences

CONSTANTS
    Directories,   \* user directories (StorageUsage)
    Groups,        \* project groups
    Projects,      \* projects
    Evaluators,    \* workers that may run storage_alerts_schedule_task
    NoOne,         \* a lock without a holder
    Rules,         \* alert rules in use
    Ratios,        \* utilisation values that collection can produce, NoRatio among them
    MaxTime,       \* bound on the clock
    MaxRuleChanges \* bound on edits of rules

ASSUME TargetsAssumption ==
    /\ Directories \cap Groups = {}
    /\ (Directories \cup Groups) \cap Projects = {}
ASSUME RulesAssumption ==
    \A r \in Rules : r.threshold \in [Levels -> Nat] /\ r.repeat \in [Levels -> Nat]
ASSUME RatiosAssumption == Ratios \subseteq Nat \cup {NoRatio}
ASSUME BoundsAssumption == MaxTime \in Nat /\ MaxRuleChanges \in Nat
ASSUME MarkersAssumption ==
    /\ NoTime \notin Nat
    /\ NoRatio \notin Nat
    /\ NoOne \notin Evaluators

Dated == Directories \cup Groups       \* the targets that a cluster's collection stamps
Targets == Dated \cup Projects

VARIABLES
    clock,        \* database time
    round,        \* collected_at of the collection round in progress, 0 if none
    pending,      \* the directories and groups the round has not collected yet
    row,          \* row[t]: [at: updated_at, ratio, src: when the ratio was written]
    rule,         \* rule[t]: the effective rule of the target
    state,        \* storage_alert_states, committed
    lock,         \* holder of storage_alert_evaluation_lock
    rowLock,      \* rowLock[t]: the transaction that locked t's state row
    ev,           \* what each evaluator is doing
    seen,         \* history: the observations of each target that were committed
    log,          \* history: the events of each target that were committed
    changes       \* counts towards MaxRuleChanges

dbVars == <<state, seen, log>>
inputVars == <<clock, round, pending, row, rule, changes>>
vars == <<clock, round, pending, row, rule, state, lock, rowLock, ev, seen, log, changes>>

Resting == [pc |-> "idle", at |-> 0, ids |-> {}, todo |-> {}, draft |-> {}]

NoRow == [at |-> 0, ratio |-> NoRatio, src |-> 0]

Init ==
    /\ clock = 0
    /\ round = 0
    /\ pending = {}
    /\ row = [t \in Targets |-> NoRow]
    /\ rule \in [Targets -> Rules]
    /\ state = [t \in Targets |-> NoState]
    /\ lock = NoOne
    /\ rowLock = [t \in Targets |-> NoOne]
    /\ ev = [e \in Evaluators |-> Resting]
    /\ seen = [t \in Targets |-> <<>>]
    /\ log = [t \in Targets |-> <<>>]
    /\ changes = 0

-----------------------------------------------------------------------------
(* Collection, quota adjustment and administration                         *)

\* storages_schedule_fetching_task fixes collected_at when the round begins.
StartRound ==
    /\ round = 0
    /\ clock < MaxTime
    /\ clock' = clock + 1
    /\ round' = clock + 1
    /\ pending' = Dated
    /\ UNCHANGED <<row, rule, changes, lock, rowLock, ev, dbVars>>

Refreshed(values) ==
    [t \in Targets |-> IF t \in DOMAIN values
                       THEN [at |-> round, ratio |-> values[t], src |-> round] ELSE row[t]]

\* A cluster's transaction commits the rows it refreshed, over whatever was
\* written meanwhile.  A row it did not reach, but that a quota adjustment
\* stamped since the round began, gets the round's time with the value it has.
CommitCluster ==
    /\ \E S \in SUBSET pending \ {{}} :
        \E kept \in SUBSET {t \in S : row[t].at > round} :
          \E values \in [S \ kept -> Ratios] :
            /\ row' = [t \in Targets |-> IF t \in kept THEN [row[t] EXCEPT !.at = round]
                                         ELSE Refreshed(values)[t]]
            /\ pending' = pending \ S
    /\ UNCHANGED <<clock, round, rule, changes, lock, rowLock, ev, dbVars>>

\* finalize_project_totals, after the last cluster; a project with a failed
\* cluster is left out, all are when the round fails or is killed.
FinalizeProjects ==
    /\ round # 0
    /\ \E S \in SUBSET Projects :
        \E values \in [S -> Ratios] : row' = Refreshed(values)
    /\ round' = 0
    /\ pending' = {}
    /\ UNCHANGED <<clock, rule, changes, lock, rowLock, ev, dbVars>>

\* quotaService._sync_local_quota: a new limit gives a new ratio, now.
QuotaSync(t) ==
    /\ clock < MaxTime
    /\ clock' = clock + 1
    /\ \E q \in Ratios :
         row' = [row EXCEPT ![t] = [at |-> clock + 1, ratio |-> q, src |-> clock + 1]]
    /\ UNCHANGED <<round, pending, rule, changes, lock, rowLock, ev, dbVars>>

\* A rule of a group, or the system's or project's rule that the target inherits.
ChangeRule(t) ==
    /\ changes < MaxRuleChanges
    /\ \E r \in Rules \ {rule[t]} : rule' = [rule EXCEPT ![t] = r]
    /\ changes' = changes + 1
    /\ UNCHANGED <<clock, round, pending, row, lock, rowLock, ev, dbVars>>

\* projectsCrud.update_project stamps the project, with or without a new rule,
\* and keeps its totals.
EditProject(t) ==
    /\ clock < MaxTime
    /\ clock' = clock + 1
    /\ row' = [row EXCEPT ![t].at = clock + 1]
    /\ \/ UNCHANGED <<rule, changes>>
       \/ /\ changes < MaxRuleChanges
          /\ \E r \in Rules \ {rule[t]} : rule' = [rule EXCEPT ![t] = r]
          /\ changes' = changes + 1
    /\ UNCHANGED <<round, pending, lock, rowLock, ev, dbVars>>

-----------------------------------------------------------------------------
(* storage_alerts_schedule_task                                            *)

\* _latest_alert_sample: the newest stamp of a directory or group.
IsLatestSample(at) ==
    /\ \E t \in Dated : row[t].at = at
    /\ \A t \in Dated : row[t].at <= at

\* Every target that carries it.
SampleIds(at) == {t \in Targets : row[t].at = at}

\* The lock is taken, or nothing was ever collected: the task returns.
Skip(e) ==
    /\ ev[e].pc = "idle"
    /\ lock # NoOne \/ ~ \E at \in 1..clock : IsLatestSample(at)
    /\ UNCHANGED vars

\* Acquires the Redis lock and picks the sample.
Begin(e) ==
    /\ ev[e].pc = "idle"
    /\ lock = NoOne
    /\ lock' = e
    /\ \E at \in 1..clock :
        /\ IsLatestSample(at)
        /\ ev' = [ev EXCEPT ![e] = [pc |-> "sampled", at |-> at, ids |-> SampleIds(at),
                                    todo |-> {}, draft |-> {}]]
    /\ UNCHANGED <<inputVars, rowLock, dbVars>>

Loaded(S) == {[target |-> t, ratio |-> row[t].ratio, src |-> row[t].src, rule |-> rule[t]] : t \in S}

\* Mutant: the directory and group queries select by id alone.
StillDated_ById(e, S) == ev[e].ids \cap S

\* The directory and group queries repeat the test on updated_at.
StillDated(e, S) == {t \in ev[e].ids \cap S : row[t].at = ev[e].at}

Load(e, before, pc, S) ==
    /\ ev[e].pc = before
    /\ ev[e].todo = {}
    /\ ev' = [ev EXCEPT ![e].pc = pc, ![e].todo = Loaded(S)]
    /\ UNCHANGED <<inputVars, lock, rowLock, dbVars>>

LoadDirectories(e) == Load(e, "sampled", "directories", StillDated(e, Directories))
LoadGroups(e) == Load(e, "directories", "groups", StillDated(e, Groups))

\* The project query does not repeat it.
LoadProjects(e) == Load(e, "groups", "projects", ev[e].ids \cap Projects)

\* Mutant: a plain SELECT.
RowFree_PlainSelect(e, t) == TRUE

\* SELECT ... FOR UPDATE waits for the transaction that locked the row; so does
\* the insertion of a missing row that another transaction is inserting.
RowFree(e, t) == rowLock[t] \in {NoOne, e}

Step(e, job) == Transition(state[job.target], job.rule, job.ratio, ev[e].at)

\* What the session holds until the transaction commits: the new state row and
\* the event row, and what they were made from.
Outcome(e, job) ==
    [target |-> job.target, state |-> Step(e, job).state, event |-> Step(e, job).event,
     level |-> Step(e, job).level, rule |-> job.rule, src |-> job.src,
     breach |-> Level(job.rule, job.ratio) # NoLevel]

\* _evaluate_one on one loaded target: a target without a ratio is passed over
\* before its row is locked; an insertion that meets another's row steps again
\* from that row.
EvaluateOne(e) ==
    /\ ev[e].pc \in {"directories", "groups", "projects"}
    /\ \E job \in ev[e].todo :
        /\ job.ratio = NoRatio \/ RowFree(e, job.target)
        /\ rowLock' = IF job.ratio = NoRatio THEN rowLock ELSE [rowLock EXCEPT ![job.target] = e]
        /\ ev' = [ev EXCEPT ![e].todo = @ \ {job},
                            ![e].draft = IF Step(e, job).skipped THEN @
                                         ELSE @ \cup {Outcome(e, job)}]
    /\ UNCHANGED <<inputVars, lock, dbVars>>

Unlock(e) == [t \in Targets |-> IF rowLock[t] = e THEN NoOne ELSE rowLock[t]]

Drafted(e, t) == \E d \in ev[e].draft : d.target = t
Draft(e, t) == CHOOSE d \in ev[e].draft : d.target = t

Observation(e, d) == [at |-> ev[e].at, src |-> d.src, rule |-> d.rule, breach |-> d.breach]
Event(e, d) == [event |-> d.event, at |-> ev[e].at, level |-> d.level, rule |-> d.rule]

\* The task returns what it evaluated: even an evaluation that changed no row
\* differs from an aborted one.
Completed(e) == [Resting EXCEPT !.at = ev[e].at]

\* The transaction commits states and events together; the Redis lock is
\* released if it is still this evaluator's.
Commit(e) ==
    /\ ev[e].pc = "projects"
    /\ ev[e].todo = {}
    /\ state' = [t \in Targets |-> IF Drafted(e, t) THEN Draft(e, t).state ELSE state[t]]
    /\ seen' = [t \in Targets |->
                  IF Drafted(e, t) THEN Append(seen[t], Observation(e, Draft(e, t))) ELSE seen[t]]
    /\ log' = [t \in Targets |->
                  IF Drafted(e, t) /\ Draft(e, t).event # NoEvent
                  THEN Append(log[t], Event(e, Draft(e, t))) ELSE log[t]]
    /\ rowLock' = Unlock(e)
    /\ lock' = IF lock = e THEN NoOne ELSE lock
    /\ ev' = [ev EXCEPT ![e] = Completed(e)]
    /\ UNCHANGED inputVars

\* An error, or a deadlock the database resolves against this transaction: the
\* transaction is rolled back.  A killed worker does not release the Redis lock.
Abort(e) ==
    /\ ev[e].pc # "idle"
    /\ rowLock' = Unlock(e)
    /\ \/ lock' = IF lock = e THEN NoOne ELSE lock
       \/ lock' = lock
    /\ ev' = [ev EXCEPT ![e] = Resting]
    /\ UNCHANGED <<inputVars, dbVars>>

\* Mutant: the lock is taken without a timeout.
LockExpires_NoTimeout ==
    /\ FALSE
    /\ lock # NoOne
    /\ lock' = NoOne
    /\ UNCHANGED <<inputVars, rowLock, ev, dbVars>>

\* The Redis lock times out, whether or not its holder still works.
LockExpires ==
    /\ lock # NoOne
    /\ lock' = NoOne
    /\ UNCHANGED <<inputVars, rowLock, ev, dbVars>>

Work(e) == LoadDirectories(e) \/ LoadGroups(e) \/ LoadProjects(e) \/ EvaluateOne(e) \/ Commit(e)
Evaluate(e) == Skip(e) \/ Begin(e) \/ Work(e) \/ Abort(e)

Next ==
    \/ StartRound \/ CommitCluster \/ FinalizeProjects
    \/ \E t \in Dated : QuotaSync(t)
    \/ \E t \in Projects : EditProject(t)
    \/ \E t \in Targets : ChangeRule(t)
    \/ \E e \in Evaluators : Evaluate(e)
    \/ LockExpires

Spec == Init /\ [][Next]_vars

\* The beat starts the task every minute, a worker works while it is not
\* killed, and Redis drops the lock of a killed one.
FairSpec ==
    /\ Spec
    /\ WF_vars(\E e \in Evaluators : Begin(e))
    /\ \A e \in Evaluators : WF_vars(Work(e))
    /\ WF_vars(LockExpires)

-----------------------------------------------------------------------------
(* Properties                                                              *)

StateRow == [rule : Rules, count : 0..2, level : Levels \cup {NoLevel},
             observed : 1..MaxTime, notified : (1..MaxTime) \cup {NoTime}]

ASSUME StateAssumption == NoState \notin StateRow

Job == [target : Targets, ratio : Ratios \cup {NoRatio}, src : 0..MaxTime, rule : Rules]
Entry == [target : Targets, state : StateRow, event : Events, level : Levels \cup {NoLevel},
          rule : Rules, src : 0..MaxTime, breach : BOOLEAN]
Stages == {"idle", "sampled", "directories", "groups", "projects"}
Evaluation == [pc : Stages, at : 0..MaxTime, ids : SUBSET Targets, todo : SUBSET Job,
               draft : SUBSET Entry]

\* Clock, rows, rules, state rows, locks and evaluators' work are what the code keeps.
TypeOK ==
    /\ clock \in 0..MaxTime
    /\ round \in 0..clock
    /\ pending \subseteq Dated
    /\ row \in [Targets -> [at : 0..clock, ratio : Ratios \cup {NoRatio}, src : 0..clock]]
    /\ rule \in [Targets -> Rules]
    /\ state \in [Targets -> StateRow \cup {NoState}]
    /\ lock \in Evaluators \cup {NoOne}
    /\ rowLock \in [Targets -> Evaluators \cup {NoOne}]
    /\ changes \in 0..MaxRuleChanges
    /\ ev \in [Evaluators -> Evaluation]

\* The last two observations of a target exceed the rule that both were made under.
TwoBreaches(t) ==
    LET n == Len(seen[t])
    IN n >= 2 /\ seen[t][n].breach /\ seen[t][n - 1].breach /\ seen[t][n].rule = seen[t][n - 1].rule

\* An alert is open exactly while the last two observations of its target breach
\* one and the same rule, with evaluators overlapping after a lost Redis lock,
\* samples arriving out of order and rules edited meanwhile.
OpenIffTwoBreaches ==
    \A t \in Targets :
        (state[t] # NoState /\ state[t].level # NoLevel) <=> TwoBreaches(t)

\* No observation is evaluated twice or after a newer one: sample times of the
\* committed observations of a target grow strictly.
ObservationsInOrder ==
    \A t \in Targets : \A i, j \in DOMAIN seen[t] : i < j => seen[t][i].at < seen[t][j].at

\* Every escalation, repetition and recovery belongs to an alert that was
\* triggered under the same rule and has not recovered since.
EventsBelongToAnAlert ==
    \A t \in Targets : \A i \in DOMAIN log[t] :
        log[t][i].event # "trigger" =>
            \E j \in 1..(i - 1) :
                /\ log[t][j].event = "trigger"
                /\ log[t][j].rule = log[t][i].rule
                /\ \A k \in (j + 1)..(i - 1) : log[t][k].event # "recovery"

\* A repetition keeps its distance from every earlier notification of the alert,
\* whatever escalations and silent de-escalations came between.
RepeatsAreSpaced ==
    \A t \in Targets : \A i, j \in DOMAIN log[t] :
        (j < i /\ log[t][i].event = "repeat" /\ log[t][j].event \in Notifying
               /\ log[t][i].rule = log[t][j].rule)
            => log[t][i].at - log[t][j].at >= log[t][i].rule.repeat[log[t][i].level]

\* Nobody is told of what the rule does not call for: neither of the end or the going on of
\* an alert that is not there, nor again before the time of repetition is over.
EventsAreDue == EventsBelongToAnAlert /\ RepeatsAreSpaced

RefreshesCountOnce(S) ==
    \A t \in S : \A i, j \in DOMAIN seen[t] : i # j => seen[t][i].src # seen[t][j].src

\* A value that a directory's or group's row was given once is one observation,
\* not two: the two breaches in a row that open an alert come from two different
\* refreshes, however quota adjustments restamp rows under a collection round.
\* One evaluator at a time: two that overlap may evaluate a restamped value twice.
DatedRefreshesCountOnce == RefreshesCountOnce(Dated)

\* The same of projects, whose rows an edit restamps without new totals.
ProjectRefreshesCountOnce == RefreshesCountOnce(Projects)

Collected == clock = MaxTime /\ round = 0
Evaluated(t) ==
    (\E at \in 1..clock : IsLatestSample(at) /\ row[t].at = at) /\ row[t].ratio # NoRatio
        => state[t] # NoState /\ state[t].observed >= row[t].at

\* Once collection rests, every target of the newest sample, the projects that
\* were totalled after the first evaluation of that sample included, is
\* evaluated, unless workers fail for ever.
FreshSampleEvaluated ==
    <>[][\A e \in Evaluators : ~ Abort(e)]_vars
        => (Collected ~> \A t \in Targets : Evaluated(t))
=============================================================================
