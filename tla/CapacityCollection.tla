------------------------- MODULE CapacityCollection -------------------------
(***************************************************************************)
(* Rounds of storages_schedule_fetching_task, scheduled every minute and   *)
(* triggered for one cluster after its registration.  A round reads the    *)
(* configuration once, collects each cluster in a transaction of its own,  *)
(* totals the projects of which every cluster succeeded and appends the    *)
(* totals to the trends in QuestDB.  Administrators move groups meanwhile, *)
(* workers are killed, commits lose their answer.  A reading stands for    *)
(* all that a round learns of one group; the rows of volumes, qtrees and   *)
(* directories follow the same transaction and are left out.               *)
(***************************************************************************)
EXTENDS Integers, FiniteSets

CONSTANTS
    Clusters,
    Unsupported,   \* clusters of a storage type that the monitor refuses
    Groups, Projects,
    Rounds,        \* executions of the task that may happen
    MaxMoves,      \* bound: edits of groups
    MaxFaults,     \* bound: kills, lost answers, lost audit and ledger writes
    NoRound

ASSUME CollectionAssumption ==
    /\ Unsupported \subseteq Clusters /\ NoRound \notin Rounds
    /\ MaxMoves \in Nat /\ MaxFaults \in Nat

VARIABLES
    group,     \* group[g]: where it belongs, whether it is monitored, its reading
    total,     \* total[p]: the round that wrote it and the readings that it sums
    trend,     \* the points of project_storage_usages
    ledger,    \* ledger[r][c]: telemetry_collection_runs of one cluster
    audits,    \* audits[r][c]: committed audit events of one cluster
    lock,      \* storages_schedule_fetching_task_lock: the round whose token it holds
    round,     \* what each execution of the task is doing
    moves, faults \* counts towards the bounds

collectionVars == <<group, total, trend, ledger, audits, lock, round, moves, faults>>

Places == [project : Projects, cluster : Clusters]
NoReading == [round |-> NoRound]
Reading == [round : Rounds, of : Places] \cup {NoReading}

IdleRound == [pc |-> "idle", snapshot |-> {}, todo |-> {}, cluster |-> {},
              draft |-> {}, ok |-> {}, sums |-> {}]

CollectionInit ==
    /\ group \in [Groups -> {[at |-> a, monitored |-> m, reading |-> NoReading] :
                                a \in Places, m \in BOOLEAN}]
    /\ total = [p \in Projects |-> [round |-> NoRound, sums |-> {}]]
    /\ trend = {}
    /\ ledger = [r \in Rounds |-> [c \in Clusters |-> "none"]]
    /\ audits = [r \in Rounds |-> [c \in Clusters |-> {}]]
    /\ lock = NoRound
    /\ round = [r \in Rounds |-> IdleRound]
    /\ moves = 0 /\ faults = 0

Fault == faults < MaxFaults /\ faults' = faults + 1

\* The cluster that the round is at; the set is a singleton then
At(r, c) == round[r].cluster = {c}

Audited(r, c, events) == audits' = [audits EXCEPT ![r][c] = @ \cup events]
Ledgered(r, c, outcome) == ledger' = [ledger EXCEPT ![r][c] = outcome]

\* safe_complete_collection_run changes a row that exists
Completed(r, c, outcome) ==
    IF ledger[r][c] = "running" THEN Ledgered(r, c, outcome) ELSE UNCHANGED ledger

-----------------------------------------------------------------------------
(* The task takes the lock without waiting and loads its snapshot.         *)

Snapshot(scope) ==
    {<<g, group[g].at>> : g \in {h \in Groups : group[h].monitored /\ group[h].at.cluster \in scope}}

\* The schedule collects every cluster, a trigger one
BeginRound(r, scope) ==
    /\ round[r].pc = "idle" /\ lock = NoRound
    /\ scope = Clusters \/ Cardinality(scope) = 1
    /\ lock' = r
    /\ round' = [round EXCEPT ![r] = [@ EXCEPT !.pc = "next",
                                             !.snapshot = Snapshot(scope), !.todo = scope]]
    /\ UNCHANGED <<group, total, trend, ledger, audits, moves, faults>>

\* A round that finds the lock taken records that it was skipped
SkipRound(r) ==
    /\ round[r].pc = "idle" /\ lock # NoRound
    /\ round' = [round EXCEPT ![r].pc = "skipped"]
    /\ UNCHANGED <<group, total, trend, ledger, audits, lock, moves, faults>>

-----------------------------------------------------------------------------
(* run_collection_round, one cluster.                                      *)

Opened(r, c, heard, pc) ==
    /\ Audited(r, c, heard)
    /\ round' = [round EXCEPT ![r] = [@ EXCEPT !.pc = pc, !.todo = round[r].todo \ {c}, !.cluster = {c}]]

\* The ledger row and the audit of the attempt commit on their own.  A lost
\* ledger row is only logged, a lost audit fails the cluster.
OpenCluster(r, c) ==
    /\ round[r].pc = "next" /\ c \in round[r].todo
    /\ \/ UNCHANGED faults /\ Ledgered(r, c, "running") /\ Opened(r, c, {"attempt"}, "open")
       \/ Fault /\ UNCHANGED ledger /\ Opened(r, c, {"attempt"}, "open")
       \/ Fault /\ Ledgered(r, c, "running") /\ Opened(r, c, {}, "failed")
    /\ UNCHANGED <<group, total, trend, lock, moves>>

\* Mutant: the row of a group is updated by its identifier alone.
StillThere_Unchecked(r, g) == \E a \in Places : <<g, a>> \in round[r].snapshot

\* _apply_group_update: the UPDATE repeats what the snapshot said of the group
StillThere(r, g) == group[g].monitored /\ <<g, group[g].at>> \in round[r].snapshot

\* The device answers and the rows are updated, not yet committed
CollectCluster(r, c) ==
    /\ round[r].pc = "open" /\ At(r, c) /\ c \notin Unsupported
    /\ round' = [round EXCEPT ![r] = [@ EXCEPT !.pc = "updated",
           !.draft = {g \in Groups : StillThere(r, g)
                           /\ <<g, [group[g].at EXCEPT !.cluster = c]>> \in round[r].snapshot}]]
    /\ UNCHANGED <<group, total, trend, ledger, audits, lock, moves, faults>>

\* The place that the round measured for g
Measured(r, g) == (CHOOSE s \in round[r].snapshot : s[1] = g)[2]

\* The transaction commits the rows and the audit of the success.  When the
\* answer to the commit is lost the caller takes it for a failure.
CommitCluster(r, c) ==
    /\ round[r].pc = "updated" /\ At(r, c)
    /\ group' = [g \in Groups |-> IF g \in round[r].draft
                   THEN [group[g] EXCEPT !.reading = [round |-> r, of |-> Measured(r, g)]] ELSE group[g]]
    /\ Audited(r, c, {"success"})
    /\ \/ /\ round' = [round EXCEPT ![r] = [@ EXCEPT !.pc = "stored", !.draft = {}, !.ok = round[r].ok \cup {c}]]
          /\ UNCHANGED faults
       \/ /\ round' = [round EXCEPT ![r] = [@ EXCEPT !.pc = "failed", !.draft = {}]]
          /\ Fault
    /\ UNCHANGED <<total, trend, ledger, lock, moves>>

\* An error, or the soft time limit, which the handler takes for one
FailCluster(r, c) ==
    /\ round[r].pc \in {"open", "updated"} /\ At(r, c)
    /\ round' = [round EXCEPT ![r] = [@ EXCEPT !.pc = "failed", !.draft = {}]]
    /\ UNCHANGED <<group, total, trend, ledger, audits, lock, moves, faults>>

\* Mutant: the success is reported before the rows commit.
Reportable_BeforeCommit(r) == round[r].pc \in {"updated", "stored"}

Reportable(r) == round[r].pc = "stored"

\* The ledger learns of the success after the commit; its write may fail.  The
\* points of the clusters are written then, an error there is logged.
ReportSuccess(r, c) ==
    /\ Reportable(r) /\ At(r, c)
    /\ \/ Completed(r, c, "success") /\ UNCHANGED faults
       \/ UNCHANGED ledger /\ Fault
    /\ round' = [round EXCEPT ![r] = [@ EXCEPT !.pc = "next", !.cluster = {},
                                             !.draft = {}, !.ok = round[r].ok \cup {c}]]
    /\ UNCHANGED <<group, total, trend, audits, lock, moves>>

\* The storage type is unknown to the monitor: the round goes on as after a success
ReportUnsupported(r, c) ==
    /\ round[r].pc = "open" /\ At(r, c) /\ c \in Unsupported
    /\ Completed(r, c, "success")
    /\ round' = [round EXCEPT ![r] = [@ EXCEPT !.pc = "next", !.cluster = {}, !.ok = round[r].ok \cup {c}]]
    /\ UNCHANGED <<group, total, trend, audits, lock, moves, faults>>

ReportFailure(r, c) ==
    /\ round[r].pc = "failed" /\ At(r, c)
    /\ Completed(r, c, "failed")
    /\ \/ Audited(r, c, {"failure"}) /\ UNCHANGED faults
       \/ UNCHANGED audits /\ Fault
    /\ round' = [round EXCEPT ![r] = [@ EXCEPT !.pc = "next", !.cluster = {}]]
    /\ UNCHANGED <<group, total, trend, lock, moves>>

-----------------------------------------------------------------------------
(* finalize_project_totals and write_project_usage_metrics.                *)

Members(p) == {g \in Groups : group[g].monitored /\ group[g].at.project = p}

\* Mutant: it is enough that no cluster of the round has failed.
Whole_NoneFailed(r, p) == \E g \in Members(p) : group[g].at.cluster \in round[r].ok

\* Every cluster that holds a group of the project has succeeded in this round
Whole(r, p) == \A g \in Members(p) : group[g].at.cluster \in round[r].ok

\* One query reads the groups; a round in which every cluster failed ends here
SumProjects(r) ==
    /\ round[r].pc = "next" /\ round[r].todo = {} /\ round[r].ok # {}
    /\ round' = [round EXCEPT ![r] = [@ EXCEPT !.pc = "summed", !.sums =
           {[project |-> p,
              groups |-> {[at |-> group[g].at, reading |-> group[g].reading] : g \in Members(p)}] :
               p \in {q \in Projects : Members(q) # {} /\ Whole(r, q)}}]]
    /\ UNCHANGED <<group, total, trend, ledger, audits, lock, moves, faults>>

SumOf(r, p) == (CHOOSE s \in round[r].sums : s.project = p).groups
Summed(r) == {s.project : s \in round[r].sums}

CommitTotals(r) ==
    /\ round[r].pc = "summed"
    /\ total' = [p \in Projects |->
           IF p \in Summed(r) THEN [round |-> r, sums |-> SumOf(r, p)] ELSE total[p]]
    /\ round' = [round EXCEPT ![r].pc = "totalled"]
    /\ UNCHANGED <<group, trend, ledger, audits, lock, moves, faults>>

\* The rows are read again after the commit and written with the time of this
\* round; when QuestDB fails the points of the round are missing
WriteTrend(r) ==
    /\ round[r].pc = "totalled"
    /\ \/ trend' = trend \cup {[project |-> p, round |-> r, point |-> total[p]] : p \in Summed(r)}
       \/ UNCHANGED trend
    /\ round' = [round EXCEPT ![r].pc = "written"]
    /\ UNCHANGED <<group, total, ledger, audits, lock, moves, faults>>

\* The end of the task: a lock whose token is not the round's is left alone
EndRound(r) ==
    /\ \/ round[r].pc = "written"
       \/ round[r].pc = "next" /\ round[r].todo = {} /\ round[r].ok = {}
       \/ round[r].pc = "summed"
    /\ round' = [round EXCEPT ![r] = [IdleRound EXCEPT !.pc = "ended"]]
    /\ lock' = IF lock = r THEN NoRound ELSE lock
    /\ UNCHANGED <<group, total, trend, ledger, audits, moves, faults>>

-----------------------------------------------------------------------------
(* What happens around the rounds.                                         *)

Running(r) == round[r].pc \notin {"idle", "skipped", "ended", "killed"}

\* The hard time limit of 180 s or the death of the worker
KillRound(r) ==
    /\ Running(r) /\ Fault
    /\ round' = [round EXCEPT ![r] = [IdleRound EXCEPT !.pc = "killed"]]
    /\ UNCHANGED <<group, total, trend, ledger, audits, lock, moves>>

\* Mutant: the lock lapses while its round runs.
Expirable_Early(r) == Rounds # {}

\* The lock lives for 240 s, longer than any round that the pool may kill
Expirable(r) == ~Running(r)

ExpireLock ==
    /\ \E r \in Rounds : lock = r /\ Expirable(r)
    /\ lock' = NoRound
    /\ UNCHANGED <<group, total, trend, ledger, audits, round, moves, faults>>

\* update_group waits for the row lock of a transaction that has updated the group
EditGroup(g, at, monitored) ==
    /\ moves < MaxMoves /\ moves' = moves + 1
    /\ \A r \in Rounds : g \notin round[r].draft
    /\ group' = [group EXCEPT ![g] = [@ EXCEPT !.at = at, !.monitored = monitored]]
    /\ UNCHANGED <<total, trend, ledger, audits, lock, round, faults>>

CollectionNext ==
    \/ \E r \in Rounds :
         \/ \E scope \in SUBSET Clusters : BeginRound(r, scope)
         \/ SkipRound(r) \/ SumProjects(r) \/ CommitTotals(r)
         \/ WriteTrend(r) \/ EndRound(r) \/ KillRound(r)
         \/ \E c \in Clusters :
              \/ OpenCluster(r, c) \/ CollectCluster(r, c) \/ CommitCluster(r, c) \/ FailCluster(r, c)
              \/ ReportSuccess(r, c) \/ ReportUnsupported(r, c) \/ ReportFailure(r, c)
    \/ ExpireLock
    \/ \E g \in Groups, at \in Places, monitored \in BOOLEAN : EditGroup(g, at, monitored)

CollectionSpec == CollectionInit /\ [][CollectionNext]_collectionVars

-----------------------------------------------------------------------------
(* Properties.                                                             *)

Sum == [at : Places, reading : Reading]

\* Type invariant: rows, ledger, audits and rounds stay within their domains.
CollectionTypeOK ==
    /\ group \in [Groups -> [at : Places, monitored : BOOLEAN, reading : Reading]]
    /\ \A p \in Projects : total[p].round \in Rounds \cup {NoRound} /\ total[p].sums \subseteq Sum
    /\ \A x \in trend : x.project \in Projects /\ x.round \in Rounds
    /\ ledger \in [Rounds -> [Clusters -> {"none", "running", "success", "failed"}]]
    /\ audits \in [Rounds -> [Clusters -> SUBSET {"attempt", "success", "failure"}]]
    /\ lock \in Rounds \cup {NoRound}
    /\ \A r \in Rounds :
         /\ round[r].snapshot \subseteq Groups \X Places /\ round[r].draft \subseteq Groups
         /\ round[r].ok \subseteq Clusters /\ round[r].todo \subseteq Clusters \ round[r].ok
         /\ round[r].pc = "open" => \E c \in Clusters : At(r, c)

\* A group that was moved to another project or cluster while a round was under
\* way does not get what the round measured for its old place
\* (the conditions of _apply_group_update and the row lock up to the commit).
ReadingsFitTheirGroup ==
    [][\A g \in Groups : group'[g].reading # group[g].reading =>
         group'[g].reading.of = group'[g].at]_collectionVars

\* A project total rests on a successful round of every cluster that its groups
\* lie on, also when groups move between clusters and some clusters fail
\* (the gate of finalize_project_totals).
TotalsNeedEveryCluster ==
    \A p \in Projects : \A s \in total[p].sums :
      s.at.cluster \in Unsupported \/ "success" \in audits[total[p].round][s.at.cluster]

\* A point of a project's trend carries the total that the same round computed,
\* although it is read again after the commit (the lock outlives the rounds).
TrendShowsItsRound == \A x \in trend : x.point.round = x.round

\* The ledger, from which the freshness of the data is told, claims a success
\* only for a cluster whose rows are committed
\* (the order of run_collection_round; docs/features/storage/observability/overview.md:8).
LedgerIsHonest ==
    \A r \in Rounds, c \in Clusters \ Unsupported :
      ledger[r][c] = "success" => {"attempt", "success"} \subseteq audits[r][c]
=============================================================================
