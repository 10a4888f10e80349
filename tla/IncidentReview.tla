--------------------------- MODULE IncidentReview ---------------------------
(***************************************************************************)
(* One critical incident in the hands of people and of the review agent.   *)
(* A review takes a snapshot, commits a running run under an idempotency   *)
(* key, asks the bound models in turn outside of any transaction, and      *)
(* reads the incident again before it writes an assessment and a status.   *)
(* Nobody locks the row: a request and a review write what they decided    *)
(* on the row they loaded.                                                 *)
(***************************************************************************)
EXTENDS Integers, Sequences, FiniteSets

CONSTANTS
    Reviewers,      \* Celery tasks that may review at the same time
    People,         \* users with the editor role on the incident's project
    ReviewModels,   \* number of models bound to the settings, tried in order
    MaxEvidence,    \* bound: values of last_evidence_at
    MaxSlot,        \* bound: 30-minute slots of the scheduled review
    MaxKills,       \* bound: reviewers killed
    Nobody

ASSUME ReviewAssumption ==
    /\ ReviewModels \in Nat \ {0} /\ MaxEvidence \in Nat \ {0} /\ MaxSlot \in Nat /\ MaxKills \in Nat
    /\ Nobody \notin People \cup Reviewers

Lifecycle == <<"open", "acknowledged", "investigating", "mitigated", "resolved">>
StatusSet == {Lifecycle[i] : i \in 1..5}

\* can_transition_incident, without the system's reopening
CanTransition(from, to) == \E i \in 1..4 : from = Lifecycle[i] /\ to = Lifecycle[i + 1]

\* Idempotency keys of the two triggers
LifecycleKey(status, evidence) == [trigger |-> "lifecycle", status |-> status, n |-> evidence]
ScheduledKey(s) == [trigger |-> "scheduled", status |-> "none", n |-> s]
ReviewKeys == {LifecycleKey(s, n) : s \in StatusSet, n \in 1..MaxEvidence}
              \cup {ScheduledKey(s) : s \in 0..MaxSlot}
NoKey == [trigger |-> "none", status |-> "none", n |-> 0]

Settled == {"failed", "superseded", "skipped", "succeeded"}

VARIABLES
    incident,   \* the committed row: status, last_evidence_at, slot of ai_analyzed_at (-1 if none)
    agentOn,    \* incident_ai_settings.enabled
    runs,       \* runs[k]: status of the incident_ai_runs row with this key
    reviewer,   \* what each task is doing
    redis,      \* holders of incident_ai_review:<id> and incident_ai_due_review_lock
    person,     \* the status that each user's request is about to write
    slot,       \* the current 30-minute slot
    asked,      \* history: how many reviews of a key went to the models
    kills

reviewVars == <<incident, agentOn, runs, reviewer, redis, person, slot, asked, kills>>

IncidentRow == [status : StatusSet, last : 1..MaxEvidence, analyzed : -1..MaxSlot]

NewIncident == [status |-> "open", last |-> 1, analyzed |-> -1]

IncidentSnapshot == [status |-> incident.status, last |-> incident.last]

\* snap: input_snapshot; loaded: the status of the second look
Resting == [pc |-> "idle", key |-> NoKey, snap |-> [status |-> "open", last |-> 1],
            model |-> 0, answer |-> "none", loaded |-> "none"]

ReviewInit ==
    /\ incident = NewIncident
    /\ agentOn = TRUE
    /\ runs = [k \in ReviewKeys |-> "none"]
    /\ reviewer = [r \in Reviewers |-> Resting]
    /\ redis = [l \in {"incident", "due"} |-> Nobody]
    /\ person = [p \in People |-> "none"]
    /\ slot = 0
    /\ asked = [k \in ReviewKeys |-> 0]
    /\ kills = 0

-----------------------------------------------------------------------------
(* The review agent.                                                       *)

FreeRedis(r) == [l \in {"incident", "due"} |-> IF redis[l] = r THEN Nobody ELSE redis[l]]

\* The end of a task
Rest(r) == /\ reviewer' = [reviewer EXCEPT ![r] = Resting]
           /\ redis' = FreeRedis(r)

\* The checks of review_incident before it inserts a run
Eligible(key) == agentOn /\ incident.status # "resolved" /\ runs[key] = "none"

\* Without the Redis lock, or when a check fails, the task ends
Starts(r, l, key) ==
    \/ /\ redis[l] = Nobody /\ Eligible(key)
       /\ redis' = [redis EXCEPT ![l] = r]
       /\ reviewer' = [reviewer EXCEPT ![r] = [Resting EXCEPT
               !.pc = "insert", !.key = key, !.snap = IncidentSnapshot]]
    \/ ~(redis[l] = Nobody /\ Eligible(key)) /\ UNCHANGED <<redis, reviewer>>

\* review_incident_ai_task of a message: every commit of evidence sends one, late evidence too
TakeLifecycle(r) ==
    /\ reviewer[r].pc = "idle"
    /\ Starts(r, "incident", LifecycleKey(incident.status, incident.last))
    /\ UNCHANGED <<incident, agentOn, runs, person, slot, asked, kills>>

\* list_due_incidents: unresolved and not analyzed in this interval
IsDueForReview == incident.status # "resolved" /\ incident.analyzed < slot

\* review_due_incidents_ai_task of the current slot
TakeScheduled(r) ==
    /\ reviewer[r].pc = "idle" /\ IsDueForReview
    /\ Starts(r, "due", ScheduledKey(slot))
    /\ UNCHANGED <<incident, agentOn, runs, person, slot, asked, kills>>

\* Mutant: no unique constraint on the key.
InsertRun_NoConstraint(r) ==
    /\ reviewer[r].pc = "insert"
    /\ runs' = [runs EXCEPT ![reviewer[r].key] = "running"]
    /\ asked' = [asked EXCEPT ![reviewer[r].key] = @ + 1]
    /\ reviewer' = [reviewer EXCEPT ![r].pc = "ask", ![r].model = 1]
    /\ UNCHANGED <<incident, agentOn, redis, person, slot, kills>>

\* add_run and its commit; the unique key refuses the second one
InsertRun(r) ==
    LET k == reviewer[r].key
    IN  /\ reviewer[r].pc = "insert"
        /\ \/ /\ runs[k] = "none"
              /\ runs' = [runs EXCEPT ![k] = "running"]
              /\ asked' = [asked EXCEPT ![k] = @ + 1]
              /\ reviewer' = [reviewer EXCEPT ![r].pc = "ask", ![r].model = 1]
              /\ UNCHANGED redis
           \/ runs[k] # "none" /\ Rest(r) /\ UNCHANGED <<runs, asked>>
        /\ UNCHANGED <<incident, agentOn, person, slot, kills>>

\* validate_agent_assessment: the snapshot's status or the one that follows it
Answers(snap) == {snap.status} \cup {s \in StatusSet : CanTransition(snap.status, s)}

\* One pass of the loop over the bindings: no usable answer, or the first usable one
AskModel(r) ==
    /\ reviewer[r].pc = "ask"
    /\ \/ reviewer[r].model < ReviewModels /\ reviewer' = [reviewer EXCEPT ![r].model = @ + 1]
       \/ reviewer[r].model = ReviewModels /\ reviewer' = [reviewer EXCEPT ![r].pc = "reload"]
       \/ \E s \in Answers(reviewer[r].snap) :
             reviewer' = [reviewer EXCEPT ![r].pc = "reload", ![r].answer = s]
    /\ UNCHANGED <<incident, agentOn, runs, redis, person, slot, asked, kills>>

\* What the second look at the run, the incident and the settings decides
Outcome(r) ==
    CASE reviewer[r].answer = "none" -> "failed"
      [] reviewer[r].answer # "none" /\ (\/ incident.status # reviewer[r].snap.status
                                         \/ incident.last # reviewer[r].snap.last) -> "superseded"
      [] OTHER -> IF agentOn THEN "write" ELSE "skipped"

\* Mutant: an incident that changed ends the review without settling its run.
ReloadIncident_NoResult(r) ==
    /\ reviewer[r].pc = "reload"
    /\ IF Outcome(r) = "write"
       THEN reviewer' = [reviewer EXCEPT ![r].pc = "write", ![r].loaded = incident.status]
            /\ UNCHANGED <<runs, redis>>
       ELSE Rest(r) /\ UNCHANGED runs
    /\ UNCHANGED <<incident, agentOn, person, slot, asked, kills>>

ReloadIncident(r) ==
    /\ reviewer[r].pc = "reload"
    /\ IF Outcome(r) = "write"
       THEN reviewer' = [reviewer EXCEPT ![r].pc = "write", ![r].loaded = incident.status]
            /\ UNCHANGED <<runs, redis>>
       ELSE runs' = [runs EXCEPT ![reviewer[r].key] = Outcome(r)] /\ Rest(r)
    /\ UNCHANGED <<incident, agentOn, person, slot, asked, kills>>

\* The commit of assessment, status and run; an unchanged status is not written
WriteReview(r) ==
    LET proposed == reviewer[r].answer
    IN  /\ reviewer[r].pc = "write"
        /\ incident' = [incident EXCEPT
               !.status = IF proposed = reviewer[r].loaded THEN @ ELSE proposed,
               !.analyzed = slot]
        /\ runs' = [runs EXCEPT ![reviewer[r].key] = "succeeded"]
        /\ Rest(r)
        /\ UNCHANGED <<agentOn, person, slot, asked, kills>>

\* The hard time limit, or a lost process: the run keeps the status it has
KillReviewer(r) ==
    /\ reviewer[r].pc # "idle" /\ kills < MaxKills
    /\ kills' = kills + 1
    /\ reviewer' = [reviewer EXCEPT ![r] = Resting]
    /\ UNCHANGED <<incident, agentOn, runs, redis, person, slot, asked>>

\* The TTL of 180 s or 480 s; a pool without time limits lets a task live longer
ReviewLockExpires(l) ==
    /\ redis[l] # Nobody
    /\ redis' = [redis EXCEPT ![l] = Nobody]
    /\ UNCHANGED <<incident, agentOn, runs, reviewer, person, slot, asked, kills>>

-----------------------------------------------------------------------------
(* Evidence, people, administrators and time.                              *)

\* correlate_incident commits evidence that moves last_evidence_at, or reopens the incident
AddEvidence ==
    /\ \E n \in incident.last..MaxEvidence :
         /\ n <= incident.last + 1
         /\ incident' = [incident EXCEPT !.last = n,
                                         !.status = IF @ = "resolved" THEN "open" ELSE @]
    /\ UNCHANGED <<agentOn, runs, reviewer, redis, person, slot, asked, kills>>

\* update_incident loads the row and checks the transition
OpenIncident(p) ==
    /\ person[p] = "none"
    /\ \E want \in StatusSet :
         /\ CanTransition(incident.status, want)
         /\ person' = [person EXCEPT ![p] = want]
    /\ UNCHANGED <<incident, agentOn, runs, reviewer, redis, slot, asked, kills>>

\* ... and writes it
CommitUpdate(p) ==
    /\ person[p] # "none"
    /\ incident' = [incident EXCEPT !.status = person[p]]
    /\ person' = [person EXCEPT ![p] = "none"]
    /\ UNCHANGED <<agentOn, runs, reviewer, redis, slot, asked, kills>>

SwitchAgent ==
    /\ agentOn' = ~agentOn
    /\ UNCHANGED <<incident, runs, reviewer, redis, person, slot, asked, kills>>

NextSlot ==
    /\ slot < MaxSlot
    /\ slot' = slot + 1
    /\ UNCHANGED <<incident, agentOn, runs, reviewer, redis, person, asked, kills>>

ReviewStep(r) ==
    InsertRun(r) \/ AskModel(r) \/ ReloadIncident(r) \/ WriteReview(r)

ReviewNext ==
    \/ \E r \in Reviewers : TakeLifecycle(r) \/ TakeScheduled(r) \/ ReviewStep(r) \/ KillReviewer(r)
    \/ \E l \in {"incident", "due"} : ReviewLockExpires(l)
    \/ \E p \in People : OpenIncident(p) \/ CommitUpdate(p)
    \/ AddEvidence \/ SwitchAgent \/ NextSlot

ReviewSpec == ReviewInit /\ [][ReviewNext]_reviewVars

-----------------------------------------------------------------------------
(* Correctness.                                                            *)

\* Type invariant: a reviewer asks only models that there are.
ReviewTypeOK ==
    /\ incident \in IncidentRow
    /\ agentOn \in BOOLEAN
    /\ runs \in [ReviewKeys -> {"none", "running"} \cup Settled]
    /\ reviewer \in [Reviewers -> [pc : {"idle", "insert", "ask", "reload", "write"},
                                   key : ReviewKeys \cup {NoKey},
                                   snap : [status : StatusSet, last : 1..MaxEvidence],
                                   model : 0..ReviewModels,
                                   answer : StatusSet \cup {"none"}, loaded : StatusSet \cup {"none"}]]
    /\ redis \in [{"incident", "due"} -> Reviewers \cup {Nobody}]
    /\ person \in [People -> StatusSet \cup {"none"}]
    /\ slot \in 0..MaxSlot /\ kills \in 0..MaxKills
    /\ asked \in [ReviewKeys -> Nat]

\* The models are asked for one idempotency key once, whichever tasks overlap after a lock
\* lapsed and however often the event is announced (unique key of incident_ai_runs).
AskedOnce == \A k \in ReviewKeys : asked[k] <= 1

\* A run in progress is somebody's: unless a reviewer was killed, no run stays "running"
\* without a reviewer that will settle it, whatever happens to incident, locks and settings.
RunsHaveReviewers ==
    kills = 0 => \A k \in ReviewKeys : runs[k] = "running" =>
        \E r \in Reviewers : reviewer[r].key = k /\ reviewer[r].pc \in {"ask", "reload", "write"}

\* A settled run is never settled differently by another reviewer of the same key.
SettledRunsFinal ==
    [][\A k \in ReviewKeys : runs[k] \in Settled => runs'[k] = runs[k]]_reviewVars

\* "It will not overwrite what people did": every step of the status, a review's too, leads to
\* the next status from the one the incident has (require_incident_transition).
StepsAreAdjacent ==
    [][\/ incident'.status = incident.status
       \/ incident.status = "resolved" /\ incident'.status = "open"
       \/ CanTransition(incident.status, incident'.status)]_reviewVars
=============================================================================
