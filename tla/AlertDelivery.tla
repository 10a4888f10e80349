--------------------------- MODULE AlertDelivery ---------------------------
(***************************************************************************)
(* Delivery of storage alerts to Feishu by Celery workers:                 *)
(* backend/celery_tasks/tasks/storage_alerts.py, from the commit of an     *)
(* alert row to its final delivery_status.                                 *)
(*                                                                         *)
(* A worker takes a message for an alert, leases the row in one database   *)
(* transaction (_prepare_delivery_attempt), sends to the recipients one by *)
(* one outside any transaction (FeishuNotificationService.send) and writes *)
(* the result in a second transaction (_record_delivery_result).  Between  *)
(* the two it may be killed; the row then stays "delivering" until         *)
(* retry_storage_alerts_task finds its lease expired.  Celery acknowledges *)
(* a message when it is taken, so a killed worker's message is gone.       *)
(*                                                                         *)
(* Times are countdowns: due[a] is what is left until next_attempt_at, and *)
(* task[w].left what is left of the hard time limit of w's task.           *)
(***************************************************************************)
EXTENDS Naturals, FiniteSets

CONSTANTS
    Alerts,               \* alert rows with a non-empty recipient list
    Recipients,           \* number of recipients of each alert
    Workers,              \* Celery worker processes
    NoAlert,              \* the alert of an idle worker
    NoTime,               \* next_attempt_at is NULL
    MaxDeliveryAttempts,  \* MAX_DELIVERY_ATTEMPTS
    RetryDelay,           \* RETRY_DELAYS_SECONDS, indexed from 1
    Lease,                \* DELIVERY_ATTEMPT_LEASE_SECONDS
    TimeLimit,            \* hard time limit of deliver_storage_alert_task
    ScanLimit,            \* LIMIT of the query of retry_storage_alerts_task
    QueueBound,           \* bound on the messages queued for one alert
    AttemptBound,         \* bound on delivery_attempts, which the code does not bound
    MaxCrashes,           \* bound on killed tasks and lost messages
    MaxToggles            \* bound on restarts that flip feishu_notification.enabled

ASSUME CountsAssumption ==
    /\ Recipients \in Nat \ {0}
    /\ MaxDeliveryAttempts \in Nat \ {0}
    /\ QueueBound \in Nat \ {0}
    /\ ScanLimit \in Nat \ {0}
    /\ AttemptBound \in Nat
    /\ MaxCrashes \in Nat
    /\ MaxToggles \in Nat

ASSUME TimesAssumption ==
    /\ Lease \in Nat \ {0}
    /\ TimeLimit \in Nat
    /\ RetryDelay \in [1..(MaxDeliveryAttempts - 1) -> Nat]
    /\ NoTime \notin Nat

ASSUME NoAlertAssumption == NoAlert \notin Alerts

VARIABLES
    status,      \* storage_alerts.delivery_status ("none": the row is not there yet)
    attempts,    \* storage_alerts.delivery_attempts
    due,         \* storage_alerts.next_attempt_at, as the time left until it
    queued,      \* deliver_storage_alert_task messages in the broker
    task,        \* what each worker process is doing
    enabled,     \* feishu_notification.enabled of the running workers
    received,    \* history: the recipients Feishu has delivered the alert to
    crashes,     \* counts towards MaxCrashes
    toggles      \* counts towards MaxToggles

rowVars == <<status, attempts, due>>
boundVars == <<crashes, toggles>>
vars == <<status, attempts, due, queued, task, enabled, received, crashes, toggles>>

Deliverable == {"pending", "retrying", "delivering"}
Settled == {"sent", "failed", "skipped"}

Task == [phase : {"idle", "sending", "error"},
         alert : Alerts \cup {NoAlert},
         attempt : Nat,
         done : 0..Recipients,
         left : 0..TimeLimit]
Idle == [phase |-> "idle", alert |-> NoAlert, attempt |-> 0, done |-> 0, left |-> 0]
Working(a, n) ==
    [phase |-> "sending", alert |-> a, attempt |-> n, done |-> 0, left |-> TimeLimit]

\* Mutant: the time is compared, the status is not.
IsDue_AnyStatus(a) == status[a] # "none" /\ due[a] \in {0, NoTime}

\* A row retry_storage_alerts_task selects and _prepare_delivery_attempt accepts.
IsDue(a) == status[a] \in Deliverable /\ due[a] = 0

\* Mutant: the scan overlooks rows whose worker died while delivering.
DueAlerts_NotDelivering == {a \in Alerts : IsDue(a) /\ status[a] # "delivering"}

DueAlerts == {a \in Alerts : IsDue(a)}

\* Rows, queued messages and tasks are what the table, the broker and the
\* workers can hold.
TypeOK ==
    /\ status \in [Alerts -> {"none"} \cup Deliverable \cup Settled]
    /\ attempts \in [Alerts -> Nat]
    /\ due \in [Alerts -> Nat \cup {NoTime}]
    /\ queued \in [Alerts -> 0..QueueBound]
    /\ task \in [Workers -> Task]
    /\ enabled \in BOOLEAN
    /\ received \in [Alerts -> SUBSET (1..Recipients)]
    /\ crashes \in 0..MaxCrashes
    /\ toggles \in 0..MaxToggles

Init ==
    /\ status = [a \in Alerts |-> "none"]
    /\ attempts = [a \in Alerts |-> 0]
    /\ due = [a \in Alerts |-> NoTime]
    /\ queued = [a \in Alerts |-> 0]
    /\ task = [w \in Workers |-> Idle]
    /\ enabled = TRUE
    /\ received = [a \in Alerts |-> {}]
    /\ crashes = 0
    /\ toggles = 0

-----------------------------------------------------------------------------
(* Producers                                                               *)

\* The evaluation (or a quota adjustment) commits a pending row that is due at
\* once; its message is enqueued only after the commit, and is lost when the
\* process dies, or the broker refuses it, in between.
CommitAlert(a) ==
    /\ status[a] = "none"
    /\ status' = [status EXCEPT ![a] = "pending"]
    /\ due' = [due EXCEPT ![a] = 0]
    /\ \/ queued' = [queued EXCEPT ![a] = 1] /\ UNCHANGED crashes
       \/ /\ crashes < MaxCrashes
          /\ crashes' = crashes + 1
          /\ UNCHANGED queued
    /\ UNCHANGED <<attempts, task, enabled, received, toggles>>

\* retry_storage_alerts_task: selects at most ScanLimit due rows, in no order,
\* and enqueues a message for each.
RetryScan ==
    \E S \in SUBSET DueAlerts :
        /\ S # {}
        /\ Cardinality(S) <= ScanLimit
        /\ Cardinality(S) = ScanLimit \/ S = DueAlerts
        /\ queued' = [a \in Alerts |->
                        IF a \in S /\ queued[a] < QueueBound THEN queued[a] + 1 ELSE queued[a]]
        /\ UNCHANGED <<rowVars, task, enabled, received, boundVars>>

-----------------------------------------------------------------------------
(* deliver_storage_alert_task                                              *)

Take(w, a) ==
    /\ task[w].phase = "idle"
    /\ queued[a] > 0
    /\ queued' = [queued EXCEPT ![a] = @ - 1]

\* _prepare_delivery_attempt returns None: settled, or leased, or backing off.
DropMessage(w, a) ==
    /\ Take(w, a)
    /\ ~IsDue(a)
    /\ UNCHANGED <<rowVars, task, enabled, received, boundVars>>

\* _prepare_delivery_attempt with the notification switched off; next_attempt_at
\* keeps its value.
SkipDelivery(w, a) ==
    /\ Take(w, a)
    /\ IsDue(a)
    /\ ~enabled
    /\ status' = [status EXCEPT ![a] = "skipped"]
    /\ UNCHANGED <<attempts, due, task, enabled, received, boundVars>>

\* Mutant: the attempt is counted but no lease is taken.
PrepareDelivery_NoLease(w, a) ==
    /\ Take(w, a)
    /\ IsDue(a)
    /\ enabled
    /\ attempts[a] < AttemptBound
    /\ status' = [status EXCEPT ![a] = "delivering"]
    /\ attempts' = [attempts EXCEPT ![a] = @ + 1]
    /\ task' = [task EXCEPT ![w] = Working(a, attempts[a] + 1)]
    /\ UNCHANGED <<due, enabled, received, boundVars>>

\* _prepare_delivery_attempt takes the lease and counts the attempt.
PrepareDelivery(w, a) ==
    /\ Take(w, a)
    /\ IsDue(a)
    /\ enabled
    /\ attempts[a] < AttemptBound
    /\ status' = [status EXCEPT ![a] = "delivering"]
    /\ attempts' = [attempts EXCEPT ![a] = @ + 1]
    /\ due' = [due EXCEPT ![a] = Lease]
    /\ task' = [task EXCEPT ![w] = Working(a, attempts[a] + 1)]
    /\ UNCHANGED <<enabled, received, boundVars>>

\* One pass of the loop of FeishuNotificationService.send.
SendNext(w) ==
    /\ task[w].phase = "sending"
    /\ task[w].done < Recipients
    /\ task' = [task EXCEPT ![w].done = @ + 1]
    /\ received' = [received EXCEPT ![task[w].alert] = @ \cup {task[w].done + 1}]
    /\ UNCHANGED <<rowVars, queued, enabled, boundVars>>

\* Mutant: the loop goes on to the next recipient after an error.
SendFails_Swallowed(w) ==
    /\ task[w].phase = "sending"
    /\ task[w].done < Recipients
    /\ task' = [task EXCEPT ![w].done = @ + 1]
    /\ UNCHANGED <<rowVars, received, queued, enabled, boundVars>>

\* The token request or a post raises; a post that timed out may have been
\* delivered.  The recipients after it are not tried.
SendFails(w) ==
    /\ task[w].phase = "sending"
    /\ task[w].done < Recipients
    /\ task' = [task EXCEPT ![w].phase = "error"]
    /\ \/ UNCHANGED received
       \/ received' = [received EXCEPT ![task[w].alert] = @ \cup {task[w].done + 1}]
    /\ UNCHANGED <<rowVars, queued, enabled, boundVars>>

\* _record_delivery_result ignores the result of an attempt that is not the latest.
Owns(w) == attempts[task[w].alert] = task[w].attempt

RecordSent(w) ==
    LET a == task[w].alert IN
    /\ status' = IF Owns(w) THEN [status EXCEPT ![a] = "sent"] ELSE status
    /\ due' = IF Owns(w) THEN [due EXCEPT ![a] = NoTime] ELSE due

RecordError(w) ==
    LET a == task[w].alert
        last == attempts[a] >= MaxDeliveryAttempts
    IN
    /\ status' = IF Owns(w)
                 THEN [status EXCEPT ![a] = IF last THEN "failed" ELSE "retrying"]
                 ELSE status
    /\ due' = IF Owns(w)
              THEN [due EXCEPT ![a] = IF last THEN NoTime ELSE RetryDelay[attempts[a]]]
              ELSE due

RecordResult(w) ==
    /\ \/ task[w].phase = "sending" /\ task[w].done = Recipients /\ RecordSent(w)
       \/ task[w].phase = "error" /\ RecordError(w)
    /\ task' = [task EXCEPT ![w] = Idle]
    /\ UNCHANGED <<attempts, queued, enabled, received, boundVars>>

-----------------------------------------------------------------------------
(* Environment                                                             *)

\* A worker is killed (hard time limit, deploy, out of memory) or cannot reach
\* the database: its task ends without a result.
Crash(w) ==
    /\ task[w].phase # "idle"
    /\ crashes < MaxCrashes
    /\ task' = [task EXCEPT ![w] = Idle]
    /\ crashes' = crashes + 1
    /\ UNCHANGED <<rowVars, queued, enabled, received, toggles>>

\* A message is lost: acknowledged by a worker that dies before it prepares.
LoseMessage(a) ==
    /\ queued[a] > 0
    /\ crashes < MaxCrashes
    /\ queued' = [queued EXCEPT ![a] = @ - 1]
    /\ crashes' = crashes + 1
    /\ UNCHANGED <<rowVars, task, enabled, received, toggles>>

\* The workers are restarted with another feishu_notification.enabled; tasks
\* already running finish with the configuration they read.
ToggleFeishu ==
    /\ toggles < MaxToggles
    /\ enabled' = ~enabled
    /\ toggles' = toggles + 1
    /\ UNCHANGED <<rowVars, queued, task, received, crashes>>

\* Time passes; no task outlives its hard time limit.
Tick ==
    /\ \A w \in Workers : task[w].phase = "idle" \/ task[w].left > 0
    /\ due' = [a \in Alerts |->
                 IF due[a] = NoTime \/ due[a] = 0 THEN due[a] ELSE due[a] - 1]
    /\ task' = [w \in Workers |->
                 IF task[w].phase = "idle" THEN task[w]
                 ELSE [task[w] EXCEPT !.left = @ - 1]]
    /\ UNCHANGED <<status, attempts, queued, enabled, received, boundVars>>

WorkerStep(w) ==
    \/ \E a \in Alerts : DropMessage(w, a) \/ SkipDelivery(w, a) \/ PrepareDelivery(w, a)
    \/ SendNext(w)
    \/ SendFails(w)
    \/ RecordResult(w)

Next ==
    \/ \E a \in Alerts : CommitAlert(a) \/ LoseMessage(a)
    \/ RetryScan
    \/ \E w \in Workers : WorkerStep(w) \/ Crash(w)
    \/ ToggleFeishu
    \/ Tick

Spec == Init /\ [][Next]_vars

\* Celery beat runs the retry scan every minute, time passes, and a worker that
\* is alive executes the tasks it was given.
Fairness ==
    /\ WF_vars(RetryScan)
    /\ WF_vars(Tick)
    /\ \A w \in Workers : WF_vars(WorkerStep(w))

FairSpec == Spec /\ Fairness

-----------------------------------------------------------------------------
(* Properties                                                              *)

\* While the hard time limit is shorter than the lease, an alert is never being
\* sent by two tasks at once: next_attempt_at alone serialises the attempts of
\* the initial message, of duplicated messages and of every retry scan.
OneSenderPerAlert ==
    \A v, w \in Workers :
        (v # w /\ task[v].phase # "idle" /\ task[w].phase # "idle")
            => task[v].alert # task[w].alert

\* A row marked "sent" has reached every one of its recipients, over however
\* many attempts, partial failures and kills it took to get there.
SentMeansAllReceived ==
    \A a \in Alerts : status[a] = "sent" => received[a] = 1..Recipients

\* Where the pool enforces no time limit, attempts of one alert overlap; the
\* result of an older attempt then never undoes the outcome of a newer one.
SentIsFinal ==
    [][\A a \in Alerts : status[a] \in {"sent", "failed"} => status'[a] = status[a]]_vars

\* Every alert that is committed is settled in the end, although its first
\* message may be lost and every attempt killed before it records a result.
EventuallySettled ==
    \A a \in Alerts : (status[a] = "pending") ~> (status[a] \in Settled)

\* The pipeline implements the promise of AlertOutbox: an alert in flight,
\* leased or backing off is still owed.
OutcomeOf(s) ==
    CASE s = "none" -> "absent"
      [] s \in Deliverable -> "owed"
      [] OTHER -> s

Outbox == INSTANCE AlertOutbox WITH
    outcome <- [a \in Alerts |-> OutcomeOf(status[a])],
    received <- received

ImplementsOutbox == Outbox!Spec
=============================================================================
