------------------------ MODULE AlertDeliveryProofs ------------------------
(***************************************************************************)
(* Theorems about AlertDelivery, for every number of alerts, recipients    *)
(* and workers and every value of the limits and delays.                   *)
(***************************************************************************)
EXTENDS AlertDelivery, TLAPS

Busy(w) == task[w].phase # "idle"

\* A busy worker works on an alert that exists, on an attempt that was counted.
TaskInv ==
    \A w \in Workers : Busy(w) =>
        /\ task[w].alert \in Alerts
        /\ task[w].attempt \in 1..attempts[task[w].alert]

Inv == TypeOK /\ TaskInv

\* No attempt number is handed out twice, and the worker that holds the latest
\* one finds the row leased, or skipped by a worker that had Feishu switched off.
OwnerInv ==
    /\ \A w \in Workers : Busy(w) /\ Owns(w)
            => status[task[w].alert] \in {"delivering", "skipped"}
    /\ \A v, w \in Workers : (v # w /\ Busy(v) /\ Busy(w) /\ task[v].alert = task[w].alert)
            => task[v].attempt # task[w].attempt

\* What a worker counts as done has been received.
DoneInv ==
    \A w \in Workers : Busy(w) => 1..task[w].done \subseteq received[task[w].alert]

\* With a time limit below the lease, a busy worker holds the latest attempt and
\* will be gone before the row is due again.
LeaseInv ==
    \A w \in Workers : Busy(w) =>
        /\ Owns(w)
        /\ status[task[w].alert] = "delivering"
        /\ due[task[w].alert] # NoTime
        /\ due[task[w].alert] > task[w].left

-----------------------------------------------------------------------------
LEMMA IdleType == Idle \in Task
  BY CountsAssumption, TimesAssumption DEF Idle, Task

\* The updates a step makes to a worker's task keep its type.
LEMMA TaskUpdate ==
  ASSUME NEW t \in Task
  PROVE  /\ \A d \in 0..Recipients : [t EXCEPT !.done = d] \in Task
         /\ [t EXCEPT !.phase = "error"] \in Task
         /\ t.left > 0 => [t EXCEPT !.left = t.left - 1] \in Task
  <1>1. \A d \in 0..Recipients : [t EXCEPT !.done = d] \in Task
    BY DEF Task
  <1>2. [t EXCEPT !.phase = "error"] \in Task
    BY DEF Task
  <1>3. t.left > 0 => t.left - 1 \in 0..TimeLimit
    BY TimesAssumption DEF Task
  <1>4. t.left > 0 => [t EXCEPT !.left = t.left - 1] \in Task
    BY <1>3 DEF Task
  <1> QED BY <1>1, <1>2, <1>4

LEMMA InvInit == Init => Inv
  BY IdleType, CountsAssumption, TimesAssumption
  DEF Init, Inv, TypeOK, TaskInv, Busy, Idle, Deliverable, Settled

\* Taking a message leaves the queue within its bound.
LEMMA TakeType ==
  ASSUME TypeOK, NEW w \in Workers, NEW a \in Alerts, Take(w, a)
  PROVE  queued' \in [Alerts -> 0..QueueBound]
  <1>1. queued[a] \in 0..QueueBound
    BY DEF TypeOK
  <1>2. queued[a] - 1 \in 0..QueueBound
    BY <1>1, CountsAssumption DEF Take
  <1> QED BY <1>2 DEF TypeOK, Take

LEMMA InvNext == Inv /\ [Next]_vars => Inv'
  <1> SUFFICES ASSUME Inv, [Next]_vars PROVE Inv'
    OBVIOUS
  <1> USE CountsAssumption, TimesAssumption, NoAlertAssumption
      DEF Inv, TypeOK, TaskInv, Busy, Deliverable, Settled, rowVars, boundVars
  <1>1. ASSUME NEW a \in Alerts, CommitAlert(a) PROVE Inv'
    <2>1. queued' \in [Alerts -> 0..QueueBound]
      BY <1>1 DEF CommitAlert
    <2>2. crashes' \in 0..MaxCrashes
      BY <1>1 DEF CommitAlert
    <2>3. status' \in [Alerts -> {"none"} \cup Deliverable \cup Settled]
      BY <1>1 DEF CommitAlert
    <2>4. due' \in [Alerts -> Nat \cup {NoTime}]
      BY <1>1 DEF CommitAlert
    <2>5. TaskInv'
      BY <1>1 DEF CommitAlert
    <2> QED BY <1>1, <2>1, <2>2, <2>3, <2>4, <2>5 DEF CommitAlert
  <1>2. ASSUME NEW a \in Alerts, LoseMessage(a) PROVE Inv'
    BY <1>2 DEF LoseMessage
  <1>3. CASE RetryScan
    <2>1. queued' \in [Alerts -> 0..QueueBound]
      BY <1>3 DEF RetryScan
    <2> QED BY <1>3, <2>1 DEF RetryScan
  <1>4. ASSUME NEW w \in Workers, NEW a \in Alerts, DropMessage(w, a) PROVE Inv'
    <2>1. queued' \in [Alerts -> 0..QueueBound]
      BY <1>4, TakeType DEF DropMessage
    <2> QED BY <1>4, <2>1 DEF DropMessage
  <1>5. ASSUME NEW w \in Workers, NEW a \in Alerts, SkipDelivery(w, a) PROVE Inv'
    <2>1. queued' \in [Alerts -> 0..QueueBound]
      BY <1>5, TakeType DEF SkipDelivery
    <2> QED BY <1>5, <2>1 DEF SkipDelivery
  <1>6. ASSUME NEW w \in Workers, NEW a \in Alerts, PrepareDelivery(w, a) PROVE Inv'
    <2>1. queued' \in [Alerts -> 0..QueueBound]
      BY <1>6, TakeType DEF PrepareDelivery
    <2>2. attempts' \in [Alerts -> Nat] /\ attempts'[a] = attempts[a] + 1
      BY <1>6 DEF PrepareDelivery
    <2>3. \A b \in Alerts : attempts'[b] >= attempts[b]
      BY <1>6 DEF PrepareDelivery
    <2>4. Working(a, attempts[a] + 1) \in Task
      BY DEF Working, Task
    <2>5. TypeOK'
      BY <1>6, <2>1, <2>2, <2>4 DEF PrepareDelivery
    <2>6. TaskInv'
      BY <1>6, <2>2, <2>3 DEF PrepareDelivery, Working, Task
    <2> QED BY <2>5, <2>6
  <1>7. ASSUME NEW w \in Workers, SendNext(w) PROVE Inv'
    <2>1. task[w].done + 1 \in 1..Recipients /\ task[w].alert \in Alerts
      BY <1>7 DEF SendNext, Task
    <2>2. received' \in [Alerts -> SUBSET (1..Recipients)]
      BY <1>7, <2>1 DEF SendNext
    <2>3. task' \in [Workers -> Task]
      <3>1. task[w].done + 1 \in 0..Recipients
        BY <2>1
      <3>2. [task[w] EXCEPT !.done = task[w].done + 1] \in Task
        BY <3>1, TaskUpdate
      <3> QED BY <1>7, <3>2 DEF SendNext
    <2>4. TaskInv'
      BY <1>7, <2>1 DEF SendNext, Task
    <2> QED BY <1>7, <2>2, <2>3, <2>4 DEF SendNext
  <1>8. ASSUME NEW w \in Workers, SendFails(w) PROVE Inv'
    <2>1. task[w].done + 1 \in 1..Recipients /\ task[w].alert \in Alerts
      BY <1>8 DEF SendFails, Task
    <2>2. received' \in [Alerts -> SUBSET (1..Recipients)]
      <3>1. CASE UNCHANGED received
        BY <3>1
      <3>2. CASE received' = [received EXCEPT ![task[w].alert] = @ \cup {task[w].done + 1}]
        BY <2>1, <3>2
      <3> QED BY <1>8, <3>1, <3>2 DEF SendFails
    <2>3. task' \in [Workers -> Task]
      <3>1. [task[w] EXCEPT !.phase = "error"] \in Task
        BY TaskUpdate
      <3> QED BY <1>8, <3>1 DEF SendFails
    <2>4. \A v \in Workers : /\ task'[v].alert = task[v].alert
                             /\ task'[v].attempt = task[v].attempt
                             /\ task'[v].phase = "idle" <=> task[v].phase = "idle"
      BY <1>8 DEF SendFails, Task
    <2>5. TaskInv'
      BY <1>8, <2>4 DEF SendFails
    <2> QED BY <1>8, <2>2, <2>3, <2>5 DEF SendFails
  <1>9. ASSUME NEW w \in Workers, RecordResult(w) PROVE Inv'
    <2> DEFINE a == task[w].alert
    <2>1. Busy(w) /\ a \in Alerts
      BY <1>9 DEF RecordResult
    <2>2. Owns(w) => attempts[a] \in Nat \ {0}
      BY <2>1 DEF Owns, Task
    <2>3. status' \in [Alerts -> {"none"} \cup Deliverable \cup Settled]
      BY <1>9 DEF RecordResult, RecordSent, RecordError
    <2>4. due' \in [Alerts -> Nat \cup {NoTime}]
      <3>1. CASE RecordSent(w)
        BY <3>1 DEF RecordSent
      <3>2. CASE RecordError(w)
        <4>1. (Owns(w) /\ ~(attempts[a] >= MaxDeliveryAttempts))
                => RetryDelay[attempts[a]] \in Nat
          BY <2>1, <2>2
        <4> QED BY <2>1, <3>2, <4>1 DEF RecordError
      <3> QED BY <1>9, <3>1, <3>2 DEF RecordResult
    <2>5. task' \in [Workers -> Task]
      BY <1>9, IdleType DEF RecordResult
    <2>6. TaskInv'
      BY <1>9 DEF RecordResult, Idle
    <2> QED BY <1>9, <2>3, <2>4, <2>5, <2>6 DEF RecordResult
  <1>10. ASSUME NEW w \in Workers, Crash(w) PROVE Inv'
    BY <1>10, IdleType DEF Crash, Idle
  <1>11. CASE ToggleFeishu
    BY <1>11 DEF ToggleFeishu
  <1>12. CASE Tick
    <2>1. due' \in [Alerts -> Nat \cup {NoTime}]
      BY <1>12 DEF Tick
    <2>2. \A w \in Workers : Busy(w) => [task[w] EXCEPT !.left = task[w].left - 1] \in Task
      BY <1>12, TaskUpdate DEF Tick
    <2>3. task' \in [Workers -> Task]
      BY <1>12, <2>2 DEF Tick
    <2>4. \A w \in Workers : /\ task'[w].alert = task[w].alert
                             /\ task'[w].attempt = task[w].attempt
                             /\ task'[w].phase = task[w].phase
      BY <1>12 DEF Tick, Task
    <2>5. TaskInv'
      BY <1>12, <2>4 DEF Tick
    <2> QED BY <1>12, <2>1, <2>3, <2>5 DEF Tick
  <1>13. CASE UNCHANGED vars
    BY <1>13 DEF vars
  <1> QED
    BY <1>1, <1>2, <1>3, <1>4, <1>5, <1>6, <1>7, <1>8, <1>9, <1>10, <1>11, <1>12, <1>13
    DEF Next, WorkerStep

LEMMA InvAlways == Spec => []Inv
  BY InvInit, InvNext, PTL DEF Spec

\* Every variable keeps its type in every reachable state: in particular a
\* retry delay is only ever looked up inside RETRY_DELAYS_SECONDS.
THEOREM TypeCorrect == Spec => []TypeOK
  <1>1. Inv => TypeOK
    BY DEF Inv
  <1> QED BY <1>1, InvAlways, PTL

-----------------------------------------------------------------------------
(* A settled row stays settled: no time limit is needed.                   *)

LEMMA OwnerNext == Inv /\ OwnerInv /\ [Next]_vars => OwnerInv'
  <1> SUFFICES ASSUME Inv, OwnerInv, [Next]_vars PROVE OwnerInv'
    OBVIOUS
  <1> USE DEF OwnerInv, Busy, Owns
  <1>0. /\ status \in [Alerts -> {"none"} \cup Deliverable \cup Settled]
        /\ attempts \in [Alerts -> Nat]
        /\ task \in [Workers -> Task]
        /\ \A w \in Workers : Busy(w) => /\ task[w].alert \in Alerts
                                         /\ task[w].attempt <= attempts[task[w].alert]
    BY DEF Inv, TypeOK, TaskInv
  <1>1. ASSUME NEW a \in Alerts, CommitAlert(a) PROVE OwnerInv'
    BY <1>0, <1>1 DEF CommitAlert
  <1>2. ASSUME NEW a \in Alerts, LoseMessage(a) PROVE OwnerInv'
    BY <1>2 DEF LoseMessage, rowVars
  <1>3. CASE RetryScan
    BY <1>3 DEF RetryScan, rowVars
  <1>4. ASSUME NEW w \in Workers, NEW a \in Alerts, DropMessage(w, a) PROVE OwnerInv'
    BY <1>4 DEF DropMessage, rowVars
  <1>5. ASSUME NEW w \in Workers, NEW a \in Alerts, SkipDelivery(w, a) PROVE OwnerInv'
    BY <1>0, <1>5 DEF SkipDelivery
  <1>6. ASSUME NEW w \in Workers, NEW a \in Alerts, PrepareDelivery(w, a) PROVE OwnerInv'
    <2>1. /\ attempts' = [attempts EXCEPT ![a] = attempts[a] + 1]
          /\ status' = [status EXCEPT ![a] = "delivering"]
          /\ task' = [task EXCEPT ![w] = Working(a, attempts[a] + 1)]
      BY <1>6 DEF PrepareDelivery
    <2>2. task'[w].alert = a /\ task'[w].attempt = attempts[a] + 1
      BY <1>0, <2>1 DEF Working
    <2>3. \A v \in Workers : v # w => task'[v] = task[v]
      BY <1>0, <2>1
    <2> QED BY <1>0, <2>1, <2>2, <2>3
  <1>7. ASSUME NEW w \in Workers, SendNext(w) \/ SendFails(w) PROVE OwnerInv'
    <2>1. \A v \in Workers : /\ task'[v].alert = task[v].alert
                             /\ task'[v].attempt = task[v].attempt
                             /\ task'[v].phase # "idle" => task[v].phase # "idle"
      BY <1>0, <1>7 DEF SendNext, SendFails, Task
    <2>2. status' = status /\ attempts' = attempts
      BY <1>7 DEF SendNext, SendFails, rowVars
    <2>3. ASSUME NEW v \in Workers, Busy(v)', Owns(v)'
          PROVE  status'[task'[v].alert] \in {"delivering", "skipped"}
      BY <2>1, <2>2, <2>3
    <2>4. ASSUME NEW u \in Workers, NEW v \in Workers, u # v, Busy(u)', Busy(v)',
                 task'[u].alert = task'[v].alert
          PROVE  task'[u].attempt # task'[v].attempt
      BY <2>1, <2>4
    <2> QED BY <2>3, <2>4
  <1>8. ASSUME NEW w \in Workers, RecordResult(w) PROVE OwnerInv'
    <2>1. attempts' = attempts /\ task' = [task EXCEPT ![w] = Idle]
      BY <1>8 DEF RecordResult
    <2>2. \A b \in Alerts : status'[b] # status[b] => b = task[w].alert /\ Owns(w)
      BY <1>0, <1>8 DEF RecordResult, RecordSent, RecordError
    <2>3. Busy(w)
      BY <1>8 DEF RecordResult
    <2> QED BY <1>0, <2>1, <2>2, <2>3 DEF Idle
  <1>9. ASSUME NEW w \in Workers, Crash(w) PROVE OwnerInv'
    BY <1>0, <1>9 DEF Crash, Idle, rowVars
  <1>10. CASE ToggleFeishu
    BY <1>10 DEF ToggleFeishu, rowVars
  <1>11. CASE Tick
    <2>1. \A v \in Workers : /\ task'[v].alert = task[v].alert
                             /\ task'[v].attempt = task[v].attempt
                             /\ task'[v].phase = task[v].phase
      BY <1>0, <1>11 DEF Tick, Task
    <2>2. status' = status /\ attempts' = attempts
      BY <1>11 DEF Tick
    <2> QED BY <2>1, <2>2
  <1>12. CASE UNCHANGED vars
    BY <1>12 DEF vars
  <1> QED
    BY <1>1, <1>2, <1>3, <1>4, <1>5, <1>6, <1>7, <1>8, <1>9, <1>10, <1>11, <1>12
    DEF Next, WorkerStep

LEMMA OwnerAlways == Spec => []OwnerInv
  <1>1. Init => OwnerInv
    BY DEF Init, OwnerInv, Busy, Idle
  <1> QED BY <1>1, InvAlways, OwnerNext, PTL DEF Spec

\* A row that is "sent" or "failed" never leaves that status, in any pool, with
\* or without enforced time limits: the fencing of results by attempt number and
\* the status check of the lease together leave no late writer.
THEOREM SettledRowsStay == Spec => SentIsFinal
  <1>1. ASSUME Inv, OwnerInv, Next, NEW a \in Alerts, status[a] \in {"sent", "failed"}
        PROVE  status'[a] = status[a]
    <2> USE <1>1
    <2>0. /\ status \in [Alerts -> {"none"} \cup Deliverable \cup Settled]
          /\ \A w \in Workers : Busy(w) => task[w].alert \in Alerts
      BY DEF Inv, TypeOK, TaskInv
    <2>1. ASSUME NEW b \in Alerts, CommitAlert(b) PROVE status'[a] = status[a]
      BY <2>0, <2>1 DEF CommitAlert
    <2>2. ASSUME NEW w \in Workers, NEW b \in Alerts,
                 SkipDelivery(w, b) \/ PrepareDelivery(w, b)
          PROVE  status'[a] = status[a]
      BY <2>0, <2>2 DEF SkipDelivery, PrepareDelivery, IsDue, Deliverable
    <2>3. ASSUME NEW w \in Workers, RecordResult(w) PROVE status'[a] = status[a]
      <3>1. Busy(w)
        BY <2>3 DEF RecordResult, Busy
      <3>2. ~(Owns(w) /\ task[w].alert = a)
        BY <3>1 DEF OwnerInv
      <3> QED BY <2>0, <2>3, <3>1, <3>2 DEF RecordResult, RecordSent, RecordError
    <2> QED
      BY <2>1, <2>2, <2>3
      DEF Next, WorkerStep, LoseMessage, RetryScan, DropMessage, SendNext, SendFails,
          Crash, ToggleFeishu, Tick, rowVars
  <1>2. Inv /\ OwnerInv /\ [Next]_vars
          => [\A a \in Alerts : status[a] \in {"sent", "failed"} => status'[a] = status[a]]_vars
    BY <1>1
  <1> QED BY <1>2, InvAlways, OwnerAlways, PTL DEF Spec, SentIsFinal

-----------------------------------------------------------------------------
(* "sent" means that every recipient was reached.                          *)

LEMMA DoneNext ==
  Inv /\ DoneInv /\ SentMeansAllReceived /\ [Next]_vars
    => DoneInv' /\ SentMeansAllReceived'
  <1> SUFFICES ASSUME Inv, DoneInv, SentMeansAllReceived, [Next]_vars
               PROVE  DoneInv' /\ SentMeansAllReceived'
    OBVIOUS
  <1> USE DEF DoneInv, SentMeansAllReceived, Busy
  <1>0. /\ status \in [Alerts -> {"none"} \cup Deliverable \cup Settled]
        /\ received \in [Alerts -> SUBSET (1..Recipients)]
        /\ task \in [Workers -> Task]
        /\ \A w \in Workers : Busy(w) => task[w].alert \in Alerts
    BY DEF Inv, TypeOK, TaskInv
  <1>1. ASSUME NEW a \in Alerts, CommitAlert(a) PROVE DoneInv' /\ SentMeansAllReceived'
    BY <1>0, <1>1 DEF CommitAlert
  <1>2. ASSUME NEW w \in Workers, NEW a \in Alerts, SkipDelivery(w, a)
        PROVE  DoneInv' /\ SentMeansAllReceived'
    BY <1>0, <1>2 DEF SkipDelivery
  <1>3. ASSUME NEW w \in Workers, NEW a \in Alerts, PrepareDelivery(w, a)
        PROVE  DoneInv' /\ SentMeansAllReceived'
    BY <1>0, <1>3 DEF PrepareDelivery, Working
  <1>4. ASSUME NEW w \in Workers, SendNext(w) PROVE DoneInv' /\ SentMeansAllReceived'
    <2>1. /\ task[w].alert \in Alerts
          /\ 1..task[w].done \subseteq received[task[w].alert]
          /\ task[w].done \in Nat
          /\ task[w].done + 1 \in 1..Recipients
      BY <1>0, <1>4, CountsAssumption DEF SendNext, Task
    <2>2. /\ task'[w].alert = task[w].alert
          /\ task'[w].done = task[w].done + 1
          /\ \A v \in Workers : v # w => task'[v] = task[v]
      BY <1>0, <1>4 DEF SendNext, Task
    <2>3. received' = [received EXCEPT ![task[w].alert] =
                         received[task[w].alert] \cup {task[w].done + 1}]
      BY <1>4 DEF SendNext
    <2>4. \A b \in Alerts : received[b] \subseteq received'[b]
      BY <1>0, <2>1, <2>3
    <2>5. task[w].done + 1 \in received'[task[w].alert]
      BY <1>0, <2>1, <2>3
    <2>6. 1..task'[w].done \subseteq received'[task'[w].alert]
      BY <2>1, <2>2, <2>4, <2>5
    <2>7. DoneInv'
      BY <1>0, <2>2, <2>4, <2>6
    <2>8. status' = status /\ received' \in [Alerts -> SUBSET (1..Recipients)]
      BY <1>0, <1>4, <2>1, <2>3 DEF SendNext, rowVars
    <2> QED BY <2>4, <2>7, <2>8
  <1>5. ASSUME NEW w \in Workers, SendFails(w) PROVE DoneInv' /\ SentMeansAllReceived'
    <2>1. task[w].alert \in Alerts /\ task[w].done + 1 \in 1..Recipients
      BY <1>0, <1>5, CountsAssumption DEF SendFails, Task
    <2>2. \A v \in Workers : /\ task'[v].alert = task[v].alert
                             /\ task'[v].done = task[v].done
                             /\ task'[v].phase # "idle" => task[v].phase # "idle"
      BY <1>0, <1>5 DEF SendFails, Task
    <2>3. /\ \A b \in Alerts : received[b] \subseteq received'[b]
          /\ received' \in [Alerts -> SUBSET (1..Recipients)]
      <3>1. CASE UNCHANGED received
        BY <1>0, <3>1
      <3>2. CASE received' = [received EXCEPT ![task[w].alert] = @ \cup {task[w].done + 1}]
        BY <1>0, <2>1, <3>2
      <3> QED BY <1>5, <3>1, <3>2 DEF SendFails
    <2>4. status' = status
      BY <1>5 DEF SendFails, rowVars
    <2> QED BY <1>0, <2>2, <2>3, <2>4
  <1>6. ASSUME NEW w \in Workers, RecordResult(w) PROVE DoneInv' /\ SentMeansAllReceived'
    <2>1. /\ received' = received
          /\ task' = [task EXCEPT ![w] = Idle]
      BY <1>6 DEF RecordResult
    <2>2. DoneInv'
      BY <1>0, <2>1 DEF Idle
    <2>3. CASE task[w].phase = "sending" /\ task[w].done = Recipients /\ RecordSent(w)
      <3>1. task[w].alert \in Alerts /\ received[task[w].alert] = 1..Recipients
        BY <1>0, <2>3
      <3> QED BY <1>0, <2>1, <2>2, <2>3, <3>1 DEF RecordSent
    <2>4. CASE RecordError(w)
      BY <1>0, <2>1, <2>2, <2>4 DEF RecordError
    <2> QED BY <1>6, <2>3, <2>4 DEF RecordResult
  <1>7. ASSUME NEW w \in Workers, Crash(w) PROVE DoneInv' /\ SentMeansAllReceived'
    BY <1>0, <1>7 DEF Crash, Idle, rowVars
  <1>8. CASE Tick
    <2>1. \A v \in Workers : /\ task'[v].alert = task[v].alert
                             /\ task'[v].done = task[v].done
                             /\ task'[v].phase = task[v].phase
      BY <1>0, <1>8 DEF Tick, Task
    <2>2. status' = status /\ received' = received
      BY <1>8 DEF Tick
    <2> QED BY <2>1, <2>2
  <1>9. CASE UNCHANGED <<status, task, received>>
    BY <1>9
  <1> QED
    BY <1>1, <1>2, <1>3, <1>4, <1>5, <1>6, <1>7, <1>8, <1>9
    DEF Next, WorkerStep, LoseMessage, RetryScan, DropMessage, ToggleFeishu, rowVars, vars

\* A row marked "sent" has reached all its recipients, for every number of
\* recipients, attempts and kills.
THEOREM SentReached == Spec => []SentMeansAllReceived
  <1>1. Init => DoneInv /\ SentMeansAllReceived
    BY DEF Init, DoneInv, SentMeansAllReceived, Busy, Idle
  <1> QED BY <1>1, InvAlways, DoneNext, PTL DEF Spec

-----------------------------------------------------------------------------
(* The lease excludes concurrent attempts when tasks cannot outlive it.    *)

LEMMA LeaseNext ==
  ASSUME TimeLimit < Lease
  PROVE  Inv /\ OwnerInv /\ LeaseInv /\ [Next]_vars => LeaseInv'
  <1> SUFFICES ASSUME Inv, OwnerInv, LeaseInv, [Next]_vars PROVE LeaseInv'
    OBVIOUS
  <1> USE DEF LeaseInv, Busy, Owns
  <1>0. /\ status \in [Alerts -> {"none"} \cup Deliverable \cup Settled]
        /\ attempts \in [Alerts -> Nat]
        /\ due \in [Alerts -> Nat \cup {NoTime}]
        /\ task \in [Workers -> Task]
        /\ \A w \in Workers : task[w].left \in 0..TimeLimit
        /\ \A w \in Workers : Busy(w) => task[w].alert \in Alerts
    BY DEF Inv, TypeOK, TaskInv, Task
  <1>1. ASSUME NEW a \in Alerts, CommitAlert(a) PROVE LeaseInv'
    BY <1>0, <1>1 DEF CommitAlert
  <1>2. ASSUME NEW w \in Workers, NEW a \in Alerts, SkipDelivery(w, a) PROVE LeaseInv'
    <2>1. due[a] = 0 /\ due' = due /\ task' = task /\ attempts' = attempts
      BY <1>2 DEF SkipDelivery, IsDue
    <2>2. \A v \in Workers : Busy(v) => task[v].alert # a
      BY <1>0, <2>1, TimesAssumption
    <2> QED BY <1>0, <1>2, <2>1, <2>2 DEF SkipDelivery
  <1>3. ASSUME NEW w \in Workers, NEW a \in Alerts, PrepareDelivery(w, a) PROVE LeaseInv'
    <2>1. /\ attempts' = [attempts EXCEPT ![a] = attempts[a] + 1]
          /\ status' = [status EXCEPT ![a] = "delivering"]
          /\ due' = [due EXCEPT ![a] = Lease]
          /\ task' = [task EXCEPT ![w] = Working(a, attempts[a] + 1)]
          /\ due[a] = 0
      BY <1>3 DEF PrepareDelivery, IsDue
    <2>2. \A v \in Workers : Busy(v) => task[v].alert # a
      BY <1>0, <2>1, TimesAssumption
    <2>3. /\ task'[w].alert = a
          /\ task'[w].attempt = attempts[a] + 1
          /\ task'[w].left = TimeLimit
          /\ \A v \in Workers : v # w => task'[v] = task[v]
      BY <1>0, <2>1 DEF Working
    <2>4. /\ attempts'[a] = attempts[a] + 1
          /\ status'[a] = "delivering"
          /\ due'[a] = Lease
          /\ \A b \in Alerts : b # a => /\ attempts'[b] = attempts[b]
                                       /\ status'[b] = status[b]
                                       /\ due'[b] = due[b]
      BY <1>0, <2>1
    <2>5. ASSUME NEW v \in Workers, Busy(v)', v # w
          PROVE  /\ Owns(v)'
                 /\ status'[task'[v].alert] = "delivering"
                 /\ due'[task'[v].alert] # NoTime
                 /\ due'[task'[v].alert] > task'[v].left
      BY <1>0, <2>2, <2>3, <2>4, <2>5
    <2>6. Lease # NoTime /\ Lease > TimeLimit
      BY TimesAssumption
    <2> QED BY <2>3, <2>4, <2>5, <2>6
  <1>4. ASSUME NEW w \in Workers, SendNext(w) \/ SendFails(w) PROVE LeaseInv'
    <2>1. \A v \in Workers : /\ task'[v].alert = task[v].alert
                             /\ task'[v].attempt = task[v].attempt
                             /\ task'[v].left = task[v].left
                             /\ task'[v].phase # "idle" => task[v].phase # "idle"
      BY <1>0, <1>4 DEF SendNext, SendFails, Task
    <2>2. status' = status /\ attempts' = attempts /\ due' = due
      BY <1>4 DEF SendNext, SendFails, rowVars
    <2> QED BY <2>1, <2>2
  <1>5. ASSUME NEW w \in Workers, RecordResult(w) PROVE LeaseInv'
    <2>1. attempts' = attempts /\ task' = [task EXCEPT ![w] = Idle] /\ Busy(w)
      BY <1>5 DEF RecordResult
    <2>2. \A b \in Alerts : b # task[w].alert => status'[b] = status[b] /\ due'[b] = due[b]
      BY <1>0, <1>5 DEF RecordResult, RecordSent, RecordError
    <2>3. \A v \in Workers : (v # w /\ Busy(v)) => task[v].alert # task[w].alert
      BY <2>1 DEF OwnerInv
    <2> QED BY <1>0, <2>1, <2>2, <2>3 DEF Idle
  <1>6. ASSUME NEW w \in Workers, Crash(w) PROVE LeaseInv'
    BY <1>0, <1>6 DEF Crash, Idle, rowVars
  <1>7. CASE Tick
    <2>1. \A v \in Workers : Busy(v) => /\ task'[v].alert = task[v].alert
                                       /\ task'[v].attempt = task[v].attempt
                                       /\ task'[v].left = task[v].left - 1
      BY <1>0, <1>7 DEF Tick, Task
    <2>2. \A v \in Workers : task'[v].phase = task[v].phase
      BY <1>0, <1>7 DEF Tick, Task
    <2>3. status' = status /\ attempts' = attempts
      BY <1>7 DEF Tick
    <2>4. \A b \in Alerts : (due[b] # NoTime /\ due[b] > 0) => due'[b] = due[b] - 1
      BY <1>0, <1>7 DEF Tick
    <2>5. \A v \in Workers : Busy(v) => due[task[v].alert] \in Nat /\ task[v].left \in Nat
      BY <1>0, TimesAssumption
    <2>6. ASSUME NEW v \in Workers, Busy(v)
          PROVE  /\ task'[v].alert = task[v].alert
                 /\ due'[task[v].alert] # NoTime
                 /\ due'[task[v].alert] > task'[v].left
      <3>1. task[v].alert \in Alerts /\ due[task[v].alert] > task[v].left
        BY <1>0, <2>6
      <3>2. due'[task[v].alert] = due[task[v].alert] - 1
        BY <2>4, <2>5, <2>6, <3>1, TimesAssumption
      <3> QED BY <2>1, <2>5, <2>6, <3>1, <3>2, TimesAssumption
    <2>7. ASSUME NEW v \in Workers, Busy(v)
          PROVE  Owns(v)' /\ status'[task'[v].alert] = "delivering"
      BY <2>1, <2>3, <2>7
    <2> QED BY <2>2, <2>6, <2>7
  <1>8. CASE UNCHANGED <<status, attempts, due, task>>
    BY <1>8
  <1> QED
    BY <1>1, <1>2, <1>3, <1>4, <1>5, <1>6, <1>7, <1>8
    DEF Next, WorkerStep, LoseMessage, RetryScan, DropMessage, ToggleFeishu, rowVars, vars

LEMMA LeaseAlways == ASSUME TimeLimit < Lease PROVE Spec => []LeaseInv
  <1>1. Init => LeaseInv
    BY DEF Init, LeaseInv, Busy, Idle
  <1> QED BY <1>1, InvAlways, OwnerAlways, LeaseNext, PTL DEF Spec

\* If the hard time limit of the task is below the lease, two workers never send
\* the same alert at once, whatever messages are duplicated or scans overlap.
THEOREM LeaseExcludes == ASSUME TimeLimit < Lease PROVE Spec => []OneSenderPerAlert
  <1>1. OwnerInv /\ LeaseInv => OneSenderPerAlert
    BY DEF OwnerInv, LeaseInv, OneSenderPerAlert, Busy, Owns
  <1> QED BY <1>1, OwnerAlways, LeaseAlways, PTL

-----------------------------------------------------------------------------
(* The pipeline implements AlertOutbox.                                    *)

LEMMA OutboxStep ==
  Inv /\ OwnerInv /\ DoneInv /\ LeaseInv /\ [Next]_vars => [Outbox!Next]_(Outbox!vars)
  <1> SUFFICES ASSUME Inv, DoneInv, LeaseInv, [Next]_vars
               PROVE  [Outbox!Next]_(Outbox!vars)
    OBVIOUS
  <1> DEFINE outcome == [a \in Alerts |-> OutcomeOf(status[a])]
  <1> USE DEF Outbox!Next, Outbox!vars, Outbox!Raise, Outbox!Notify, Outbox!Settle
  <1>0. /\ status \in [Alerts -> {"none"} \cup Deliverable \cup Settled]
        /\ received \in [Alerts -> SUBSET (1..Recipients)]
        /\ task \in [Workers -> Task]
        /\ \A w \in Workers : Busy(w) => /\ task[w].alert \in Alerts
                                         /\ status[task[w].alert] = "delivering"
    BY DEF Inv, TypeOK, TaskInv, LeaseInv
  <1>1. ASSUME NEW a \in Alerts, CommitAlert(a) PROVE Outbox!Raise(a)
    BY <1>0, <1>1 DEF CommitAlert, OutcomeOf, Deliverable
  <1>2. ASSUME NEW w \in Workers, NEW a \in Alerts, SkipDelivery(w, a) PROVE Outbox!Settle(a)
    <2>1. status[a] \in Deliverable /\ status' = [status EXCEPT ![a] = "skipped"]
      BY <1>2 DEF SkipDelivery, IsDue
    <2>2. outcome[a] = "owed" /\ outcome' = [outcome EXCEPT ![a] = "skipped"]
      BY <1>0, <2>1 DEF OutcomeOf, Deliverable
    <2>3. received' = received
      BY <1>2 DEF SkipDelivery
    <2> QED BY <2>2, <2>3
  <1>3. ASSUME NEW w \in Workers, NEW a \in Alerts, PrepareDelivery(w, a)
        PROVE  UNCHANGED Outbox!vars
    <2>1. status[a] \in Deliverable /\ status' = [status EXCEPT ![a] = "delivering"]
      BY <1>3 DEF PrepareDelivery, IsDue
    <2>2. outcome' = outcome
      BY <1>0, <2>1 DEF OutcomeOf, Deliverable
    <2> QED BY <1>3, <2>2 DEF PrepareDelivery
  <1>4. ASSUME NEW w \in Workers, SendNext(w) \/ SendFails(w)
        PROVE  (\E a \in Alerts : \E r \in 1..Recipients : Outbox!Notify(a, r))
                 \/ UNCHANGED Outbox!vars
    <2> DEFINE b == task[w].alert
               r == task[w].done + 1
    <2>1. b \in Alerts /\ r \in 1..Recipients /\ status[b] = "delivering"
      BY <1>0, <1>4, CountsAssumption DEF SendNext, SendFails, Task, Busy
    <2>2. outcome[b] = "owed"
      BY <2>1 DEF OutcomeOf, Deliverable
    <2>3. outcome' = outcome
      BY <1>4 DEF SendNext, SendFails, rowVars
    <2>4. received' = received \/ received' = [received EXCEPT ![b] = @ \cup {r}]
      BY <1>4 DEF SendNext, SendFails
    <2>5. received' = [received EXCEPT ![b] = @ \cup {r}] => Outbox!Notify(b, r)
      BY <2>2, <2>3
    <2> QED BY <2>1, <2>3, <2>4, <2>5
  <1>5. ASSUME NEW w \in Workers, RecordResult(w)
        PROVE  (\E a \in Alerts : Outbox!Settle(a)) \/ UNCHANGED Outbox!vars
    <2> DEFINE b == task[w].alert
    <2>1. b \in Alerts /\ status[b] = "delivering" /\ received' = received
      BY <1>0, <1>5 DEF RecordResult, Busy
    <2>2. outcome[b] = "owed"
      BY <2>1 DEF OutcomeOf, Deliverable
    <2>3. CASE task[w].phase = "sending" /\ task[w].done = Recipients /\ RecordSent(w)
      <3>1. received[b] = 1..Recipients
        BY <1>0, <2>1, <2>3 DEF DoneInv, Busy
      <3>2. CASE status' = [status EXCEPT ![b] = "sent"]
        <4>1. outcome' = [outcome EXCEPT ![b] = "sent"]
          BY <1>0, <2>1, <3>2 DEF OutcomeOf, Deliverable
        <4> QED BY <2>1, <2>2, <3>1, <4>1
      <3> QED BY <2>1, <2>3, <3>2 DEF RecordSent
    <2>4. CASE RecordError(w)
      <3>1. CASE status' = [status EXCEPT ![b] = "failed"]
        <4>1. outcome' = [outcome EXCEPT ![b] = "failed"]
          BY <1>0, <2>1, <3>1 DEF OutcomeOf, Deliverable
        <4> QED BY <2>1, <2>2, <4>1
      <3>2. CASE status' = [status EXCEPT ![b] = "retrying"]
        <4>1. outcome' = outcome
          BY <1>0, <2>1, <3>2 DEF OutcomeOf, Deliverable
        <4> QED BY <2>1, <4>1
      <3> QED BY <2>1, <2>4, <3>1, <3>2 DEF RecordError
    <2> QED BY <1>5, <2>3, <2>4 DEF RecordResult
  <1>6. CASE UNCHANGED <<status, received>>
    BY <1>6
  <1> QED
    BY <1>1, <1>2, <1>3, <1>4, <1>5, <1>6
    DEF Next, WorkerStep, LoseMessage, RetryScan, DropMessage, Crash, ToggleFeishu, Tick,
        rowVars, vars

\* With the time limit below the lease the pipeline keeps every promise of
\* AlertOutbox: it notifies nobody after an alert is settled, settles it once,
\* and claims "sent" only when all recipients were reached.
THEOREM Refinement == ASSUME TimeLimit < Lease PROVE Spec => ImplementsOutbox
  <1>1. Init => Outbox!Init
    BY DEF Init, Outbox!Init, OutcomeOf, Deliverable
  <1>2. Init => DoneInv /\ SentMeansAllReceived
    BY DEF Init, DoneInv, SentMeansAllReceived, Busy, Idle
  <1>3. Spec => []DoneInv
    BY <1>2, InvAlways, DoneNext, PTL DEF Spec
  <1> QED
    BY <1>1, <1>3, InvAlways, OwnerAlways, LeaseAlways, OutboxStep, PTL
    DEF Spec, ImplementsOutbox, Outbox!Spec
=============================================================================
