------------------------ MODULE IncidentCorrelation ------------------------
(***************************************************************************)
(* Derived incidents: the tasks that turn vendor events, capacity alerts   *)
(* and capacity forecasts into evidence of incidents.  A task handles its  *)
(* events in one transaction (READ COMMITTED); the rolling cursor of a     *)
(* correlation key is locked from the first event of the key to the end of *)
(* the transaction.  Notifications follow the commit.                      *)
(*                                                                         *)
(* The unique constraint (correlation_key, correlation_bucket_at) makes    *)
(* the bucket the name of an incident within its key.                      *)
(***************************************************************************)
EXTENDS Integers, FiniteSets

CONSTANTS
    VendorEvents,   \* rows of storage_alerts of a vendor; scanned every minute
    Alerts,         \* rows of storage_alerts of DiskPulse; their ids come in messages
    Forecasts,      \* capacity forecasts that run out within 7 days
    Keys,           \* correlation keys: cluster, asset and category
    KeyOf,          \* the key of each event
    TimeOf,         \* observed_at of each event
    Critical,       \* the events whose severity is critical
    Window,         \* incident_correlation_window()
    BucketLength,   \* 30 minutes
    Tasks,          \* the Celery tasks that may run at the same time
    ScanLimit,      \* newest vendor events that a scan reads
    MaxCrashes,     \* bound: transactions that are killed
    MaxWindows,     \* bound: maintenance windows created
    NoTask, NoEvent, NoBucket, NoRow

Events == VendorEvents \cup Alerts \cup Forecasts

ASSUME EventsAssumption ==
    /\ KeyOf \in [Events -> Keys]
    /\ TimeOf \in [Events -> Nat]
    /\ Critical \subseteq Events
    /\ NoEvent \notin Events
ASSUME WindowAssumption == Window \in Nat /\ BucketLength \in Nat \ {0}
ASSUME TasksAssumption == NoTask \notin Tasks
ASSUME BoundsAssumption == ScanLimit \in Nat /\ MaxCrashes \in Nat /\ MaxWindows \in Nat

\* _bucket_start
BucketOf(e) == TimeOf[e] \div BucketLength
Buckets == {BucketOf(e) : e \in Events}

Row == [status : {"open", "resolved"}, severity : {"warning", "critical"}, last : Nat]
ASSUME RowMarkersAssumption == NoBucket \notin Buckets /\ NoRow \notin Row

Book == [row  : [Buckets -> Row \cup {NoRow}],
         ev   : [Events -> Buckets \cup {NoBucket}],
         cur  : [bucket : Buckets \cup {NoBucket}, last : Nat \cup {-1}],
         diag : [Buckets -> SUBSET Events]]

EmptyBook == [row  |-> [b \in Buckets |-> NoRow],
              ev   |-> [e \in Events |-> NoBucket],
              cur  |-> [bucket |-> NoBucket, last |-> -1],
              diag |-> [b \in Buckets |-> {}]]

VARIABLES
    arrived,   \* the events whose rows are committed
    covered,   \* the events that lie in a maintenance window of their asset
    store,     \* store[k]: incidents, evidence, cursor and newest diagnoses of k, committed
    draft,     \* draft[k]: the same as the holder of the cursor of k sees and writes it
    locked,      \* locked[k]: the transaction that locked the cursor of k
    task,      \* what each task is doing
    told,      \* the notifications in the queue: [key, bucket, what]
    crashes, windows   \* count towards MaxCrashes and MaxWindows

correlationVars == <<arrived, covered, store, draft, locked, task, told, crashes, windows>>

Notice == [key : Keys, bucket : Buckets, what : {"created", "reopened", "severity_escalated"}]

TaskState == [pc : {"idle", "next", "lock", "write", "tell"}, kind : {"none", "scan", "batch"},
              todo : SUBSET Events, event : Events \cup {NoEvent},
              seen : {"none", "open", "resolved"}, news : SUBSET Notice]

Idle == [pc |-> "idle", kind |-> "none", todo |-> {}, event |-> NoEvent, seen |-> "none", news |-> {}]

CorrelationInit ==
    /\ arrived = {} /\ covered = {}
    /\ store = [k \in Keys |-> EmptyBook]
    /\ draft = [k \in Keys |-> EmptyBook]
    /\ locked = [k \in Keys |-> NoTask]
    /\ task = [t \in Tasks |-> Idle]
    /\ told = {} /\ crashes = 0 /\ windows = 0

-----------------------------------------------------------------------------
(* What one evidence does to the book of its key.                          *)

\* should_admit_incident, for the sources that can pass it
Admits(e) == e \in Forecasts \/ e \in Critical

\* Mutant: older evidence is always near.
Near_OneSided(s, t) == s - t <= Window

Near(s, t) == s - t <= Window /\ t - s <= Window

\* The cursor's incident, if the evidence falls in its window
Current(B, e) ==
    IF B.cur.bucket # NoBucket /\ Near(TimeOf[e], B.cur.last) THEN B.cur.bucket ELSE NoBucket

Opens(B, e) == Current(B, e) = NoBucket
Home(B, e) == IF Opens(B, e) THEN BucketOf(e) ELSE Current(B, e)

\* uq_incident_correlation_bucket refuses the insertion
Collides(B, e) == Opens(B, e) /\ B.row[BucketOf(e)] # NoRow

\* Mutant: the time written last wins.
Later_LastWritten(s, t) == t

Later(s, t) == IF s >= t THEN s ELSE t

Severity(e) == IF e \in Critical THEN "critical" ELSE "warning"

\* The row after the evidence; status is the one read before, and only what changed is written
NewRow(B, e, status) ==
    IF Opens(B, e)
    THEN [status |-> "open", severity |-> Severity(e), last |-> TimeOf[e]]
    ELSE LET old == B.row[Current(B, e)]
         IN  [status   |-> IF status = "resolved" THEN "open" ELSE old.status,
              severity |-> IF e \in Critical THEN "critical" ELSE old.severity,
              last     |-> Later(old.last, TimeOf[e])]

\* Mutant: late evidence moves the cursor too.
NewCursor_Always(B, e) == [bucket |-> Home(B, e), last |-> TimeOf[e]]

\* Only evidence that moves forward moves the cursor
NewCursor(B, e) ==
    IF TimeOf[e] >= B.cur.last THEN [bucket |-> Home(B, e), last |-> TimeOf[e]] ELSE B.cur

EvidenceOf(B, b) == {e \in Events : B.ev[e] = b}

\* What the deterministic diagnosis of the incident rests on
Basis_Before(B, e) == EvidenceOf(B, Home(B, e))

Basis(B, e) == EvidenceOf(B, Home(B, e)) \cup {e}

\* correlate_incident after the cursor is locked, and persist_incident_diagnosis
Correlated(B, e, status) ==
    [row  |-> [B.row EXCEPT ![Home(B, e)] = NewRow(B, e, status)],
     ev   |-> [B.ev EXCEPT ![e] = Home(B, e)],
     cur  |-> NewCursor(B, e),
     diag |-> [B.diag EXCEPT ![Home(B, e)] = Basis(B, e)]]

\* should_send_incident_notification and the event that _record_correlation names
News(B, e, status) ==
    LET Notify(what) == {[key |-> KeyOf[e], bucket |-> Home(B, e), what |-> what]}
    IN  CASE Opens(B, e) -> Notify("created")
          [] ~Opens(B, e) /\ status = "resolved" -> Notify("reopened")
          [] ~Opens(B, e) /\ status # "resolved" /\ e \in Critical
               /\ B.row[Current(B, e)].severity # "critical" -> Notify("severity_escalated")
          [] OTHER -> {}

-----------------------------------------------------------------------------
(* The tasks.                                                              *)

\* Mutant: the books are read in a session of their own, for each event.
Seen_Committed(t, k) == store[k]

Seen(t, k) == IF locked[k] = t THEN draft[k] ELSE store[k]

\* The rows that a scan reads: the newest ones, handled or not
Newest(S, T) ==
    /\ T \subseteq S
    /\ Cardinality(T) = IF Cardinality(S) <= ScanLimit THEN Cardinality(S) ELSE ScanLimit
    /\ \A e \in T, f \in S \ T : TimeOf[e] >= TimeOf[f]

\* Mutant: a scan reads only what is newer than the cursor.
Pending_AfterCursor(e) ==
    store[KeyOf[e]].ev[e] = NoBucket /\ TimeOf[e] > store[KeyOf[e]].cur.last

\* The reference has no evidence yet
Pending(e) == store[KeyOf[e]].ev[e] = NoBucket

\* vendor_event_evidence_task; its Redis lock outlives the hard time limit
BeginScan(t) ==
    /\ task[t].pc = "idle"
    /\ \A u \in Tasks : task[u].kind # "scan"
    /\ \E T \in SUBSET (arrived \cap VendorEvents) :
         LET new == {e \in T : Pending(e)}
         IN  /\ Newest(arrived \cap VendorEvents, T)
             /\ new # {}
             /\ task' = [task EXCEPT ![t] = [Idle EXCEPT !.pc = "next", !.kind = "scan", !.todo = new]]
    /\ UNCHANGED <<arrived, covered, store, draft, locked, told, crashes, windows>>

\* diskpulse_alert_evidence_task of a message, which may be a duplicate; or the daily forecasts
BeginBatch(t) ==
    /\ task[t].pc = "idle"
    /\ \E S \in (SUBSET (arrived \cap Alerts)) \cup (SUBSET (arrived \cap Forecasts)) :
         /\ S # {}
         /\ task' = [task EXCEPT ![t] = [Idle EXCEPT !.pc = "next", !.kind = "batch", !.todo = S]]
    /\ UNCHANGED <<arrived, covered, store, draft, locked, told, crashes, windows>>

\* Newest first in a scan, in no order in a batch
IsNext(t, e) ==
    /\ e \in task[t].todo
    /\ task[t].kind = "scan" => \A f \in task[t].todo : TimeOf[e] >= TimeOf[f]

NeedsCursor(t, e) ==
    /\ Admits(e)
    /\ Seen(t, KeyOf[e]).ev[e] = NoBucket
    /\ e \notin covered

\* The admission, the first look for the reference and the maintenance windows
Consider(t) ==
    /\ task[t].pc = "next"
    /\ \E e \in Events :
         /\ IsNext(t, e)
         /\ task' = IF NeedsCursor(t, e)
                    THEN [task EXCEPT ![t].pc = "lock", ![t].event = e]
                    ELSE [task EXCEPT ![t].todo = @ \ {e}]
    /\ UNCHANGED <<arrived, covered, store, draft, locked, told, crashes, windows>>

\* The reference is looked up again under the lock
StillNew(B, e) == B.ev[e] = NoBucket

\* The status of the current incident as the session has it: an incident that this transaction
\* has already added evidence to may still be loaded, and was open then
StatusesRead(t, k, e) ==
    LET B == Seen(t, k)
        b == Current(B, e)
    IN  CASE Opens(B, e) -> {"none"}
          [] ~Opens(B, e) /\ \E f \in EvidenceOf(B, b) : store[k].ev[f] = NoBucket
               -> {"open", B.row[b].status}
          [] OTHER -> {B.row[b].status}

\* lock_incident_correlation_state, the second look, and the incident as it is read
Lock(t) ==
    LET e == task[t].event
        k == KeyOf[e]
    IN  /\ task[t].pc = "lock"
        /\ locked[k] \in {NoTask, t}
        /\ locked' = [locked EXCEPT ![k] = t]
        /\ draft' = [draft EXCEPT ![k] = Seen(t, k)]
        /\ \/ /\ StillNew(Seen(t, k), e)
              /\ \E status \in StatusesRead(t, k, e) :
                    task' = [task EXCEPT ![t].pc = "write", ![t].seen = status]
           \/ /\ ~StillNew(Seen(t, k), e)
              /\ task' = [task EXCEPT ![t].pc = "next", ![t].todo = @ \ {e}, ![t].event = NoEvent]
        /\ UNCHANGED <<arrived, covered, store, told, crashes, windows>>

\* The rest of correlate_incident; a collision rolls the whole task back
Write(t) ==
    LET e == task[t].event
        k == KeyOf[e]
    IN  /\ task[t].pc = "write"
        /\ ~Collides(draft[k], e)
        /\ draft' = [draft EXCEPT ![k] = Correlated(draft[k], e, task[t].seen)]
        /\ task' = [task EXCEPT ![t].pc = "next", ![t].todo = @ \ {e}, ![t].event = NoEvent,
                                ![t].seen = "none", ![t].news = @ \cup News(draft[k], e, task[t].seen)]
        /\ UNCHANGED <<arrived, covered, store, locked, told, crashes, windows>>

Released(t) == [k \in Keys |-> IF locked[k] = t THEN NoTask ELSE locked[k]]

Commit(t) ==
    /\ task[t].pc = "next" /\ task[t].todo = {}
    /\ store' = [k \in Keys |-> IF locked[k] = t THEN draft[k] ELSE store[k]]
    /\ locked' = Released(t)
    /\ task' = [task EXCEPT ![t].pc = "tell"]
    /\ UNCHANGED <<arrived, covered, draft, told, crashes, windows>>

\* The finally clause: only after a commit
Tell(t) ==
    /\ task[t].pc = "tell"
    /\ told' = told \cup task[t].news
    /\ task' = [task EXCEPT ![t] = Idle]
    /\ UNCHANGED <<arrived, covered, store, draft, locked, crashes, windows>>

\* What an exception leaves of a task
RolledBack(t) == /\ locked' = Released(t)
                 /\ task' = [task EXCEPT ![t] = Idle]

FailTask(t) ==
    /\ task[t].pc = "write"
    /\ Collides(draft[KeyOf[task[t].event]], task[t].event)
    /\ RolledBack(t)
    /\ UNCHANGED <<arrived, covered, store, draft, told, crashes, windows>>

\* Killed, timed out, or chosen to resolve a deadlock of cursors; before the commit or after it
Crash(t) ==
    /\ task[t].pc # "idle" /\ crashes < MaxCrashes
    /\ RolledBack(t)
    /\ crashes' = crashes + 1
    /\ UNCHANGED <<arrived, covered, store, draft, told, windows>>

-----------------------------------------------------------------------------
(* The collectors, and the people and the agent that work on incidents.    *)

Arrive(e) ==
    /\ e \notin arrived
    /\ arrived' = arrived \cup {e}
    /\ UNCHANGED <<covered, store, draft, locked, task, told, crashes, windows>>

\* A transaction that wrote the row holds it until it ends
RowIsFree(k, b) == locked[k] # NoTask => draft[k].row[b] = store[k].row[b]

\* update_incident, review_incident or reconcile_legacy_vendor_incidents closes an incident
Resolve(k, b) ==
    /\ store[k].row[b] # NoRow
    /\ store[k].row[b].status = "open"
    /\ RowIsFree(k, b)
    /\ store' = [store EXCEPT ![k].row[b].status = "resolved"]
    /\ draft' = IF locked[k] # NoTask THEN [draft EXCEPT ![k].row[b].status = "resolved"] ELSE draft
    /\ UNCHANGED <<arrived, covered, locked, task, told, crashes, windows>>

\* create_maintenance_window: it covers a period of an asset, events to come included
CreateWindow ==
    /\ windows < MaxWindows
    /\ \E k \in Keys, from, to \in {TimeOf[e] : e \in Events} :
         /\ from <= to
         /\ covered' = covered \cup {e \in Events : KeyOf[e] = k /\ from <= TimeOf[e] /\ TimeOf[e] <= to}
    /\ windows' = windows + 1
    /\ UNCHANGED <<arrived, store, draft, locked, task, told, crashes>>

Step(t) == Consider(t) \/ Write(t) \/ Commit(t) \/ Tell(t) \/ FailTask(t)

CorrelationNext ==
    \/ \E t \in Tasks : BeginScan(t) \/ BeginBatch(t) \/ Lock(t) \/ Step(t) \/ Crash(t)
    \/ \E e \in Events : Arrive(e)
    \/ \E k \in Keys, b \in Buckets : Resolve(k, b)
    \/ CreateWindow

CorrelationSpec == CorrelationInit /\ [][CorrelationNext]_correlationVars

\* Celery beat sends a scan every minute and the queue is served in order, a task runs on until
\* it ends or is killed, and PostgreSQL grants a row lock in the order of the requests.
CorrelationFairness ==
    /\ SF_correlationVars(\E t \in Tasks : BeginScan(t))
    /\ \A t \in Tasks : WF_correlationVars(Step(t)) /\ SF_correlationVars(Lock(t))

FairCorrelationSpec == CorrelationSpec /\ CorrelationFairness

-----------------------------------------------------------------------------
(* Correctness.                                                            *)

\* Type invariant: books, drafts of open transactions and their queues.
CorrelationTypeOK ==
    /\ arrived \subseteq Events /\ covered \subseteq Events
    /\ store \in [Keys -> Book] /\ draft \in [Keys -> Book]
    /\ locked \in [Keys -> Tasks \cup {NoTask}]
    /\ task \in [Tasks -> TaskState]
    /\ told \subseteq Notice
    /\ crashes \in 0..MaxCrashes /\ windows \in 0..MaxWindows

\* The cursor names the incident of the newest evidence: "only forward-moving evidence advances
\* the cursor".
CursorFits(B) ==
    /\ B.cur.bucket = NoBucket <=> B.cur.last = -1
    /\ \A e \in Events : B.ev[e] # NoBucket => TimeOf[e] <= B.cur.last
    /\ B.cur.bucket # NoBucket => \E e \in EvidenceOf(B, B.cur.bucket) : TimeOf[e] = B.cur.last

\* last_evidence_at is the time of the newest of the incident's evidence, and no incident is
\* left without evidence.
SummaryFits(B) ==
    \A b \in Buckets :
        /\ B.row[b] = NoRow <=> EvidenceOf(B, b) = {}
        /\ B.row[b] # NoRow =>
             /\ \E e \in EvidenceOf(B, b) : TimeOf[e] = B.row[b].last
             /\ \A e \in EvidenceOf(B, b) : TimeOf[e] <= B.row[b].last

\* The newest diagnosis of an incident rests on all of its evidence.
DiagnosisFits(B) == \A b \in Buckets : B.diag[b] = EvidenceOf(B, b)

\* Evidence that did not open its incident lies within the window of other evidence of it.
EvidenceFits(B) ==
    \A b \in Buckets : \A e \in EvidenceOf(B, b) :
        \/ BucketOf(e) = b
        \/ \E f \in EvidenceOf(B, b) \ {e} : TimeOf[e] - TimeOf[f] \in -Window..Window

Consistent(B) == CursorFits(B) /\ SummaryFits(B) /\ DiagnosisFits(B) /\ EvidenceFits(B)

\* Cursor, summaries, diagnoses and evidence of every key fit each other, whatever late evidence
\* came in between, whichever tasks overlapped on the key, and although each diagnosis is made
\* from what one transaction sees (correlate_incident and persist_incident_diagnosis under the
\* lock of the cursor).
BooksAreConsistent == \A k \in Keys : Consistent(store[k])

\* A task about to write never finds the reference recorded, so that concurrent delivery of one
\* reference is a no-op and not a violation of uq_incident_evidence_source_ref that would roll
\* back the whole task.
WritesAreNew ==
    \A t \in Tasks : task[t].pc = "write" => draft[KeyOf[task[t].event]].ev[task[t].event] = NoBucket

\* A notification is about a committed incident: none is sent for a transaction that failed.
NoticesAreTrue == \A n \in told : store[n.key].row[n.bucket] # NoRow

\* Every critical vendor event becomes evidence or is covered by a maintenance window, although
\* scans fail and are killed: the next scan looks at it again.
VendorEventsRecorded ==
    \A e \in VendorEvents :
        e \in arrived /\ Admits(e) ~> store[KeyOf[e]].ev[e] # NoBucket \/ e \in covered

-----------------------------------------------------------------------------
(* Refinement.                                                             *)

\* The book of each key with what its open transaction has written
InWork == [k \in Keys |-> IF locked[k] = NoTask THEN store[k] ELSE draft[k]]

Admitted == {e \in Events : Admits(e)}

\* The incident of each piece of evidence, committed and as it is seen with open work
InStore == [e \in Admitted |-> store[KeyOf[e]].ev[e]]
InBooks == [e \in Admitted |-> InWork[KeyOf[e]].ev[e]]

Announced == {<<n.key, n.bucket>> : n \in told}

Ledger == INSTANCE IncidentLedger WITH
    Evidence <- Admitted, OwnIncident <- [e \in Admitted |-> BucketOf(e)], NoIncident <- NoBucket,
    committed <- InStore, placed <- InBooks, announced <- Announced

\* Cursors, locks and drafts implement IncidentLedger: each piece of evidence is placed as if
\* tasks took turns, and the cursor of a key always stands for its newest evidence.
ImplementsLedger == Ledger!Spec
=============================================================================
