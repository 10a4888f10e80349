-------------------------- MODULE QuotaAdjustment --------------------------
(***************************************************************************)
(* Adjustment and reconciliation of one device quota:                      *)
(* backend/services/quotaService.py, next to the collection of the same    *)
(* row (celery_tasks/manager/storagePulseMonitor.py).                      *)
(*                                                                         *)
(* A request loads the row, takes the Redis lock of the device rule,       *)
(* commits the audit of its attempt, writes to the device, reads back,     *)
(* and commits the limit it read together with the audit of the result.    *)
(* The device may apply a write whose answer timed out at any later time,  *)
(* and storage administrators change quotas on it by hand.                 *)
(*                                                                         *)
(* The ORM sends a column with an UPDATE only when its new value differs   *)
(* from the value the session loaded; a commit forgets the loaded values.  *)
(* So a request that loaded the limit, and has not committed since, leaves *)
(* the limit that others committed meanwhile when it sets the one it knew. *)
(***************************************************************************)
EXTENDS Naturals

CONSTANTS
    Requests,     \* API workers that serve quota requests
    Collectors,   \* Celery workers that collect the cluster
    Limits,       \* quota values
    NoLimit,      \* nothing loaded or read
    NoOne,        \* the lock is free
    Orphan,       \* the lock's token is known to nobody any more
    TtlSuffices,  \* no request works longer than _LOCK_TTL_SECONDS
    MaxByHand     \* bound on changes made on the device itself

ASSUME MarkersAssumption ==
    /\ NoOne \notin Requests
    /\ Orphan \notin Requests
    /\ NoOne # Orphan
    /\ NoLimit \notin Limits
ASSUME SwitchAssumption == TtlSuffices \in BOOLEAN
ASSUME BoundAssumption == MaxByHand \in Nat

VARIABLES
    device,       \* the limit the device enforces
    late,         \* writes that timed out and that the device may still apply
    local,        \* storage_usages.limit, committed
    lock,         \* holder of the rule's Redis lock
    req,          \* what each API worker is doing
    round,        \* what each collector is doing
    attempted,    \* the limits of the attempts in the audit trail
    byHand        \* counts towards MaxByHand

vars == <<device, late, local, lock, req, round, attempted, byHand>>

Free == [pc |-> "free", op |-> "none", want |-> NoLimit, loaded |-> NoLimit, got |-> NoLimit]
NoRound == [pc |-> "free", got |-> NoLimit, loaded |-> NoLimit]

\* The steps of a request inside _quota_target_lock.
Working == {"locked", "attempted", "written", "timedout", "answered", "stored"}

Init ==
    /\ device \in Limits
    /\ late = {}
    /\ local \in Limits
    /\ lock = NoOne
    /\ req = [r \in Requests |-> Free]
    /\ round = [c \in Collectors |-> NoRound]
    /\ attempted = {}
    /\ byHand = 0

-----------------------------------------------------------------------------
(* Requests                                                                *)

\* db.get and the checks before the lock: permissions, shape, use above the limit.
Load(r) ==
    /\ req[r].pc = "free"
    /\ \/ req' = [req EXCEPT ![r] = [Free EXCEPT !.pc = "loaded", !.op = "reconcile",
                                                 !.loaded = local]]
       \/ \E v \in Limits :
            req' = [req EXCEPT ![r] = [Free EXCEPT !.pc = "loaded", !.op = "adjust",
                                                   !.want = v, !.loaded = local]]
    /\ UNCHANGED <<device, late, local, lock, round, attempted, byHand>>

\* Mutant: SET without NX.
Acquire_NotExclusive(r) ==
    /\ req[r].pc = "loaded"
    /\ lock' = r
    /\ req' = [req EXCEPT ![r].pc = "locked"]
    /\ UNCHANGED <<device, late, local, round, attempted, byHand>>

\* SET NX EX.
Acquire(r) ==
    /\ req[r].pc = "loaded"
    /\ lock = NoOne
    /\ lock' = r
    /\ req' = [req EXCEPT ![r].pc = "locked"]
    /\ UNCHANGED <<device, late, local, round, attempted, byHand>>

\* The checks fail, the lock is taken (409) or Redis is away (503).
Refuse(r) ==
    /\ req[r].pc = "loaded"
    /\ req' = [req EXCEPT ![r] = Free]
    /\ UNCHANGED <<device, late, local, lock, round, attempted, byHand>>

\* Mutant: the attempt is flushed and left to the commit of the result.
RecordAttempt_Flushed(r) ==
    /\ req[r].pc = "locked"
    /\ req[r].op = "adjust"
    /\ req' = [req EXCEPT ![r].pc = "attempted", ![r].loaded = NoLimit]
    /\ UNCHANGED <<device, late, local, lock, round, attempted, byHand>>

\* Mutant: the session keeps what it loaded (expire_on_commit=False).
RecordAttempt_KeepsLoaded(r) ==
    /\ req[r].pc = "locked"
    /\ req[r].op = "adjust"
    /\ attempted' = attempted \cup {req[r].want}
    /\ req' = [req EXCEPT ![r].pc = "attempted"]
    /\ UNCHANGED <<device, late, local, lock, round, byHand>>

\* The audit of the attempt is committed before the device is touched.
RecordAttempt(r) ==
    /\ req[r].pc = "locked"
    /\ req[r].op = "adjust"
    /\ attempted' = attempted \cup {req[r].want}
    /\ req' = [req EXCEPT ![r].pc = "attempted", ![r].loaded = NoLimit]
    /\ UNCHANGED <<device, late, local, lock, round, byHand>>

\* client.update_quota: the device applies the write and answers.
WriteDevice(r) ==
    /\ req[r].pc = "attempted"
    /\ device' = req[r].want
    /\ req' = [req EXCEPT ![r].pc = "written"]
    /\ UNCHANGED <<late, local, lock, round, attempted, byHand>>

\* A timeout or a broken connection: before the write was sent, after it was
\* applied, or while the device is yet to apply it.
TimeOut(r) ==
    /\ req[r].pc \in {"attempted", "written"}
    /\ req' = [req EXCEPT ![r].pc = "timedout"]
    /\ \/ late' = late
       \/ req[r].pc = "attempted" /\ late' = late \cup {req[r].want}
    /\ UNCHANGED <<device, local, lock, round, attempted, byHand>>

\* Mutant: a rule that the report does not list reads as no limit.
ReadDevice_NoRule(r) ==
    /\ \/ req[r].pc = "written"
       \/ req[r].pc = "locked" /\ req[r].op = "reconcile"
    /\ \E v \in {device, NoLimit} : req' = [req EXCEPT ![r].pc = "answered", ![r].got = v]
    /\ UNCHANGED <<device, late, local, lock, round, attempted, byHand>>

\* The client's read after its write, a reconciliation's read: taken as it is.
ReadDevice(r) ==
    /\ \/ req[r].pc = "written"
       \/ req[r].pc = "locked" /\ req[r].op = "reconcile"
    /\ req' = [req EXCEPT ![r].pc = "answered", ![r].got = device]
    /\ UNCHANGED <<device, late, local, lock, round, attempted, byHand>>

\* The read after a timeout: it has to match, the write is not repeated.
ReadAfterTimeout(r) ==
    /\ req[r].pc = "timedout"
    /\ device = req[r].want
    /\ req' = [req EXCEPT ![r].pc = "answered", ![r].got = device]
    /\ UNCHANGED <<device, late, local, lock, round, attempted, byHand>>

\* What a flush leaves in a column.
Written(loaded, new, current) == IF loaded = new THEN current ELSE new

\* _sync_local_quota, the alert row and the audit of the result, in one commit.
Store(r) ==
    /\ req[r].pc = "answered"
    /\ local' = Written(req[r].loaded, req[r].got, local)
    /\ req' = [req EXCEPT ![r].pc = "stored"]
    /\ UNCHANGED <<device, late, lock, round, attempted, byHand>>

\* The lock is deleted if it still holds the request's token; Redis may be away.
Release(r) == lock' \in IF lock = r THEN {NoOne, Orphan} ELSE {lock}

\* After a commit: messages are enqueued, the lock is released.
Finish(r) ==
    /\ req[r].pc = "stored"
    /\ req' = [req EXCEPT ![r] = Free]
    /\ Release(r)
    /\ UNCHANGED <<device, late, local, round, attempted, byHand>>

\* The device rejects, cannot be reached or read, the read after a timeout does
\* not match, or a commit fails: the local row stays, the lock is released.
Fail(r) ==
    /\ req[r].pc \in Working \ {"stored"}
    /\ req' = [req EXCEPT ![r] = Free]
    /\ Release(r)
    /\ UNCHANGED <<device, late, local, round, attempted, byHand>>

\* The API process dies: nobody knows the token; a write may be on its way.
Kill(r) ==
    /\ req[r].pc # "free"
    /\ req' = [req EXCEPT ![r] = Free]
    /\ lock' = IF lock = r THEN Orphan ELSE lock
    /\ \/ late' = late
       \/ req[r].pc = "attempted" /\ late' = late \cup {req[r].want}
    /\ UNCHANGED <<device, local, round, attempted, byHand>>

\* Mutant: the lock has no TTL.
LockExpires_Never ==
    /\ FALSE
    /\ lock' = NoOne
    /\ UNCHANGED <<device, late, local, req, round, attempted, byHand>>

\* The TTL of the lock runs out; nothing renews it while its holder works.
LockExpires ==
    /\ lock # NoOne
    /\ TtlSuffices => lock = Orphan
    /\ lock' = NoOne
    /\ UNCHANGED <<device, late, local, req, round, attempted, byHand>>

-----------------------------------------------------------------------------
(* The device and the collection                                           *)

ApplyLate ==
    /\ \E v \in late :
        /\ device' = v
        /\ late' = late \ {v}
    /\ UNCHANGED <<local, lock, req, round, attempted, byHand>>

ForgetLate ==
    /\ \E v \in late : late' = late \ {v}
    /\ UNCHANGED <<device, local, lock, req, round, attempted, byHand>>

ChangeByHand ==
    /\ byHand < MaxByHand
    /\ byHand' = byHand + 1
    /\ \E v \in Limits \ {device} : device' = v
    /\ UNCHANGED <<late, local, lock, req, round, attempted>>

\* A round reads the reports of the device ...
CollectDevice(c) ==
    /\ round[c].pc = "free"
    /\ round' = [round EXCEPT ![c] = [pc |-> "read", got |-> device, loaded |-> NoLimit]]
    /\ UNCHANGED <<device, late, local, lock, req, attempted, byHand>>

\* ... loads the rows (sync_data_to_postgres) ...
CollectRow(c) ==
    /\ round[c].pc = "read"
    /\ round' = [round EXCEPT ![c].pc = "loaded", ![c].loaded = local]
    /\ UNCHANGED <<device, late, local, lock, req, attempted, byHand>>

\* A round that committed remembers what it read, one that failed nothing.
Committed(c) == [NoRound EXCEPT !.got = round[c].got]

\* Mutant: the round refreshes the use of a row but not its limit.
CommitRound_NoLimit(c) ==
    /\ round[c].pc = "loaded"
    /\ round' = [round EXCEPT ![c] = Committed(c)]
    /\ UNCHANGED <<device, late, local, lock, req, attempted, byHand>>

\* ... and commits what it read, without a look at the lock.
CommitRound(c) ==
    /\ round[c].pc = "loaded"
    /\ local' = Written(round[c].loaded, round[c].got, local)
    /\ round' = [round EXCEPT ![c] = Committed(c)]
    /\ UNCHANGED <<device, late, lock, req, attempted, byHand>>

\* An error or a killed worker: the cluster's transaction is rolled back.
AbortRound(c) ==
    /\ round[c].pc # "free"
    /\ round' = [round EXCEPT ![c] = NoRound]
    /\ UNCHANGED <<device, late, local, lock, req, attempted, byHand>>

Collect(c) == CollectDevice(c) \/ CollectRow(c) \/ CommitRound(c)

Serve(r) ==
    \/ Load(r) \/ Acquire(r) \/ Refuse(r) \/ RecordAttempt(r)
    \/ WriteDevice(r) \/ TimeOut(r) \/ ReadDevice(r) \/ ReadAfterTimeout(r)
    \/ Store(r) \/ Finish(r) \/ Fail(r)

Next ==
    \/ \E r \in Requests : Serve(r) \/ Kill(r)
    \/ LockExpires
    \/ ApplyLate \/ ForgetLate \/ ChangeByHand
    \/ \E c \in Collectors : Collect(c) \/ AbortRound(c)

Spec == Init /\ [][Next]_vars

\* The beat starts a collection every minute, a worker works while it is not
\* killed, and Redis drops a lock whose TTL has run out.
FairSpec ==
    /\ Spec
    /\ \A c \in Collectors : WF_vars(Collect(c))
    /\ WF_vars(LockExpires)

-----------------------------------------------------------------------------
(* Properties                                                              *)

Maybe == Limits \cup {NoLimit}
Request == [pc : Working \cup {"free", "loaded"}, op : {"none", "adjust", "reconcile"},
            want : Maybe, loaded : Maybe, got : Maybe]
Round == [pc : {"free", "read", "loaded"}, got : Maybe, loaded : Maybe]

\* The device and the row always hold a limit that somebody chose.
TypeOK ==
    /\ device \in Limits
    /\ late \subseteq Limits
    /\ local \in Limits
    /\ lock \in Requests \cup {NoOne, Orphan}
    /\ req \in [Requests -> Request]
    /\ round \in [Collectors -> Round]
    /\ attempted \subseteq Limits
    /\ byHand \in 0..MaxByHand

\* While no request outlives the TTL, the requests of a device rule are
\* serialised from the attempt to the release, with processes killed inside,
\* locks that could not be released and locks that expire.
OneAtATime ==
    \A r, s \in Requests : (req[r].pc \in Working /\ req[s].pc \in Working) => r = s

\* The device never gets a limit from this program that is not in the audit
\* trail, not even by a write that is applied after its process was killed.
EveryWriteIsOnRecord ==
    [][device' # device /\ byHand' = byHand => device' \in attempted']_vars

Stores(r, op) == req[r].op = op /\ req[r].pc = "answered" /\ req'[r].pc = "stored"

\* A successful adjustment leaves the limit that the device answered in the
\* row, whatever a collection committed since the request loaded the row.
AdjustmentStored == [][\A r \in Requests : Stores(r, "adjust") => local' = req[r].got]_vars

\* The documentation says that reconciliation repairs the local data.
ReconcileRepairs == [][\A r \in Requests : Stores(r, "reconcile") => local' = req[r].got]_vars

AtRest == late = {} /\ \A r \in Requests : req[r].pc = "free"

\* Once the device and the requests rest, and rounds stop failing, the row ends
\* with the device's limit for good, whatever timeouts, lost commits, late
\* writes and stale rounds came before.
LocalConverges ==
    (<>[]AtRest /\ <>[][\A c \in Collectors : ~ AbortRound(c)]_vars)
        => <>[](local = device)

\* A lock whose holder died does not refuse adjustments for ever.
OrphanFreed == lock = Orphan ~> lock # Orphan
=============================================================================
