---------------------------- MODULE RecordsProofs ----------------------------
(***************************************************************************)
(* Theorems about QuotaAdjustment, IncidentCorrelation and IncidentReview. *)
(***************************************************************************)
EXTENDS QuotaAdjustment, IncidentCorrelation, IncidentReview, TLAPS

(***************************************************************************)
(* Theorems about QuotaAdjustment.                                         *)
(*                                                                         *)
(* Serialisation rests on the holder of the lock being the one request     *)
(* inside it (Holder); the audit trail on every write that can still reach *)
(* the device, that of a killed process included, having been attempted    *)
(* on record (Recorded).                                                   *)
(***************************************************************************)

\* The requests whose write is still to come or may still be applied.
Writing == {"attempted", "written", "timedout"}

\* A request at work holds the lock, as long as none outlives its TTL.
Holder == TtlSuffices => \A r \in Requests : req[r].pc \in Working => lock = r

\* What the device may be asked to do is on record.
Recorded ==
    /\ late \subseteq attempted
    /\ \A r \in Requests : req[r].pc \in Writing => req[r].want \in attempted

\* Only an adjustment has something to write, and it knows what; an answer is a limit.
Shaped ==
    \A r \in Requests :
        /\ (req[r].op = "adjust" \/ req[r].pc \in Writing) => req[r].want \in Limits
        /\ req[r].pc \in {"answered", "stored"} => req[r].got \in Limits

Rounds == \A c \in Collectors : round[c].pc # "free" => round[c].got \in Limits

TypeInv == TypeOK /\ Shaped /\ Rounds

LEMMA InitTypes == Init => TypeInv
  BY BoundAssumption, MarkersAssumption
  DEF Init, TypeInv, TypeOK, Shaped, Rounds, Free, NoRound, Request, Round, Maybe, Writing, Working

LEMMA FreeRequest == Free \in Request /\ NoRound \in Round
  BY DEF Free, NoRound, Request, Round, Maybe

\* A request keeps its type and its shape in every step of its own.
LEMMA ServeTypes ==
  ASSUME TypeInv, NEW r \in Requests, Serve(r) \/ Kill(r)
  PROVE TypeInv'
<1> USE DEF TypeInv, TypeOK, Shaped, Rounds, Request, Maybe, Writing, Working
<1> USE FreeRequest, MarkersAssumption
<1>1. CASE Load(r)
  <2>1. PICK q \in Request : req' = [req EXCEPT ![r] = q] /\ q.pc = "loaded"
                             /\ (q.op = "adjust" => q.want \in Limits)
    <3>1. CASE req' = [req EXCEPT ![r] = [Free EXCEPT !.pc = "loaded", !.op = "reconcile",
                                                      !.loaded = local]]
      <4> DEFINE q == [Free EXCEPT !.pc = "loaded", !.op = "reconcile", !.loaded = local]
      <4>1. q \in Request /\ q.pc = "loaded" /\ q.op = "reconcile" BY DEF Free
      <4> QED BY <3>1, <4>1
    <3>2. ASSUME NEW v \in Limits,
                 req' = [req EXCEPT ![r] = [Free EXCEPT !.pc = "loaded", !.op = "adjust",
                                                        !.want = v, !.loaded = local]]
          PROVE \E q \in Request : req' = [req EXCEPT ![r] = q] /\ q.pc = "loaded"
                                   /\ (q.op = "adjust" => q.want \in Limits)
      <4> DEFINE q == [Free EXCEPT !.pc = "loaded", !.op = "adjust", !.want = v, !.loaded = local]
      <4>1. q \in Request /\ q.pc = "loaded" /\ q.want \in Limits BY DEF Free
      <4> QED BY <3>2, <4>1
    <3> QED BY <1>1, <3>1, <3>2 DEF Load
  <2> QED BY <1>1, <2>1 DEF Load
<1>2. CASE Acquire(r) BY <1>2 DEF Acquire
<1>3. CASE Refuse(r) BY <1>3 DEF Refuse, Free
<1>4. CASE RecordAttempt(r) BY <1>4 DEF RecordAttempt
<1>5. CASE WriteDevice(r) BY <1>5 DEF WriteDevice
<1>6. CASE TimeOut(r) BY <1>6 DEF TimeOut
<1>7. CASE ReadDevice(r) BY <1>7 DEF ReadDevice
<1>8. CASE ReadAfterTimeout(r) BY <1>8 DEF ReadAfterTimeout
<1>9. CASE Store(r) BY <1>9 DEF Store, Written
<1>10. CASE Finish(r) BY <1>10 DEF Finish, Release, Free
<1>11. CASE Fail(r) BY <1>11 DEF Fail, Release, Free
<1>12. CASE Kill(r) BY <1>12 DEF Kill, Free
<1> QED
  BY <1>1, <1>2, <1>3, <1>4, <1>5, <1>6, <1>7, <1>8, <1>9, <1>10, <1>11, <1>12 DEF Serve

\* So do the device and the collection.
LEMMA OutsideTypes ==
  ASSUME TypeInv,
         LockExpires \/ ApplyLate \/ ForgetLate \/ ChangeByHand
           \/ \E c \in Collectors : Collect(c) \/ AbortRound(c)
  PROVE TypeInv'
<1> USE DEF TypeInv, TypeOK, Shaped, Rounds, Round, Maybe
<1> USE FreeRequest, MarkersAssumption, BoundAssumption
<1>1. CASE LockExpires BY <1>1 DEF LockExpires
<1>2. CASE ApplyLate BY <1>2 DEF ApplyLate
<1>3. CASE ForgetLate BY <1>3 DEF ForgetLate
<1>4. CASE ChangeByHand BY <1>4 DEF ChangeByHand
<1>5. ASSUME NEW c \in Collectors, Collect(c) \/ AbortRound(c)
      PROVE TypeInv'
  <2>1. CASE CollectDevice(c) BY <2>1 DEF CollectDevice
  <2>2. CASE CollectRow(c) BY <2>2 DEF CollectRow
  <2>3. CASE CommitRound(c) BY <2>3 DEF CommitRound, Committed, Written, NoRound, Round
  <2>4. CASE AbortRound(c) BY <2>4 DEF AbortRound, NoRound
  <2> QED BY <1>5, <2>1, <2>2, <2>3, <2>4 DEF Collect
<1> QED BY <1>1, <1>2, <1>3, <1>4, <1>5

LEMMA TypeStep == TypeInv /\ [Next]_vars => TypeInv'
<1> SUFFICES ASSUME TypeInv, [Next]_vars PROVE TypeInv'
  OBVIOUS
<1>1. CASE \E r \in Requests : Serve(r) \/ Kill(r) BY <1>1, ServeTypes
<1>2. CASE LockExpires \/ ApplyLate \/ ForgetLate \/ ChangeByHand
             \/ \E c \in Collectors : Collect(c) \/ AbortRound(c)
  BY <1>2, OutsideTypes
<1>3. CASE UNCHANGED vars
  BY <1>3 DEF vars, TypeInv, TypeOK, Shaped, Rounds
<1> QED BY <1>1, <1>2, <1>3 DEF Next

\* The types are an invariant.
THEOREM AdjustmentTypeCorrect == Spec => []TypeOK
<1>1. TypeInv /\ [Next]_vars => TypeInv' BY TypeStep
<1>2. TypeInv => TypeOK BY DEF TypeInv
<1> QED BY InitTypes, <1>1, <1>2, PTL DEF Spec

-----------------------------------------------------------------------------
(* Serialisation                                                           *)

HolderInv == TypeOK /\ Holder

\* Only the holder works: its lock is not taken from it while it does.
LEMMA HolderStep ==
  ASSUME TypeOK, TypeOK', Holder, [Next]_vars
  PROVE Holder'
<1> SUFFICES ASSUME TtlSuffices, NEW s \in Requests, req'[s].pc \in Working
             PROVE lock' = s
  BY DEF Holder
<1> USE DEF Holder, Working
<1> USE MarkersAssumption
<1>1. ASSUME NEW r \in Requests, Serve(r) \/ Kill(r)
      PROVE lock' = s
  <2> USE <1>1 DEF TypeOK
  <2>1. CASE Load(r)
    <3>1. r # s => req'[s] = req[s]
      <4>1. PICK q : req' = [req EXCEPT ![r] = q] BY <2>1 DEF Load
      <4> QED BY <4>1
    <3>2. req'[r].pc = "loaded"
      <4>1. \A x : [req EXCEPT ![r] = x][r] = x OBVIOUS
      <4>2. \E q : q.pc = "loaded" /\ req' = [req EXCEPT ![r] = q]
        <5>1. \A v : LET q == [Free EXCEPT !.pc = "loaded", !.op = "adjust", !.want = v,
                                          !.loaded = local] IN q.pc = "loaded"
          BY DEF Free
        <5>2. LET q == [Free EXCEPT !.pc = "loaded", !.op = "reconcile", !.loaded = local]
              IN q.pc = "loaded"
          BY DEF Free
        <5> QED BY <2>1, <5>1, <5>2 DEF Load
      <4> QED BY <4>1, <4>2
    <3> QED BY <2>1, <3>1, <3>2 DEF Load
  <2>2. CASE Acquire(r) BY <2>2 DEF Acquire
  <2>3. CASE Refuse(r) BY <2>3 DEF Refuse, Free
  <2>4. CASE RecordAttempt(r) BY <2>4 DEF RecordAttempt
  <2>5. CASE WriteDevice(r) BY <2>5 DEF WriteDevice
  <2>6. CASE TimeOut(r) BY <2>6 DEF TimeOut
  <2>7. CASE ReadDevice(r) BY <2>7 DEF ReadDevice
  <2>8. CASE ReadAfterTimeout(r) BY <2>8 DEF ReadAfterTimeout
  <2>9. CASE Store(r) BY <2>9 DEF Store
  <2>10. CASE Finish(r) BY <2>10 DEF Finish, Release, Free
  <2>11. CASE Fail(r) BY <2>11 DEF Fail, Release, Free
  <2>12. CASE Kill(r) BY <2>12 DEF Kill, Free
  <2> QED
    BY <2>1, <2>2, <2>3, <2>4, <2>5, <2>6, <2>7, <2>8, <2>9, <2>10, <2>11, <2>12 DEF Serve
<1>2. CASE LockExpires BY <1>2 DEF LockExpires
<1>3. CASE ApplyLate \/ ForgetLate \/ ChangeByHand \/ UNCHANGED vars
             \/ \E c \in Collectors : Collect(c) \/ AbortRound(c)
  BY <1>3 DEF ApplyLate, ForgetLate, ChangeByHand, vars, Collect, CollectDevice, CollectRow,
              CommitRound, AbortRound
<1> QED BY <1>1, <1>2, <1>3 DEF Next

\* Where no request outlives its lock, requests of one device rule never overlap.
THEOREM Serialised == ASSUME TtlSuffices PROVE Spec => []OneAtATime
<1>1. Init => Holder BY DEF Init, Holder, Free, Working
<1>2. TypeOK /\ Holder => OneAtATime
  BY DEF Holder, OneAtATime
<1>3. TypeOK /\ TypeOK' /\ Holder /\ [Next]_vars => Holder' BY HolderStep
<1> QED BY AdjustmentTypeCorrect, <1>1, <1>2, <1>3, PTL DEF Spec

-----------------------------------------------------------------------------
(* The audit trail                                                         *)

\* An attempt is on record before its write can reach the device, and stays there.
LEMMA RecordedStep ==
  ASSUME TypeInv, Recorded, [Next]_vars
  PROVE Recorded' /\ (device' # device /\ byHand' = byHand => device' \in attempted')
<1> USE DEF Recorded, Writing
<1>1. ASSUME NEW r \in Requests, Serve(r) \/ Kill(r)
      PROVE Recorded' /\ (device' # device => device' \in attempted')
  <2> USE <1>1 DEF TypeInv, TypeOK
  <2>1. CASE Load(r) BY <2>1 DEF Load, Free
  <2>2. CASE Acquire(r) BY <2>2 DEF Acquire
  <2>3. CASE Refuse(r) BY <2>3 DEF Refuse, Free
  <2>4. CASE RecordAttempt(r) BY <2>4 DEF RecordAttempt
  <2>5. CASE WriteDevice(r) BY <2>5 DEF WriteDevice
  <2>6. CASE TimeOut(r) BY <2>6 DEF TimeOut
  <2>7. CASE ReadDevice(r) BY <2>7 DEF ReadDevice
  <2>8. CASE ReadAfterTimeout(r) BY <2>8 DEF ReadAfterTimeout
  <2>9. CASE Store(r) BY <2>9 DEF Store
  <2>10. CASE Finish(r) BY <2>10 DEF Finish, Free
  <2>11. CASE Fail(r) BY <2>11 DEF Fail, Free
  <2>12. CASE Kill(r) BY <2>12 DEF Kill, Free
  <2> QED
    BY <2>1, <2>2, <2>3, <2>4, <2>5, <2>6, <2>7, <2>8, <2>9, <2>10, <2>11, <2>12 DEF Serve
<1>2. CASE ChangeByHand
  <2>1. byHand' # byHand BY <1>2 DEF ChangeByHand, TypeInv, TypeOK
  <2>2. Recorded' BY <1>2 DEF ChangeByHand
  <2> QED BY <2>1, <2>2
<1>3. CASE ApplyLate BY <1>3 DEF ApplyLate
<1>4. CASE ForgetLate BY <1>4 DEF ForgetLate
<1>5. CASE LockExpires \/ UNCHANGED vars BY <1>5 DEF LockExpires, vars
<1>6. ASSUME NEW c \in Collectors, Collect(c) \/ AbortRound(c)
      PROVE UNCHANGED <<device, late, req, attempted, byHand>>
  BY <1>6 DEF Collect, CollectDevice, CollectRow, CommitRound, AbortRound
<1>7. CASE \E c \in Collectors : Collect(c) \/ AbortRound(c) BY <1>6, <1>7
<1> QED BY <1>1, <1>2, <1>3, <1>4, <1>5, <1>7 DEF Next

\* Every limit that this program gives the device is in the audit trail first.
THEOREM OnRecord == Spec => EveryWriteIsOnRecord
<1>1. Init => TypeInv /\ Recorded
  BY InitTypes DEF Init, Recorded, Free, Writing
<1>2. TypeInv /\ [Next]_vars => TypeInv'
  BY TypeStep
<1>3. TypeInv /\ Recorded /\ [Next]_vars
        => Recorded' /\ [device' # device /\ byHand' = byHand => device' \in attempted']_vars
  BY RecordedStep
<1> QED BY <1>1, <1>2, <1>3, PTL DEF Spec, EveryWriteIsOnRecord

-----------------------------------------------------------------------------
(* The result of an adjustment                                             *)

\* Since the commit of its attempt an adjustment has nothing loaded.
Unloaded ==
    \A r \in Requests :
        req[r].op = "adjust" /\ req[r].pc \in Writing \cup {"answered"} => req[r].loaded = NoLimit

LEMMA UnloadedStep ==
  ASSUME TypeInv, Unloaded, [Next]_vars
  PROVE Unloaded' /\ \A r \in Requests : Stores(r, "adjust") => local' = req[r].got
<1> USE DEF Unloaded, Stores, Writing
<1>1. ASSUME NEW r \in Requests, Serve(r) \/ Kill(r)
      PROVE Unloaded' /\ \A s \in Requests : Stores(s, "adjust") => local' = req[s].got
  <2> USE <1>1 DEF TypeInv, TypeOK
  <2>1. CASE Load(r) BY <2>1 DEF Load, Free
  <2>2. CASE Acquire(r) BY <2>2 DEF Acquire
  <2>3. CASE Refuse(r) BY <2>3 DEF Refuse, Free
  <2>4. CASE RecordAttempt(r) BY <2>4 DEF RecordAttempt
  <2>5. CASE WriteDevice(r) BY <2>5 DEF WriteDevice
  <2>6. CASE TimeOut(r) BY <2>6 DEF TimeOut
  <2>7. CASE ReadDevice(r) BY <2>7 DEF ReadDevice
  <2>8. CASE ReadAfterTimeout(r) BY <2>8 DEF ReadAfterTimeout
  <2>9. CASE Store(r)
    <3>1. Unloaded' BY <2>9 DEF Store
    <3>2. \A s \in Requests : Stores(s, "adjust") => s = r BY <2>9 DEF Store
    <3>3. req[r].got # NoLimit BY <2>9, MarkersAssumption DEF Store, Shaped
    <3>4. req[r].op = "adjust" => req[r].loaded = NoLimit BY <2>9 DEF Store
    <3>5. req[r].op = "adjust" => local' = req[r].got
      BY <2>9, <3>3, <3>4 DEF Store, Written
    <3> QED BY <3>1, <3>2, <3>5
  <2>10. CASE Finish(r) BY <2>10 DEF Finish, Free
  <2>11. CASE Fail(r) BY <2>11 DEF Fail, Free
  <2>12. CASE Kill(r) BY <2>12 DEF Kill, Free
  <2> QED
    BY <2>1, <2>2, <2>3, <2>4, <2>5, <2>6, <2>7, <2>8, <2>9, <2>10, <2>11, <2>12 DEF Serve
<1>2. CASE UNCHANGED req BY <1>2
<1>3. CASE LockExpires \/ ApplyLate \/ ForgetLate \/ ChangeByHand \/ UNCHANGED vars
  BY <1>2, <1>3 DEF LockExpires, ApplyLate, ForgetLate, ChangeByHand, vars
<1>4. ASSUME NEW c \in Collectors, Collect(c) \/ AbortRound(c)
      PROVE UNCHANGED req
  BY <1>4 DEF Collect, CollectDevice, CollectRow, CommitRound, AbortRound
<1> QED BY <1>1, <1>2, <1>3, <1>4 DEF Next

\* A successful adjustment leaves what it read from the device in the row,
\* with any number of collections in between and even without its lock.
THEOREM Stored == Spec => AdjustmentStored
<1>1. Init => TypeInv /\ Unloaded
  BY InitTypes DEF Init, Unloaded, Free
<1>2. TypeInv /\ [Next]_vars => TypeInv'
  BY TypeStep
<1>3. TypeInv /\ Unloaded /\ [Next]_vars
        => Unloaded' /\ [\A r \in Requests : Stores(r, "adjust") => local' = req[r].got]_vars
  BY UnloadedStep
<1> QED BY <1>1, <1>2, <1>3, PTL DEF Spec, AdjustmentStored

-----------------------------------------------------------------------------
(***************************************************************************)
(* Theorems about IncidentCorrelation.                                     *)
(*                                                                         *)
(* A book is consistent when cursor, summary, diagnosis and evidence of    *)
(* its key fit each other (Consistent).  One evidence takes a consistent   *)
(* book to a consistent book (CorrelatedIsConsistent); the lock of the     *)
(* cursor makes the drafts of concurrent tasks successive ones, so that    *)
(* the committed books stay consistent (BooksFit).                         *)
(***************************************************************************)

Statuses == {"none", "open", "resolved"}

-----------------------------------------------------------------------------
(* One evidence.                                                           *)

\* The times, buckets and rows of new evidence.
LEMMA EvidenceTypes ==
  ASSUME NEW e \in Events
  PROVE  /\ TimeOf[e] \in Nat /\ KeyOf[e] \in Keys
         /\ BucketOf(e) \in Buckets /\ BucketOf(e) # NoBucket
         /\ Severity(e) \in {"warning", "critical"}
  BY EventsAssumption, RowMarkersAssumption DEF Buckets, Severity

\* The bucket that evidence goes to, and its incident if there is one.
LEMMA HomeTypes ==
  ASSUME NEW B \in Book, NEW e \in Events
  PROVE  /\ Home(B, e) \in Buckets /\ Home(B, e) # NoBucket
         /\ ~Opens(B, e) => /\ Home(B, e) = B.cur.bucket /\ Current(B, e) = Home(B, e)
                            /\ TimeOf[e] - B.cur.last \in -Window..Window
         /\ Opens(B, e) => Home(B, e) = BucketOf(e)
<1> USE EvidenceTypes, RowMarkersAssumption, WindowAssumption
<1>1. B.cur.bucket \in Buckets \cup {NoBucket} /\ B.cur.last \in Nat \cup {-1} BY DEF Book
<1> QED BY <1>1 DEF Home, Opens, Current, Near

\* The row that the evidence leaves, in a book whose cursor names an incident.
LEMMA NewRowTypes ==
  ASSUME NEW B \in Book, NEW e \in Events, NEW status \in Statuses, ~Opens(B, e) => B.row[Home(B, e)] # NoRow
  PROVE  /\ NewRow(B, e, status) \in Row
         /\ Opens(B, e) => NewRow(B, e, status).last = TimeOf[e]
         /\ ~Opens(B, e) => NewRow(B, e, status).last = Later(B.row[Home(B, e)].last, TimeOf[e])
<1> USE EvidenceTypes, HomeTypes
<1>1. CASE Opens(B, e) BY <1>1 DEF NewRow, Row
<1>2. CASE ~Opens(B, e)
  <2>1. B.row[Home(B, e)] \in Row BY <1>2 DEF Book
  <2>2. Later(B.row[Home(B, e)].last, TimeOf[e]) \in Nat BY <2>1 DEF Row, Later
  <2> QED BY <1>2, <2>1, <2>2 DEF NewRow, Row
<1> QED BY <1>1, <1>2

\* The incident of the cursor has evidence, hence a row.
LEMMA CurrentExists ==
  ASSUME NEW B \in Book, Consistent(B), NEW e \in Events, ~Opens(B, e)
  PROVE  B.row[Home(B, e)] # NoRow
  BY HomeTypes DEF Consistent, CursorFits, SummaryFits

\* Without a collision, new evidence that opens an incident is its first.
LEMMA OpenedIsEmpty ==
  ASSUME NEW B \in Book, Consistent(B), NEW e \in Events, Opens(B, e), ~Collides(B, e)
  PROVE  EvidenceOf(B, Home(B, e)) = {}
  BY HomeTypes DEF Consistent, SummaryFits, Collides

\* The evidence leaves a book.
LEMMA CorrelatedTypes ==
  ASSUME NEW B \in Book, Consistent(B), NEW e \in Events, NEW status \in Statuses
  PROVE  Correlated(B, e, status) \in Book
<1> USE EvidenceTypes, HomeTypes
<1>1. NewRow(B, e, status) \in Row BY CurrentExists, NewRowTypes
<1>2. NewCursor(B, e) \in [bucket : Buckets \cup {NoBucket}, last : Nat \cup {-1}]
  BY DEF NewCursor, Book
<1>3. Basis(B, e) \in SUBSET Events BY DEF Basis, EvidenceOf
<1> QED BY <1>1, <1>2, <1>3 DEF Correlated, Book

\* The evidence of each incident afterwards.
LEMMA CorrelatedEvidence ==
  ASSUME NEW B \in Book, Consistent(B), NEW e \in Events, NEW status \in Statuses, B.ev[e] = NoBucket
  PROVE  /\ EvidenceOf(Correlated(B, e, status), Home(B, e)) = EvidenceOf(B, Home(B, e)) \cup {e}
         /\ e \notin EvidenceOf(B, Home(B, e))
         /\ \A b \in Buckets \ {Home(B, e)} :
               EvidenceOf(Correlated(B, e, status), b) = EvidenceOf(B, b)
<1> DEFINE C == Correlated(B, e, status)
<1>1. C.ev[e] = Home(B, e) /\ \A f \in Events \ {e} : C.ev[f] = B.ev[f] BY DEF Correlated, Book
<1>2. Home(B, e) # NoBucket /\ Home(B, e) \in Buckets BY HomeTypes
<1>3. \A b \in Buckets : b # NoBucket BY RowMarkersAssumption
<1> HIDE DEF C
<1> QED BY <1>1, <1>2, <1>3 DEF EvidenceOf, C

LEMMA CorrelatedCursor ==
  ASSUME NEW B \in Book, Consistent(B), NEW e \in Events, NEW status \in Statuses, B.ev[e] = NoBucket
  PROVE  CursorFits(Correlated(B, e, status))
<1> DEFINE C == Correlated(B, e, status)
           h == Home(B, e)
<1>1. /\ B.cur.last \in Nat \cup {-1} /\ TimeOf[e] \in Nat /\ h \in Buckets /\ h # NoBucket
      /\ \A f \in Events : TimeOf[f] \in Nat
  BY EvidenceTypes, HomeTypes DEF Book
<1>2. /\ C.ev[e] = h /\ \A f \in Events \ {e} : C.ev[f] = B.ev[f]
      /\ C.cur = NewCursor(B, e)
  BY DEF Correlated, Book
<1>3. EvidenceOf(C, h) = EvidenceOf(B, h) \cup {e}
      /\ \A b \in Buckets \ {h} : EvidenceOf(C, b) = EvidenceOf(B, b)
  BY CorrelatedEvidence
<1>4. CursorFits(B) /\ B.cur.bucket \in Buckets \cup {NoBucket} BY DEF Consistent, Book
<1> HIDE DEF C, h
<1>5. CASE TimeOf[e] >= B.cur.last
  <2>1. C.cur.bucket = h /\ C.cur.last = TimeOf[e] BY <1>2, <1>5 DEF NewCursor, h
  <2> QED BY <1>1, <1>2, <1>3, <1>4, <1>5, <2>1 DEF CursorFits, C
<1>6. CASE TimeOf[e] < B.cur.last
  <2>1. C.cur = B.cur BY <1>1, <1>2, <1>6 DEF NewCursor
  <2>2. B.cur.last # -1 /\ B.cur.bucket # NoBucket BY <1>1, <1>4, <1>6 DEF CursorFits
  <2> QED BY <1>1, <1>2, <1>3, <1>4, <1>6, <2>1, <2>2 DEF CursorFits, C
<1> QED BY <1>1, <1>5, <1>6

LEMMA CorrelatedSummary ==
  ASSUME NEW B \in Book, Consistent(B), NEW e \in Events, NEW status \in Statuses, B.ev[e] = NoBucket,
         ~Collides(B, e)
  PROVE  SummaryFits(Correlated(B, e, status))
<1> DEFINE C == Correlated(B, e, status)
           h == Home(B, e)
           r == NewRow(B, e, status)
<1>1. /\ h \in Buckets /\ B.row \in [Buckets -> Row \cup {NoRow}]
      /\ \A f \in Events : TimeOf[f] \in Nat
  BY EvidenceTypes, HomeTypes DEF Book
<1>2. C.row = [B.row EXCEPT ![h] = r] BY DEF Correlated
<1>3. EvidenceOf(C, h) = EvidenceOf(B, h) \cup {e}
      /\ \A b \in Buckets \ {h} : EvidenceOf(C, b) = EvidenceOf(B, b)
  BY CorrelatedEvidence
<1>4. SummaryFits(B) BY DEF Consistent
<1>5. r \in Row /\ r # NoRow BY CurrentExists, NewRowTypes, RowMarkersAssumption
<1>6. Opens(B, e) => r.last = TimeOf[e] /\ EvidenceOf(B, h) = {}
  BY CurrentExists, NewRowTypes, OpenedIsEmpty
<1>7. ~Opens(B, e) => r.last = Later(B.row[h].last, TimeOf[e]) /\ B.row[h] # NoRow
  BY CurrentExists, NewRowTypes
<1>8. \A b \in Buckets : EvidenceOf(B, b) \subseteq Events BY DEF EvidenceOf
<1> HIDE DEF C, h, r
<1>9. ASSUME NEW b \in Buckets, b # h
      PROVE /\ C.row[b] = NoRow <=> EvidenceOf(C, b) = {}
            /\ C.row[b] # NoRow => /\ \E f \in EvidenceOf(C, b) : TimeOf[f] = C.row[b].last
                                   /\ \A f \in EvidenceOf(C, b) : TimeOf[f] <= C.row[b].last
  <2>1. C.row[b] = B.row[b] /\ EvidenceOf(C, b) = EvidenceOf(B, b) BY <1>1, <1>2, <1>3, <1>9
  <2> QED BY <1>4, <2>1 DEF SummaryFits
<1>10. /\ C.row[h] = r /\ EvidenceOf(C, h) # {}
       /\ \E f \in EvidenceOf(C, h) : TimeOf[f] = r.last
       /\ \A f \in EvidenceOf(C, h) : TimeOf[f] <= r.last
  <2>1. C.row[h] = r BY <1>1, <1>2
  <2>2. CASE Opens(B, e) BY <1>1, <1>3, <1>6, <2>1, <2>2
  <2>3. CASE ~Opens(B, e)
    <3>1. /\ \E f \in EvidenceOf(B, h) : TimeOf[f] = B.row[h].last
          /\ \A f \in EvidenceOf(B, h) : TimeOf[f] <= B.row[h].last
      BY <1>1, <1>4, <1>7, <2>3 DEF SummaryFits
    <3>2. B.row[h].last \in Nat BY <1>1, <1>7, <2>3 DEF Row
    <3> QED BY <1>1, <1>3, <1>7, <1>8, <2>1, <2>3, <3>1, <3>2 DEF Later
  <2> QED BY <2>2, <2>3
<1> QED BY <1>5, <1>9, <1>10 DEF SummaryFits, C

LEMMA CorrelatedEvidenceFits ==
  ASSUME NEW B \in Book, Consistent(B), NEW e \in Events, NEW status \in Statuses, B.ev[e] = NoBucket,
         ~Collides(B, e)
  PROVE  EvidenceFits(Correlated(B, e, status))
<1> DEFINE C == Correlated(B, e, status)
           h == Home(B, e)
<1>1. h \in Buckets /\ Window \in Nat /\ \A f \in Events : TimeOf[f] \in Nat
  BY EvidenceTypes, HomeTypes, WindowAssumption
<1>2. /\ EvidenceOf(C, h) = EvidenceOf(B, h) \cup {e} /\ e \notin EvidenceOf(B, h)
      /\ \A b \in Buckets \ {h} : EvidenceOf(C, b) = EvidenceOf(B, b)
  BY CorrelatedEvidence
<1>3. \A b \in Buckets : \A f \in EvidenceOf(B, b) :
         \/ BucketOf(f) = b
         \/ \E g \in EvidenceOf(B, b) \ {f} : TimeOf[f] - TimeOf[g] \in -Window..Window
  BY DEF Consistent, EvidenceFits
<1>4. \/ BucketOf(e) = h
      \/ \E g \in EvidenceOf(C, h) \ {e} : TimeOf[e] - TimeOf[g] \in -Window..Window
  <2>1. CASE Opens(B, e) BY <2>1, HomeTypes
  <2>2. CASE ~Opens(B, e)
    <3>1. h = B.cur.bucket /\ h # NoBucket /\ TimeOf[e] - B.cur.last \in -Window..Window
      BY <2>2, HomeTypes
    <3>2. PICK g \in EvidenceOf(B, h) : TimeOf[g] = B.cur.last
      BY <3>1 DEF Consistent, CursorFits
    <3> HIDE DEF C, h
    <3> QED BY <1>2, <3>1, <3>2
  <2> QED BY <2>1, <2>2
<1> HIDE DEF C, h
<1>5. \A b \in Buckets : EvidenceOf(B, b) \subseteq EvidenceOf(C, b) BY <1>2
<1>6. \A b \in Buckets : \A f \in EvidenceOf(C, b) : (b = h /\ f = e) \/ f \in EvidenceOf(B, b) BY <1>2
<1> QED BY <1>1, <1>3, <1>4, <1>5, <1>6 DEF EvidenceFits, C

\* One new evidence keeps a book consistent.
LEMMA CorrelatedIsConsistent ==
  ASSUME NEW B \in Book, Consistent(B), NEW e \in Events, NEW status \in Statuses, B.ev[e] = NoBucket,
         ~Collides(B, e)
  PROVE  Consistent(Correlated(B, e, status))
<1>1. DiagnosisFits(Correlated(B, e, status))
  <2> DEFINE C == Correlated(B, e, status)
             h == Home(B, e)
  <2>1. h \in Buckets /\ B.diag \in [Buckets -> SUBSET Events] BY HomeTypes DEF Book
  <2>2. C.diag = [B.diag EXCEPT ![h] = EvidenceOf(B, h) \cup {e}] BY DEF Correlated, Basis
  <2>3. EvidenceOf(C, h) = EvidenceOf(B, h) \cup {e}
      /\ \A b \in Buckets \ {h} : EvidenceOf(C, b) = EvidenceOf(B, b)
    BY CorrelatedEvidence
  <2>4. \A b \in Buckets : B.diag[b] = EvidenceOf(B, b) BY DEF Consistent, DiagnosisFits
  <2> HIDE DEF C, h
  <2> QED BY <2>1, <2>2, <2>3, <2>4 DEF DiagnosisFits, C
<1> QED BY <1>1, CorrelatedCursor, CorrelatedSummary, CorrelatedEvidenceFits DEF Consistent

\* Rows are never removed, and the one that is written is there.
LEMMA CorrelatedRows ==
  ASSUME NEW B \in Book, Consistent(B), NEW e \in Events, NEW status \in Statuses
  PROVE  /\ Correlated(B, e, status).row[Home(B, e)] # NoRow
         /\ \A b \in Buckets : B.row[b] # NoRow => Correlated(B, e, status).row[b] # NoRow
<1>1. NewRow(B, e, status) \in Row /\ NewRow(B, e, status) # NoRow
  BY CurrentExists, NewRowTypes, RowMarkersAssumption
<1> QED BY <1>1, HomeTypes DEF Correlated, Book

\* What is announced of the evidence.
LEMMA NewsTypes ==
  ASSUME NEW B \in Book, NEW e \in Events, NEW status \in Statuses
  PROVE  /\ News(B, e, status) \subseteq Notice
         /\ \A n \in News(B, e, status) : n.key = KeyOf[e] /\ n.bucket = Home(B, e)
  BY EvidenceTypes, HomeTypes DEF News, Notice

\* The first book of a key.
LEMMA EmptyIsConsistent == EmptyBook \in Book /\ Consistent(EmptyBook)
<1>1. EmptyBook \in Book BY DEF EmptyBook, Book
<1>2. \A b \in Buckets : EvidenceOf(EmptyBook, b) = {}
  BY RowMarkersAssumption DEF EvidenceOf, EmptyBook
<1> QED BY <1>1, <1>2 DEF Consistent, CursorFits, SummaryFits, DiagnosisFits, EvidenceFits, EmptyBook

\* Closing an incident changes none of what Consistent speaks of.
LEMMA ResolvedIsConsistent ==
  ASSUME NEW B \in Book, NEW C \in Book, Consistent(B), NEW b \in Buckets, B.row[b] # NoRow,
         C = [B EXCEPT !.row = [B.row EXCEPT ![b] = [B.row[b] EXCEPT !.status = "resolved"]]]
  PROVE  Consistent(C) /\ C.ev = B.ev /\ \A d \in Buckets : C.row[d] = NoRow <=> B.row[d] = NoRow
<1>1. C.ev = B.ev /\ C.cur = B.cur /\ C.diag = B.diag BY DEF Book
<1>2. \A d \in Buckets : /\ C.row[d] = NoRow <=> B.row[d] = NoRow
                         /\ C.row[d] # NoRow => C.row[d].last = B.row[d].last
  <2>1. B.row[b] \in Row BY DEF Book
  <2>2. [B.row[b] EXCEPT !.status = "resolved"] \in Row
        /\ [B.row[b] EXCEPT !.status = "resolved"].last = B.row[b].last
    BY <2>1 DEF Row
  <2>3. C.row = [B.row EXCEPT ![b] = [B.row[b] EXCEPT !.status = "resolved"]] BY DEF Book
  <2> QED BY <2>2, <2>3, RowMarkersAssumption DEF Book
<1>3. \A d \in Buckets : EvidenceOf(C, d) = EvidenceOf(B, d) BY <1>1 DEF EvidenceOf
<1>4. EvidenceOf(C, NoBucket) = EvidenceOf(B, NoBucket) BY <1>1 DEF EvidenceOf
<1>5. CursorFits(C)
  <2>1. B.cur.bucket \in Buckets \cup {NoBucket} BY DEF Book
  <2> QED BY <1>1, <1>3, <2>1 DEF Consistent, CursorFits
<1>6. SummaryFits(C) BY <1>2, <1>3 DEF Consistent, SummaryFits
<1>7. DiagnosisFits(C) BY <1>1, <1>3 DEF Consistent, DiagnosisFits
<1>8. EvidenceFits(C) BY <1>3 DEF Consistent, EvidenceFits
<1> QED BY <1>1, <1>2, <1>5, <1>6, <1>7, <1>8 DEF Consistent

-----------------------------------------------------------------------------
(* The inductive invariant.                                                *)

\* Committed books are consistent, and so is what the holder of a cursor has made of them.
BooksFit ==
    \A k \in Keys : Consistent(store[k]) /\ (locked[k] # NoTask => Consistent(draft[k]))

\* An open transaction removes no incident.
RowsStay ==
    \A k \in Keys : locked[k] # NoTask =>
        \A b \in Buckets : store[k].row[b] # NoRow => draft[k].row[b] # NoRow

\* A task about to write holds the cursor of its event.
WritersHold ==
    \A t \in Tasks : /\ task[t].pc \in {"lock", "write"} => task[t].event \in Events
                     /\ task[t].pc = "write" => locked[KeyOf[task[t].event]] = t

\* What a task is going to announce is in its drafts, and after its commit in the store.
NewsAreWritten ==
    \A t \in Tasks : \A n \in task[t].news :
        /\ task[t].pc \in {"next", "lock", "write"} =>
              locked[n.key] = t /\ draft[n.key].row[n.bucket] # NoRow
        /\ task[t].pc = "tell" => store[n.key].row[n.bucket] # NoRow

IInv == /\ CorrelationTypeOK /\ BooksFit /\ RowsStay /\ WritersHold
        /\ WritesAreNew /\ NewsAreWritten /\ NoticesAreTrue

LEMMA InitIInv == CorrelationInit => IInv
<1> SUFFICES ASSUME CorrelationInit PROVE IInv
  OBVIOUS
<1>1. CorrelationTypeOK BY EmptyIsConsistent, BoundsAssumption DEF CorrelationInit, CorrelationTypeOK, Idle, TaskState
<1>2. BooksFit /\ RowsStay BY EmptyIsConsistent DEF CorrelationInit, BooksFit, RowsStay
<1>3. WritersHold /\ WritesAreNew /\ NewsAreWritten /\ NoticesAreTrue
  BY DEF CorrelationInit, WritersHold, WritesAreNew, NewsAreWritten, NoticesAreTrue, Idle
<1> QED BY <1>1, <1>2, <1>3 DEF IInv

\* A task that begins, goes on to its next event or has told leaves books and locks alone.
LEMMA QueueStep ==
  ASSUME IInv, NEW t \in Tasks, BeginScan(t) \/ BeginBatch(t) \/ Consider(t) \/ Tell(t)
  PROVE  IInv'
<1> USE DEF IInv
<1>1. UNCHANGED <<store, draft, locked>> BY DEF BeginScan, BeginBatch, Consider, Tell
<1>2. BooksFit' /\ RowsStay' BY <1>1 DEF BooksFit, RowsStay
<1>3. CASE BeginScan(t) \/ BeginBatch(t)
  <2>1. PICK S \in SUBSET Events, kind \in {"scan", "batch"} :
          task' = [task EXCEPT ![t] = [Idle EXCEPT !.pc = "next", !.kind = kind, !.todo = S]]
    <3>1. arrived \subseteq Events BY DEF CorrelationTypeOK
    <3>2. CASE BeginScan(t)
      <4>1. PICK T \in SUBSET (arrived \cap VendorEvents) :
              task' = [task EXCEPT ![t] = [Idle EXCEPT !.pc = "next", !.kind = "scan",
                                                       !.todo = {e \in T : Pending(e)}]]
        BY <3>2 DEF BeginScan
      <4>2. {e \in T : Pending(e)} \in SUBSET Events BY <3>1
      <4> QED BY <4>1, <4>2
    <3>3. CASE BeginBatch(t)
      <4>1. PICK S \in (SUBSET (arrived \cap Alerts)) \cup (SUBSET (arrived \cap Forecasts)) :
              task' = [task EXCEPT ![t] = [Idle EXCEPT !.pc = "next", !.kind = "batch", !.todo = S]]
        BY <3>3 DEF BeginBatch
      <4>2. S \in SUBSET Events BY <3>1
      <4> QED BY <4>1, <4>2
    <3> QED BY <1>3, <3>2, <3>3
  <2>2. UNCHANGED <<arrived, covered, told, crashes, windows>> BY <1>3 DEF BeginScan, BeginBatch
  <2>3. CorrelationTypeOK' BY <1>1, <2>1, <2>2 DEF CorrelationTypeOK, TaskState, Idle
  <2>4. WritersHold' /\ WritesAreNew' /\ NewsAreWritten' /\ NoticesAreTrue'
    BY <1>1, <2>1, <2>2 DEF CorrelationTypeOK, Idle, WritersHold, WritesAreNew, NewsAreWritten, NoticesAreTrue
  <2> QED BY <1>2, <2>3, <2>4
<1>4. CASE Consider(t)
  <2>1. PICK e \in Events : task' = IF NeedsCursor(t, e)
                    THEN [task EXCEPT ![t].pc = "lock", ![t].event = e]
                    ELSE [task EXCEPT ![t].todo = @ \ {e}]
    BY <1>4 DEF Consider
  <2>2. UNCHANGED <<arrived, covered, told, crashes, windows>> /\ task[t].pc = "next"
    BY <1>4 DEF Consider
  <2>3. CorrelationTypeOK'
    <3>1. task[t] \in TaskState BY DEF CorrelationTypeOK
    <3>2. [task[t] EXCEPT !.pc = "lock", !.event = e] \in TaskState
          /\ [task[t] EXCEPT !.todo = @ \ {e}] \in TaskState
      BY <3>1 DEF TaskState
    <3>3. \/ task' = [task EXCEPT ![t] = [task[t] EXCEPT !.pc = "lock", !.event = e]]
          \/ task' = [task EXCEPT ![t] = [task[t] EXCEPT !.todo = @ \ {e}]]
      BY <2>1
    <3>4. task' \in [Tasks -> TaskState] BY <3>2, <3>3 DEF CorrelationTypeOK
    <3> QED BY <1>1, <2>2, <3>4 DEF CorrelationTypeOK
  <2>4. WritersHold' /\ WritesAreNew' /\ NewsAreWritten' /\ NoticesAreTrue'
    BY <1>1, <2>1, <2>2 DEF CorrelationTypeOK, TaskState, WritersHold, WritesAreNew, NewsAreWritten, NoticesAreTrue
  <2> QED BY <1>2, <2>3, <2>4
<1>5. CASE Tell(t)
  <2>1. CorrelationTypeOK' BY <1>1, <1>5 DEF Tell, CorrelationTypeOK, TaskState, Idle
  <2>2. WritersHold' /\ WritesAreNew' /\ NewsAreWritten'
    BY <1>1, <1>5 DEF Tell, CorrelationTypeOK, Idle, WritersHold, WritesAreNew, NewsAreWritten
  <2>3. NoticesAreTrue' BY <1>1, <1>5 DEF Tell, NewsAreWritten, NoticesAreTrue
  <2> QED BY <1>2, <2>1, <2>2, <2>3
<1> QED BY <1>3, <1>4, <1>5

LEMMA LockStep == ASSUME IInv, NEW t \in Tasks, Lock(t) PROVE IInv'
<1> USE DEF IInv
<1> DEFINE e == task[t].event
           k == KeyOf[e]
<1>1. e \in Events /\ k \in Keys /\ t # NoTask /\ task[t].pc = "lock" /\ locked[k] \in {NoTask, t}
  BY EvidenceTypes, TasksAssumption DEF Lock, WritersHold
<1>2. Seen(t, k) \in Book /\ Consistent(Seen(t, k))
  BY <1>1 DEF Seen, CorrelationTypeOK, BooksFit
<1>3. /\ locked' = [locked EXCEPT ![k] = t] /\ draft' = [draft EXCEPT ![k] = Seen(t, k)]
      /\ UNCHANGED <<arrived, covered, store, told, crashes, windows>>
  BY DEF Lock
<1>4. \/ /\ Seen(t, k).ev[e] = NoBucket
         /\ \E status \in Statuses : task' = [task EXCEPT ![t].pc = "write", ![t].seen = status]
      \/ task' = [task EXCEPT ![t].pc = "next", ![t].todo = @ \ {e}, ![t].event = NoEvent]
  <2>1. ASSUME NEW status \in StatusesRead(t, k, e), ~Opens(Seen(t, k), e) PROVE status \in Statuses
    <3>1. Seen(t, k).row[Current(Seen(t, k), e)] \in Row
      BY <1>1, <1>2, <2>1, HomeTypes, CurrentExists DEF Book
    <3> QED BY <2>1, <3>1 DEF StatusesRead, Statuses, Row
  <2>2. ASSUME NEW status \in StatusesRead(t, k, e), Opens(Seen(t, k), e) PROVE status \in Statuses
    BY <2>2 DEF StatusesRead, Statuses
  <2> QED BY <2>1, <2>2 DEF Lock, StillNew
<1> HIDE DEF e, k
<1>5. CorrelationTypeOK'
  <2>1. draft' \in [Keys -> Book] /\ locked' \in [Keys -> Tasks \cup {NoTask}]
    BY <1>1, <1>2, <1>3 DEF CorrelationTypeOK
  <2>2. task' \in [Tasks -> TaskState] BY <1>4 DEF CorrelationTypeOK, TaskState, Statuses
  <2> QED BY <1>3, <2>1, <2>2 DEF CorrelationTypeOK
<1>6. BooksFit' BY <1>1, <1>2, <1>3 DEF BooksFit, CorrelationTypeOK
<1>7. RowsStay'
  <2>1. \A b \in Buckets : store[k].row[b] # NoRow => Seen(t, k).row[b] # NoRow
    BY <1>1 DEF Seen, RowsStay
  <2> QED BY <1>1, <1>3, <2>1 DEF RowsStay, CorrelationTypeOK
<1>8. WritersHold'
  <2>1. ASSUME NEW u \in Tasks, u # t
        PROVE /\ task'[u].pc \in {"lock", "write"} => task'[u].event \in Events
              /\ task'[u].pc = "write" => locked'[KeyOf[task'[u].event]] = u
    <3>1. task'[u] = task[u] BY <1>4, <2>1 DEF CorrelationTypeOK
    <3>2. \A j \in Keys : locked[j] = u => locked'[j] = u
      BY <1>1, <1>3, <2>1, TasksAssumption DEF CorrelationTypeOK
    <3> QED BY <3>1, <3>2, EvidenceTypes DEF WritersHold
  <2>2. /\ task'[t].pc \in {"lock", "write"} => task'[t].event = e
        /\ locked'[k] = t
    BY <1>1, <1>3, <1>4 DEF CorrelationTypeOK, TaskState, e
  <2> QED BY <1>1, <2>1, <2>2 DEF WritersHold, k
<1>9. WritesAreNew'
  <2>1. ASSUME NEW u \in Tasks, u # t, task[u].pc = "write"
        PROVE draft'[KeyOf[task[u].event]] = draft[KeyOf[task[u].event]]
    <3>1. task[u].event \in Events /\ locked[KeyOf[task[u].event]] = u BY <2>1 DEF WritersHold
    <3>2. KeyOf[task[u].event] \in Keys \ {k} BY <1>1, <2>1, <3>1, EvidenceTypes, TasksAssumption
    <3> QED BY <1>3, <3>2 DEF CorrelationTypeOK
  <2>2. \A u \in Tasks \ {t} : task'[u] = task[u] BY <1>4 DEF CorrelationTypeOK
  <2>3. task'[t].pc = "write" => task'[t].event = e /\ Seen(t, k).ev[e] = NoBucket
    BY <1>4 DEF CorrelationTypeOK, TaskState, e
  <2>4. draft'[k] = Seen(t, k) BY <1>1, <1>3 DEF CorrelationTypeOK
  <2> QED BY <2>1, <2>2, <2>3, <2>4 DEF WritesAreNew, k
<1>10. NewsAreWritten'
  <2>1. ASSUME NEW u \in Tasks, NEW n \in task[u].news, task[u].pc \in {"next", "lock", "write"}
        PROVE locked'[n.key] = u /\ draft'[n.key].row[n.bucket] # NoRow
    <3>1. locked[n.key] = u /\ draft[n.key].row[n.bucket] # NoRow BY <2>1 DEF NewsAreWritten
    <3>2. n.key \in Keys BY <2>1 DEF CorrelationTypeOK, TaskState, Notice
    <3>3. CASE n.key = k
      <4>1. u = t BY <1>1, <2>1, <3>1, <3>3, TasksAssumption
      <4>2. Seen(t, k) = draft[k] BY <3>1, <3>3, <4>1 DEF Seen
      <4> QED BY <1>3, <3>1, <3>2, <3>3, <4>1, <4>2 DEF CorrelationTypeOK
    <3>4. CASE n.key # k BY <1>3, <3>1, <3>2, <3>4 DEF CorrelationTypeOK
    <3> QED BY <3>3, <3>4
  <2>2. \A u \in Tasks : /\ task'[u].news = task[u].news
                         /\ task'[u].pc = task[u].pc \/ (u = t /\ task'[t].pc \in {"write", "next"})
    BY <1>4 DEF CorrelationTypeOK, TaskState
  <2> QED BY <1>1, <1>3, <2>1, <2>2 DEF NewsAreWritten
<1>11. NoticesAreTrue' BY <1>3 DEF NoticesAreTrue
<1> QED BY <1>5, <1>6, <1>7, <1>8, <1>9, <1>10, <1>11

LEMMA WriteStep == ASSUME IInv, NEW t \in Tasks, Write(t) PROVE IInv'
<1> USE DEF IInv
<1> DEFINE e == task[t].event
           k == KeyOf[e]
           B == draft[k]
           status == task[t].seen
           D == Correlated(B, e, status)
           heard == News(B, e, status)
<1>1. e \in Events /\ k \in Keys /\ t # NoTask /\ task[t].pc = "write" /\ locked[k] = t
  BY EvidenceTypes, TasksAssumption DEF Write, WritersHold
<1>2. /\ B \in Book /\ Consistent(B) /\ B.ev[e] = NoBucket /\ ~Collides(B, e) /\ status \in Statuses
  BY <1>1 DEF Write, CorrelationTypeOK, TaskState, Statuses, BooksFit, WritesAreNew
<1>3. D \in Book /\ Consistent(D) BY <1>1, <1>2, CorrelatedTypes, CorrelatedIsConsistent
<1>4. /\ D.row[Home(B, e)] # NoRow
      /\ \A b \in Buckets : B.row[b] # NoRow => D.row[b] # NoRow
  BY <1>1, <1>2, CorrelatedRows
<1>5. heard \subseteq Notice /\ \A n \in heard : n.key = k /\ n.bucket = Home(B, e)
  BY <1>1, <1>2, NewsTypes DEF k
<1>6. /\ draft' = [draft EXCEPT ![k] = D]
      /\ task' = [task EXCEPT ![t] = [task[t] EXCEPT !.pc = "next", !.todo = @ \ {e}, !.event = NoEvent,
                                                     !.seen = "none", !.news = @ \cup heard]]
      /\ UNCHANGED <<arrived, covered, store, locked, told, crashes, windows>>
  BY DEF Write
<1> HIDE DEF e, k, B, status, D, heard
<1>7. task[t] \in TaskState BY DEF CorrelationTypeOK
<1>8. /\ task'[t] \in TaskState /\ task'[t].pc = "next" /\ task'[t].news = task[t].news \cup heard
      /\ \A u \in Tasks \ {t} : task'[u] = task[u]
      /\ task' \in [Tasks -> TaskState]
  <2> DEFINE T == [task[t] EXCEPT !.pc = "next", !.todo = @ \ {e}, !.event = NoEvent,
                                  !.seen = "none", !.news = @ \cup heard]
  <2>1. T \in TaskState /\ T.pc = "next" /\ T.news = task[t].news \cup heard
    BY <1>5, <1>7 DEF TaskState
  <2>2. task' = [task EXCEPT ![t] = T] BY <1>6
  <2> HIDE DEF T
  <2> QED BY <2>1, <2>2 DEF CorrelationTypeOK
<1>9. /\ draft'[k] = D /\ \A j \in Keys \ {k} : draft'[j] = draft[j]
      /\ draft' \in [Keys -> Book]
  BY <1>1, <1>3, <1>6 DEF CorrelationTypeOK
<1>10. CorrelationTypeOK' BY <1>6, <1>8, <1>9 DEF CorrelationTypeOK
<1>11. BooksFit' BY <1>3, <1>6, <1>9 DEF BooksFit
<1>12. RowsStay' BY <1>1, <1>4, <1>6, <1>9 DEF RowsStay, B
<1>13. WritersHold' BY <1>6, <1>8 DEF WritersHold
<1>14. WritesAreNew'
  <2>1. ASSUME NEW u \in Tasks, u # t, task[u].pc = "write"
        PROVE draft'[KeyOf[task[u].event]] = draft[KeyOf[task[u].event]]
    <3>1. task[u].event \in Events /\ locked[KeyOf[task[u].event]] = u BY <2>1 DEF WritersHold
    <3>2. KeyOf[task[u].event] \in Keys \ {k} BY <1>1, <2>1, <3>1, EvidenceTypes, TasksAssumption
    <3> QED BY <1>9, <3>2
  <2> QED BY <1>8, <2>1 DEF WritesAreNew
<1>15. NewsAreWritten'
  <2>1. ASSUME NEW u \in Tasks, NEW n \in task[u].news, task[u].pc \in {"next", "lock", "write"}
        PROVE locked'[n.key] = u /\ draft'[n.key].row[n.bucket] # NoRow
    <3>1. locked[n.key] = u /\ draft[n.key].row[n.bucket] # NoRow BY <2>1 DEF NewsAreWritten
    <3>2. n.key \in Keys /\ n.bucket \in Buckets BY <2>1 DEF CorrelationTypeOK, TaskState, Notice
    <3>3. CASE n.key = k BY <1>4, <1>6, <1>9, <3>1, <3>2, <3>3 DEF B
    <3>4. CASE n.key # k BY <1>6, <1>9, <3>1, <3>2, <3>4
    <3> QED BY <3>3, <3>4
  <2>2. \A n \in heard : locked'[n.key] = t /\ draft'[n.key].row[n.bucket] # NoRow
    BY <1>1, <1>4, <1>5, <1>6, <1>9
  <2>3. ASSUME NEW u \in Tasks \ {t}, NEW n \in task'[u].news
        PROVE /\ task'[u].pc \in {"next", "lock", "write"} =>
                    locked'[n.key] = u /\ draft'[n.key].row[n.bucket] # NoRow
              /\ task'[u].pc = "tell" => store'[n.key].row[n.bucket] # NoRow
    BY <1>6, <1>8, <2>1, <2>3 DEF NewsAreWritten
  <2>4. \A n \in task'[t].news : locked'[n.key] = t /\ draft'[n.key].row[n.bucket] # NoRow
    BY <1>1, <1>8, <2>1, <2>2
  <2> QED BY <1>8, <2>3, <2>4 DEF NewsAreWritten
<1>16. NoticesAreTrue' BY <1>6 DEF NoticesAreTrue
<1> QED BY <1>10, <1>11, <1>12, <1>13, <1>14, <1>15, <1>16

\* The drafts of a task that commits become the books of its keys.
LEMMA CommitStep == ASSUME IInv, NEW t \in Tasks, Commit(t) PROVE IInv'
<1> USE DEF IInv
<1>1. /\ store' = [k \in Keys |-> IF locked[k] = t THEN draft[k] ELSE store[k]]
      /\ locked' = Released(t)
      /\ task' = [task EXCEPT ![t] = [task[t] EXCEPT !.pc = "tell"]]
      /\ task[t].pc = "next" /\ t # NoTask
      /\ UNCHANGED <<arrived, covered, draft, told, crashes, windows>>
  BY TasksAssumption DEF Commit
<1>2. /\ \A k \in Keys : locked[k] = t => store'[k] = draft[k] /\ locked'[k] = NoTask
      /\ \A k \in Keys : locked[k] # t => store'[k] = store[k] /\ locked'[k] = locked[k]
  BY <1>1 DEF Released
<1>3. /\ task'[t].pc = "tell" /\ task'[t].news = task[t].news /\ task'[t] \in TaskState
      /\ \A u \in Tasks \ {t} : task'[u] = task[u]
      /\ task' \in [Tasks -> TaskState]
  <2>1. task[t] \in TaskState BY DEF CorrelationTypeOK
  <2>2. [task[t] EXCEPT !.pc = "tell"] \in TaskState /\ [task[t] EXCEPT !.pc = "tell"].pc = "tell"
        /\ [task[t] EXCEPT !.pc = "tell"].news = task[t].news
    BY <2>1 DEF TaskState
  <2> QED BY <1>1, <2>2 DEF CorrelationTypeOK
<1>4. CorrelationTypeOK'
  <2>1. store' \in [Keys -> Book] /\ locked' \in [Keys -> Tasks \cup {NoTask}]
    BY <1>1 DEF CorrelationTypeOK, Released
  <2> QED BY <1>1, <1>3, <2>1 DEF CorrelationTypeOK
<1>5. BooksFit' BY <1>1, <1>2 DEF BooksFit
<1>6. RowsStay' BY <1>1, <1>2 DEF RowsStay
<1>7. \A k \in Keys, b \in Buckets : store[k].row[b] # NoRow => store'[k].row[b] # NoRow
  BY <1>1, <1>2 DEF RowsStay
<1>8. WritersHold'
  <2>1. ASSUME NEW u \in Tasks \ {t}
        PROVE /\ task'[u].pc \in {"lock", "write"} => task'[u].event \in Events
              /\ task'[u].pc = "write" => locked'[KeyOf[task'[u].event]] = u
    BY <1>2, <1>3, EvidenceTypes DEF WritersHold
  <2> QED BY <1>3, <2>1 DEF WritersHold
<1>9. WritesAreNew' BY <1>1, <1>3 DEF WritesAreNew
<1>10. NewsAreWritten'
  <2>1. ASSUME NEW u \in Tasks \ {t}, NEW n \in task[u].news
        PROVE /\ task[u].pc \in {"next", "lock", "write"} =>
                    locked'[n.key] = u /\ draft'[n.key].row[n.bucket] # NoRow
              /\ task[u].pc = "tell" => store'[n.key].row[n.bucket] # NoRow
    <3>1. n.key \in Keys /\ n.bucket \in Buckets BY <2>1 DEF CorrelationTypeOK, TaskState, Notice
    <3> QED BY <1>1, <1>2, <1>7, <2>1, <3>1 DEF NewsAreWritten
  <2>2. ASSUME NEW n \in task[t].news PROVE store'[n.key].row[n.bucket] # NoRow
    <3>1. n.key \in Keys BY <2>2 DEF CorrelationTypeOK, TaskState, Notice
    <3> QED BY <1>1, <1>2, <2>2, <3>1 DEF NewsAreWritten
  <2> QED BY <1>3, <2>1, <2>2 DEF NewsAreWritten
<1>11. NoticesAreTrue'
  <2>1. \A n \in told : n.key \in Keys /\ n.bucket \in Buckets BY DEF CorrelationTypeOK, Notice
  <2> QED BY <1>1, <1>7, <2>1 DEF NoticesAreTrue
<1> QED BY <1>4, <1>5, <1>6, <1>8, <1>9, <1>10, <1>11

\* A transaction that is rolled back leaves its drafts to nobody.
LEMMA RollbackStep == ASSUME IInv, NEW t \in Tasks, FailTask(t) \/ Crash(t) PROVE IInv'
<1> USE DEF IInv
<1>1. /\ locked' = Released(t) /\ task' = [task EXCEPT ![t] = Idle] /\ t # NoTask
      /\ crashes' \in 0..MaxCrashes
      /\ UNCHANGED <<arrived, covered, store, draft, told, windows>>
  BY TasksAssumption, BoundsAssumption DEF FailTask, Crash, RolledBack, CorrelationTypeOK
<1>2. \A k \in Keys : /\ locked[k] = t => locked'[k] = NoTask
                      /\ locked[k] # t => locked'[k] = locked[k]
  BY <1>1 DEF Released
<1>3. /\ task'[t] = Idle /\ \A u \in Tasks \ {t} : task'[u] = task[u]
      /\ Idle \in TaskState /\ Idle.pc = "idle" /\ Idle.news = {}
  BY <1>1 DEF CorrelationTypeOK, Idle, TaskState
<1>4. CorrelationTypeOK'
  <2>1. locked' \in [Keys -> Tasks \cup {NoTask}] BY <1>1 DEF CorrelationTypeOK, Released
  <2>2. task' \in [Tasks -> TaskState] BY <1>1, <1>3 DEF CorrelationTypeOK
  <2> QED BY <1>1, <2>1, <2>2 DEF CorrelationTypeOK
<1>5. BooksFit' /\ RowsStay' BY <1>1, <1>2 DEF BooksFit, RowsStay
<1>6. WritersHold' BY <1>2, <1>3, EvidenceTypes DEF WritersHold
<1>7. WritesAreNew' BY <1>1, <1>3 DEF WritesAreNew
<1>8. NewsAreWritten'
  <2>1. ASSUME NEW u \in Tasks \ {t}, NEW n \in task[u].news
        PROVE /\ task[u].pc \in {"next", "lock", "write"} =>
                    locked'[n.key] = u /\ draft'[n.key].row[n.bucket] # NoRow
              /\ task[u].pc = "tell" => store'[n.key].row[n.bucket] # NoRow
    <3>1. n.key \in Keys BY <2>1 DEF CorrelationTypeOK, TaskState, Notice
    <3> QED BY <1>1, <1>2, <2>1, <3>1 DEF NewsAreWritten
  <2> QED BY <1>3, <2>1 DEF NewsAreWritten
<1>9. NoticesAreTrue' BY <1>1 DEF NoticesAreTrue
<1> QED BY <1>4, <1>5, <1>6, <1>7, <1>8, <1>9

\* An incident that is closed keeps its evidence, in the store and under an open transaction.
LEMMA ResolveStep == ASSUME IInv, NEW k \in Keys, NEW b \in Buckets, Resolve(k, b) PROVE IInv'
<1> USE DEF IInv
<1> DEFINE Closed(B) == [B EXCEPT !.row = [B.row EXCEPT ![b] = [B.row[b] EXCEPT !.status = "resolved"]]]
<1>1. /\ store[k].row[b] # NoRow
      /\ store' = [store EXCEPT ![k] = Closed(store[k])]
      /\ locked[k] # NoTask => /\ draft' = [draft EXCEPT ![k] = Closed(draft[k])]
                             /\ draft[k].row[b] = store[k].row[b]
      /\ locked[k] = NoTask => draft' = draft
      /\ UNCHANGED <<arrived, covered, locked, task, told, crashes, windows>>
  BY DEF Resolve, RowIsFree
<1>2. \A B \in Book : B.row[b] # NoRow => Closed(B) \in Book
  <2> SUFFICES ASSUME NEW B \in Book, B.row[b] # NoRow PROVE Closed(B) \in Book
    OBVIOUS
  <2>1. B.row[b] \in Row BY DEF Book
  <2>2. [B.row[b] EXCEPT !.status = "resolved"] \in Row BY <2>1 DEF Row
  <2>3. [B.row EXCEPT ![b] = [B.row[b] EXCEPT !.status = "resolved"]] \in [Buckets -> Row \cup {NoRow}]
    BY <2>2 DEF Book
  <2> QED BY <2>3 DEF Book
<1>3. \A B \in Book : B.row[b] # NoRow /\ Consistent(B) =>
         /\ Consistent(Closed(B)) /\ Closed(B).ev = B.ev
         /\ \A d \in Buckets : Closed(B).row[d] = NoRow <=> B.row[d] = NoRow
  BY <1>2, ResolvedIsConsistent
<1> HIDE DEF Closed
<1>4. store[k] \in Book /\ Consistent(store[k]) BY DEF CorrelationTypeOK, BooksFit
<1>5. locked[k] # NoTask => draft[k] \in Book /\ Consistent(draft[k]) /\ draft[k].row[b] # NoRow
  BY <1>1 DEF CorrelationTypeOK, BooksFit
<1>6. /\ store' \in [Keys -> Book] /\ draft' \in [Keys -> Book]
      /\ store'[k] = Closed(store[k]) /\ \A j \in Keys \ {k} : store'[j] = store[j]
      /\ locked[k] # NoTask => draft'[k] = Closed(draft[k])
      /\ \A j \in Keys \ {k} : draft'[j] = draft[j]
  BY <1>1, <1>2, <1>4, <1>5 DEF CorrelationTypeOK
<1>7. CorrelationTypeOK' BY <1>1, <1>6 DEF CorrelationTypeOK
<1>8. /\ \A j \in Keys, d \in Buckets : store'[j].row[d] = NoRow <=> store[j].row[d] = NoRow
      /\ \A j \in Keys : locked[j] # NoTask =>
            /\ draft'[j].ev = draft[j].ev
            /\ \A d \in Buckets : draft'[j].row[d] = NoRow <=> draft[j].row[d] = NoRow
  BY <1>1, <1>3, <1>4, <1>5, <1>6
<1>9. BooksFit' BY <1>1, <1>3, <1>4, <1>5, <1>6 DEF BooksFit
<1>10. RowsStay' BY <1>1, <1>8 DEF RowsStay
<1>11. WritersHold' BY <1>1 DEF WritersHold
<1>12. WritesAreNew' BY <1>1, <1>8, EvidenceTypes, TasksAssumption DEF WritesAreNew, WritersHold
<1>13. NewsAreWritten'
  <2> SUFFICES ASSUME NEW u \in Tasks, NEW n \in task[u].news
               PROVE /\ task[u].pc \in {"next", "lock", "write"} =>
                           locked[n.key] = u /\ draft'[n.key].row[n.bucket] # NoRow
                     /\ task[u].pc = "tell" => store'[n.key].row[n.bucket] # NoRow
    BY <1>1 DEF NewsAreWritten
  <2>1. n.key \in Keys /\ n.bucket \in Buckets BY DEF CorrelationTypeOK, TaskState, Notice
  <2> QED BY <1>8, <2>1, TasksAssumption DEF NewsAreWritten
<1>14. NoticesAreTrue'
  <2>1. \A n \in told : n.key \in Keys /\ n.bucket \in Buckets BY DEF CorrelationTypeOK, Notice
  <2> QED BY <1>1, <1>8, <2>1 DEF NoticesAreTrue
<1> QED BY <1>7, <1>9, <1>10, <1>11, <1>12, <1>13, <1>14

\* Events, windows and steps that change nothing.
LEMMA OutsideStep ==
  ASSUME IInv, (\E e \in Events : Arrive(e)) \/ CreateWindow \/ UNCHANGED correlationVars
  PROVE  IInv'
<1> USE DEF IInv
<1>1. UNCHANGED <<store, draft, locked, task, told, crashes>>
  BY DEF Arrive, CreateWindow, correlationVars
<1>2. arrived' \subseteq Events /\ covered' \subseteq Events /\ windows' \in 0..MaxWindows
  BY BoundsAssumption DEF Arrive, CreateWindow, correlationVars, CorrelationTypeOK
<1>3. CorrelationTypeOK' BY <1>1, <1>2 DEF CorrelationTypeOK
<1>4. BooksFit' /\ RowsStay' /\ WritersHold' /\ WritesAreNew' /\ NewsAreWritten' /\ NoticesAreTrue'
  BY <1>1 DEF BooksFit, RowsStay, WritersHold, WritesAreNew, NewsAreWritten, NoticesAreTrue
<1> QED BY <1>3, <1>4

LEMMA NextIInv == IInv /\ [CorrelationNext]_correlationVars => IInv'
<1> SUFFICES ASSUME IInv, [CorrelationNext]_correlationVars PROVE IInv'
  OBVIOUS
<1>1. CASE \E t \in Tasks : BeginScan(t) \/ BeginBatch(t) \/ Consider(t) \/ Tell(t)
  BY <1>1, QueueStep
<1>2. CASE \E t \in Tasks : Lock(t) BY <1>2, LockStep
<1>3. CASE \E t \in Tasks : Write(t) BY <1>3, WriteStep
<1>4. CASE \E t \in Tasks : Commit(t) BY <1>4, CommitStep
<1>5. CASE \E t \in Tasks : FailTask(t) \/ Crash(t) BY <1>5, RollbackStep
<1>6. CASE \E k \in Keys, b \in Buckets : Resolve(k, b) BY <1>6, ResolveStep
<1>7. CASE (\E e \in Events : Arrive(e)) \/ CreateWindow \/ UNCHANGED correlationVars BY <1>7, OutsideStep
<1> QED BY <1>1, <1>2, <1>3, <1>4, <1>5, <1>6, <1>7 DEF CorrelationNext, Step

\* Books, drafts, locks, tasks and notices keep their types, in every behaviour of the tasks.
THEOREM TypeCorrect == CorrelationSpec => []CorrelationTypeOK
<1>1. IInv => CorrelationTypeOK BY DEF IInv
<1> QED BY <1>1, InitIInv, NextIInv, PTL DEF CorrelationSpec

\* The cursor, the summary and the diagnosis of every incident agree with its evidence after
\* every commit, for all sets of events and tasks and every window.
THEOREM BooksConsistent == CorrelationSpec => []BooksAreConsistent
<1>1. IInv => BooksAreConsistent BY DEF IInv, BooksFit, BooksAreConsistent
<1> QED BY <1>1, InitIInv, NextIInv, PTL DEF CorrelationSpec

\* No reference is inserted a second time, by however many tasks it is delivered.
THEOREM RecordedOnce == CorrelationSpec => []WritesAreNew
<1>1. IInv => WritesAreNew BY DEF IInv
<1> QED BY <1>1, InitIInv, NextIInv, PTL DEF CorrelationSpec

\* Every notification names an incident that is committed.
THEOREM NoticesTrue == CorrelationSpec => []NoticesAreTrue
<1>1. IInv => NoticesAreTrue BY DEF IInv
<1> QED BY <1>1, InitIInv, NextIInv, PTL DEF CorrelationSpec

-----------------------------------------------------------------------------
(* Cursors, locks and drafts implement IncidentLedger                      *)

\* Only admitted evidence of the key is in its book and in its draft.
OwnEvidence ==
    /\ \A k \in Keys, e \in Events :
          store[k].ev[e] # NoBucket \/ draft[k].ev[e] # NoBucket => e \in Admitted /\ KeyOf[e] = k
    /\ \A t \in Tasks : task[t].pc \in {"lock", "write"} => task[t].event \in Admitted

LedgerInv == IInv /\ OwnEvidence

LEMMA InitLedgerInv == CorrelationInit => LedgerInv
  BY InitIInv DEF CorrelationInit, LedgerInv, OwnEvidence, EmptyBook, Idle

\* What a step leaves of the queue of its task, and of the books and the lock.
LEMMA ConsiderEvent ==
  ASSUME IInv, NEW t \in Tasks, Consider(t)
  PROVE  \A u \in Tasks : task'[u].pc \in {"lock", "write"} =>
             \/ task[u].pc \in {"lock", "write"} /\ task'[u].event = task[u].event
             \/ task'[u].event \in Admitted
<1>1. PICK e \in Events :
        task' = IF NeedsCursor(t, e) THEN [task EXCEPT ![t].pc = "lock", ![t].event = e]
                                     ELSE [task EXCEPT ![t].todo = @ \ {e}]
  BY DEF Consider
<1>2. task \in [Tasks -> TaskState] /\ task[t].pc = "next" BY DEF IInv, CorrelationTypeOK, Consider
<1>3. NeedsCursor(t, e) => e \in Admitted BY DEF NeedsCursor, Admitted
<1> QED BY <1>1, <1>2, <1>3 DEF TaskState

LEMMA EventsStay ==
  ASSUME IInv, [CorrelationNext]_correlationVars
  PROVE  \A u \in Tasks : task'[u].pc \in {"lock", "write"} =>
             \/ task[u].pc \in {"lock", "write"} /\ task'[u].event = task[u].event
             \/ task'[u].event \in Admitted
<1>0. task \in [Tasks -> TaskState] BY DEF IInv, CorrelationTypeOK
<1>1. ASSUME NEW t \in Tasks, BeginScan(t) \/ BeginBatch(t) \/ Tell(t) \/ FailTask(t) \/ Crash(t) \/ Commit(t)
      PROVE  task'[t].pc \notin {"lock", "write"} /\ \A u \in Tasks \ {t} : task'[u] = task[u]
  <2>1. CASE BeginScan(t)
    <3>1. PICK T : task' = [task EXCEPT ![t] = [Idle EXCEPT !.pc = "next", !.kind = "scan", !.todo = {e \in T : Pending(e)}]]
      BY <2>1 DEF BeginScan
    <3>2. [Idle EXCEPT !.pc = "next", !.kind = "scan", !.todo = {e \in T : Pending(e)}].pc = "next" BY DEF Idle
    <3> QED BY <1>0, <3>1, <3>2
  <2>2. CASE BeginBatch(t) BY <1>0, <2>2 DEF BeginBatch, Idle
  <2>3. CASE Tell(t) \/ FailTask(t) \/ Crash(t) BY <1>0, <2>3 DEF Tell, FailTask, Crash, RolledBack, Idle
  <2>4. CASE Commit(t) BY <1>0, <2>4 DEF Commit, TaskState
  <2> QED BY <1>1, <2>1, <2>2, <2>3, <2>4
<1>2. ASSUME NEW t \in Tasks, Lock(t)
      PROVE  /\ task'[t].pc = "write" => task[t].pc = "lock" /\ task'[t].event = task[t].event
             /\ task'[t].pc \in {"write", "next"} /\ \A u \in Tasks \ {t} : task'[u] = task[u]
  BY <1>0, <1>2 DEF Lock, TaskState
<1>3. ASSUME NEW t \in Tasks, Write(t)
      PROVE  task'[t].pc = "next" /\ \A u \in Tasks \ {t} : task'[u] = task[u]
  BY <1>0, <1>3 DEF Write, TaskState
<1>4. CASE \/ \E e \in Events : Arrive(e)
           \/ \E k \in Keys, b \in Buckets : Resolve(k, b)
           \/ CreateWindow \/ UNCHANGED correlationVars
  BY <1>4 DEF Arrive, Resolve, CreateWindow, correlationVars
<1>5. CASE \E t \in Tasks : BeginScan(t) \/ BeginBatch(t) \/ Tell(t) \/ FailTask(t) \/ Crash(t) \/ Commit(t)
  BY <1>1, <1>5
<1>6. CASE \E t \in Tasks : Lock(t) BY <1>2, <1>6
<1>7. CASE \E t \in Tasks : Write(t) BY <1>3, <1>7
<1>8. CASE \E t \in Tasks : Consider(t) BY <1>8, ConsiderEvent
<1> QED BY <1>4, <1>5, <1>6, <1>7, <1>8 DEF CorrelationNext, Step

\* A lock changes no book as it is seen; a draft starts as what is seen.
LEMMA LockSees ==
  ASSUME IInv, NEW t \in Tasks, Lock(t)
  PROVE  /\ UNCHANGED <<store, told>>
         /\ \A k \in Keys : InWork'[k] = InWork[k]
         /\ \A k \in Keys : draft'[k] \in {draft[k], store[k]}
<1>1. PICK k \in Keys : /\ locked[k] \in {NoTask, t} /\ locked' = [locked EXCEPT ![k] = t]
                        /\ draft' = [draft EXCEPT ![k] = Seen(t, k)] /\ UNCHANGED <<store, told>>
  BY EvidenceTypes DEF IInv, WritersHold, Lock
<1>2. draft \in [Keys -> Book] /\ locked \in [Keys -> Tasks \cup {NoTask}] BY DEF IInv, CorrelationTypeOK
<1> QED BY <1>1, <1>2, TasksAssumption DEF InWork, Seen

LEMMA WriteSees ==
  ASSUME IInv, NEW t \in Tasks, Write(t), NEW e, e = task[t].event, NEW k, k = KeyOf[e], NEW B, B = draft[k]
  PROVE  /\ e \in Events /\ k \in Keys /\ B \in Book /\ Consistent(B)
         /\ locked[k] = t /\ t # NoTask /\ B.ev[e] = NoBucket /\ ~Collides(B, e)
         /\ UNCHANGED <<store, locked, told>>
         /\ draft'[k].ev = [B.ev EXCEPT ![e] = Home(B, e)]
         /\ \A j \in Keys \ {k} : draft'[j] = draft[j]
<1>1. e \in Events /\ k \in Keys /\ locked[k] = t /\ t # NoTask /\ task[t].pc = "write"
  BY EvidenceTypes, TasksAssumption DEF IInv, WritersHold, Write
<1>2. draft \in [Keys -> Book] /\ B.ev[e] = NoBucket /\ ~Collides(B, e) /\ Consistent(B)
  BY <1>1 DEF IInv, CorrelationTypeOK, WritesAreNew, BooksFit, Write
<1>3. draft' = [draft EXCEPT ![k] = Correlated(B, e, task[t].seen)] /\ UNCHANGED <<store, locked, told>>
  BY DEF Write
<1>4. Correlated(B, e, task[t].seen).ev = [B.ev EXCEPT ![e] = Home(B, e)] BY DEF Correlated
<1> QED BY <1>1, <1>2, <1>3, <1>4

LEMMA ResolveSees ==
  ASSUME IInv, NEW k \in Keys, NEW b \in Buckets, Resolve(k, b)
  PROVE  /\ UNCHANGED <<locked, told>>
         /\ \A j \in Keys : store'[j].ev = store[j].ev /\ draft'[j].ev = draft[j].ev
  BY DEF IInv, CorrelationTypeOK, Book, Resolve

LEMMA OwnEvidenceStep == ASSUME LedgerInv, [CorrelationNext]_correlationVars PROVE OwnEvidence'
<1> USE DEF LedgerInv
<1>0. /\ store \in [Keys -> Book] /\ draft \in [Keys -> Book]
      /\ \A e \in Events : KeyOf[e] \in Keys
  BY EventsAssumption DEF IInv, CorrelationTypeOK
<1> DEFINE Own(k, B) == \A e \in Events : B.ev[e] # NoBucket => e \in Admitted /\ KeyOf[e] = k
<1>1. \A k \in Keys : Own(k, store[k]) /\ Own(k, draft[k]) BY DEF OwnEvidence
<1>2. \A t \in Tasks : task[t].pc \in {"lock", "write"} => task[t].event \in Admitted BY DEF OwnEvidence
<1>3. \A t \in Tasks : task'[t].pc \in {"lock", "write"} => task'[t].event \in Admitted
  BY <1>2, EventsStay
<1>4. ASSUME \A k \in Keys : Own(k, store'[k]) /\ Own(k, draft'[k]) PROVE OwnEvidence'
  BY <1>3, <1>4 DEF OwnEvidence
<1>5. CASE UNCHANGED <<store, draft>> BY <1>1, <1>4, <1>5
<1>6. CASE \E t \in Tasks : Lock(t) BY <1>1, <1>4, <1>6, LockSees
<1>7. ASSUME NEW t \in Tasks, Write(t) PROVE OwnEvidence'
  <2>1. PICK e, k, B : e = task[t].event /\ k = KeyOf[e] /\ B = draft[k] OBVIOUS
  <2>2. /\ e \in Events /\ k \in Keys /\ B \in Book /\ UNCHANGED store
        /\ draft'[k].ev = [B.ev EXCEPT ![e] = Home(B, e)] /\ \A j \in Keys \ {k} : draft'[j] = draft[j]
    BY <1>7, <2>1, WriteSees
  <2>3. e \in Admitted BY <1>2, <1>7, <2>1 DEF Write
  <2>4. \A f \in Events \ {e} : draft'[k].ev[f] = B.ev[f] BY <2>2 DEF Book
  <2>5. ASSUME NEW f \in Events, draft'[k].ev[f] # NoBucket PROVE f \in Admitted /\ KeyOf[f] = k
    <3>1. CASE f = e BY <2>1, <2>3, <3>1
    <3>2. CASE f # e
      <4>1. B.ev[f] # NoBucket BY <2>4, <2>5, <3>2
      <4> QED BY <1>1, <2>1, <2>2, <4>1
    <3> QED BY <3>1, <3>2
  <2>6. \A j \in Keys : Own(j, store'[j]) BY <1>1, <2>2
  <2>7. \A j \in Keys : Own(j, draft'[j])
    <3>1. \A j \in Keys \ {k} : Own(j, draft'[j]) BY <1>1, <2>2
    <3> QED BY <2>5, <3>1
  <2> QED BY <1>4, <2>6, <2>7
<1>8. CASE \E t \in Tasks : Commit(t) BY <1>1, <1>4, <1>8 DEF Commit
<1>9. CASE \E k \in Keys, b \in Buckets : Resolve(k, b) BY <1>1, <1>4, <1>9, ResolveSees
<1>10. CASE \/ \E t \in Tasks : BeginScan(t) \/ BeginBatch(t) \/ Consider(t) \/ Tell(t) \/ FailTask(t) \/ Crash(t)
            \/ (\E e \in Events : Arrive(e)) \/ CreateWindow \/ UNCHANGED correlationVars
  BY <1>5, <1>10 DEF BeginScan, BeginBatch, Consider, Tell, FailTask, Crash, Arrive, CreateWindow, correlationVars
<1> QED BY <1>6, <1>7, <1>8, <1>9, <1>10 DEF CorrelationNext, Step

LEMMA NextLedgerInv == LedgerInv /\ [CorrelationNext]_correlationVars => LedgerInv'
  BY NextIInv, OwnEvidenceStep DEF LedgerInv

\* The newest evidence that was placed is at the time of the cursor.
LEMMA NewestAtCursor ==
  ASSUME LedgerInv, NEW k \in Keys, NEW B, B = InWork[k]
  PROVE  /\ \A f \in Ledger!Newest(k) : f \in Events /\ TimeOf[f] = B.cur.last
         /\ B.cur.bucket # NoBucket => \E f \in Ledger!Newest(k) : InBooks[f] = B.cur.bucket
         /\ B.cur.bucket = NoBucket => Ledger!Newest(k) = {}
         /\ \A f \in Ledger!Placed(k) : f \in EvidenceOf(B, InBooks[f])
<1>1. B \in Book /\ CursorFits(B) /\ Admitted \subseteq Events
  BY DEF LedgerInv, IInv, CorrelationTypeOK, BooksFit, Consistent, InWork, Admitted
<1>2. \A e \in Events : B.ev[e] # NoBucket => e \in Admitted /\ KeyOf[e] = k
  BY DEF LedgerInv, OwnEvidence, InWork
<1>3. \A f : f \in Ledger!Placed(k) <=> f \in Events /\ B.ev[f] # NoBucket
  BY <1>1, <1>2 DEF Ledger!Placed, InBooks
<1>4. \A f \in Ledger!Placed(k) : InBooks[f] = B.ev[f] BY <1>1 DEF Ledger!Placed, InBooks
<1>5. \A f \in Events : TimeOf[f] \in Nat BY EvidenceTypes
<1>6. B.cur.bucket \in Buckets \cup {NoBucket} /\ B.cur.last \in Nat \cup {-1} BY <1>1 DEF Book
<1>7. \A f \in Ledger!Placed(k) : f \in Events /\ TimeOf[f] <= B.cur.last BY <1>1, <1>3 DEF CursorFits
<1>8. CASE B.cur.bucket = NoBucket
  <2>1. Ledger!Placed(k) = {} BY <1>1, <1>5, <1>7, <1>8 DEF CursorFits
  <2> QED BY <1>8, <2>1 DEF Ledger!Newest
<1>9. CASE B.cur.bucket # NoBucket
  <2>1. PICK g \in EvidenceOf(B, B.cur.bucket) : TimeOf[g] = B.cur.last BY <1>1, <1>9 DEF CursorFits
  <2>2. g \in Ledger!Placed(k) /\ B.ev[g] = B.cur.bucket BY <1>3, <1>9, <2>1 DEF EvidenceOf
  <2>3. g \in Ledger!Newest(k) BY <1>7, <2>1, <2>2 DEF Ledger!Newest
  <2>4. ASSUME NEW f \in Ledger!Newest(k) PROVE f \in Events /\ TimeOf[f] = B.cur.last
    BY <1>5, <1>6, <1>7, <2>1, <2>2, <2>4 DEF Ledger!Newest
  <2>5. \A f \in Ledger!Placed(k) : f \in EvidenceOf(B, InBooks[f]) BY <1>3, <1>4 DEF EvidenceOf
  <2> QED BY <1>4, <1>9, <2>2, <2>3, <2>4, <2>5
<1> QED BY <1>8, <1>9

LEMMA PlaceStep ==
  ASSUME LedgerInv, NEW t \in Tasks, Write(t) PROVE Ledger!Next
<1>1. PICK e, k, B : e = task[t].event /\ k = KeyOf[e] /\ B = draft[k] OBVIOUS
<1>2. /\ e \in Events /\ k \in Keys /\ B \in Book /\ Consistent(B)
      /\ locked[k] = t /\ t # NoTask /\ B.ev[e] = NoBucket /\ ~Collides(B, e)
      /\ UNCHANGED <<store, locked, told>>
      /\ draft'[k].ev = [B.ev EXCEPT ![e] = Home(B, e)]
      /\ \A j \in Keys \ {k} : draft'[j] = draft[j]
  BY <1>1, WriteSees DEF LedgerInv
<1>3. e \in Admitted BY <1>1 DEF LedgerInv, OwnEvidence, Write
<1>4. Admitted \subseteq Events /\ \A f \in Events : KeyOf[f] \in Keys BY EvidenceTypes DEF Admitted
<1>5. InWork[k] = B /\ InWork'[k] = draft'[k] BY <1>1, <1>2 DEF InWork
<1>6. \A j \in Keys \ {k} : InWork'[j] = InWork[j] BY <1>2 DEF InWork
<1>7. PICK h : h = Home(B, e) OBVIOUS
<1>8. h \in Buckets /\ h # NoBucket BY <1>2, <1>7, HomeTypes
<1>9. InBooks[e] = NoBucket /\ InBooks' = [InBooks EXCEPT ![e] = h]
  <2>1. \A f \in Admitted \ {e} : InWork'[KeyOf[f]].ev[f] = InWork[KeyOf[f]].ev[f]
    BY <1>1, <1>2, <1>4, <1>5, <1>6 DEF Book
  <2>2. InWork'[KeyOf[e]].ev[e] = h BY <1>1, <1>2, <1>5, <1>7 DEF Book
  <2>3. InWork[KeyOf[e]].ev[e] = NoBucket BY <1>1, <1>2, <1>5
  <2> QED BY <1>3, <2>1, <2>2, <2>3 DEF InBooks
<1>10. UNCHANGED <<InStore, Announced>> BY <1>2 DEF InStore, Announced
<1>11. Ledger!Joins(e, h) \/ Ledger!Opens(e, h)
  <2>1. /\ \A f \in Ledger!Newest(k) : f \in Events /\ TimeOf[f] = B.cur.last
        /\ B.cur.bucket # NoBucket => \E f \in Ledger!Newest(k) : InBooks[f] = B.cur.bucket
        /\ B.cur.bucket = NoBucket => Ledger!Newest(k) = {}
        /\ \A f \in Ledger!Placed(k) : f \in EvidenceOf(B, InBooks[f])
    BY <1>2, <1>5, NewestAtCursor
  <2>2. TimeOf[e] \in Nat /\ Window \in Nat /\ B.cur.last \in Nat \cup {-1}
    BY <1>2, EvidenceTypes, WindowAssumption DEF Book
  <2>3. CASE Opens(B, e)
    <3>1. h = BucketOf(e) /\ EvidenceOf(B, h) = {} BY <1>2, <1>7, <2>3, HomeTypes, OpenedIsEmpty
    <3>2. \A f \in Ledger!Placed(k) : InBooks[f] # h BY <2>1, <3>1
    <3>3. \A f \in Ledger!Newest(k) : ~Ledger!Near(e, f)
      BY <1>2, <2>1, <2>2, <2>3 DEF Opens, Current, Near, Ledger!Near
    <3> QED BY <1>1, <1>3, <3>1, <3>2, <3>3 DEF Ledger!Opens
  <2>4. CASE ~Opens(B, e)
    <3>1. h = B.cur.bucket /\ TimeOf[e] - B.cur.last \in -Window..Window BY <1>2, <1>7, <2>4, HomeTypes
    <3>2. PICK f \in Ledger!Newest(k) : InBooks[f] = h BY <1>8, <2>1, <3>1
    <3>3. Ledger!Near(e, f) BY <2>1, <3>1 DEF Ledger!Near
    <3> QED BY <1>1, <3>2, <3>3 DEF Ledger!Joins
  <2> QED BY <2>3, <2>4
<1>12. Ledger!Place(e, h) BY <1>3, <1>8, <1>9, <1>10, <1>11 DEF Ledger!Place
<1>13. InBooks'[e] = h BY <1>3, <1>9 DEF InBooks
<1> QED BY <1>3, <1>12, <1>13 DEF Ledger!Next

\* A task that commits, or is rolled back, ends the work on the keys that it had locked.
LEMMA EndStep ==
  ASSUME LedgerInv, NEW t \in Tasks, Commit(t) \/ FailTask(t) \/ Crash(t) PROVE Ledger!Next
<1>1. t # NoTask /\ Admitted \subseteq Events /\ \A f \in Admitted : KeyOf[f] \in Keys
  BY TasksAssumption, EvidenceTypes DEF Admitted
<1>2. PICK K : K = {k \in Ledger!KeysInUse : locked[k] = t} OBVIOUS
<1>3. K \subseteq Ledger!KeysInUse /\ \A f \in Admitted : KeyOf[f] \in K <=> locked[KeyOf[f]] = t
  BY <1>2 DEF Ledger!KeysInUse
<1>4. UNCHANGED <<draft, told>> /\ locked' = Released(t) BY DEF Commit, FailTask, Crash, RolledBack
<1>5. \A k \in Keys : locked'[k] = IF locked[k] = t THEN NoTask ELSE locked[k] BY <1>4 DEF Released
<1>6. UNCHANGED Announced BY <1>4 DEF Announced
<1>7. CASE Commit(t)
  <2>1. \A k \in Keys : store'[k] = IF locked[k] = t THEN draft[k] ELSE store[k] BY <1>7 DEF Commit
  <2>2. \A k \in Keys : InWork'[k] = InWork[k] BY <1>1, <1>4, <1>5, <2>1 DEF InWork
  <2>3. InBooks' = InBooks BY <1>1, <2>2 DEF InBooks
  <2>4. \A f \in Admitted : store'[KeyOf[f]].ev[f] =
          IF KeyOf[f] \in K THEN InWork[KeyOf[f]].ev[f] ELSE store[KeyOf[f]].ev[f]
    BY <1>1, <1>3, <2>1 DEF InWork
  <2>5. InStore' = [f \in Admitted |-> IF KeyOf[f] \in K THEN InBooks[f] ELSE InStore[f]]
    BY <2>4 DEF InStore, InBooks
  <2>6. Ledger!Commit(K) BY <1>6, <2>3, <2>5 DEF Ledger!Commit
  <2> QED BY <1>3, <2>6 DEF Ledger!Next
<1>8. CASE FailTask(t) \/ Crash(t)
  <2>1. UNCHANGED store BY <1>8 DEF FailTask, Crash
  <2>2. InStore' = InStore BY <2>1 DEF InStore
  <2>3. \A f \in Admitted : InWork'[KeyOf[f]].ev[f] =
          IF KeyOf[f] \in K THEN store[KeyOf[f]].ev[f] ELSE InWork[KeyOf[f]].ev[f]
    BY <1>1, <1>3, <1>4, <1>5, <2>1 DEF InWork
  <2>4. InBooks' = [f \in Admitted |-> IF KeyOf[f] \in K THEN InStore[f] ELSE InBooks[f]]
    BY <2>3 DEF InStore, InBooks
  <2>5. Ledger!RollBack(K) BY <1>6, <2>2, <2>4 DEF Ledger!RollBack
  <2> QED BY <1>3, <2>5 DEF Ledger!Next
<1> QED BY <1>7, <1>8

LEMMA AnnounceStep == ASSUME LedgerInv, NEW t \in Tasks, Tell(t) PROVE Ledger!Next
<1>1. told' = told \cup task[t].news /\ UNCHANGED <<store, draft, locked>> /\ task[t].pc = "tell" BY DEF Tell
<1>2. ASSUME NEW n \in task[t].news PROVE <<n.key, n.bucket>> \in Ledger!Announceable
  <2>1. n.key \in Keys /\ n.bucket \in Buckets
    BY DEF LedgerInv, IInv, CorrelationTypeOK, TaskState, Notice
  <2>2. store[n.key].row[n.bucket] # NoRow BY <1>1 DEF LedgerInv, IInv, NewsAreWritten
  <2>3. SummaryFits(store[n.key]) BY <2>1 DEF LedgerInv, IInv, BooksFit, Consistent
  <2>4. PICK e \in Events : store[n.key].ev[e] = n.bucket BY <2>1, <2>2, <2>3 DEF SummaryFits, EvidenceOf
  <2>5. n.bucket # NoBucket BY <2>1, RowMarkersAssumption
  <2>6. e \in Admitted /\ KeyOf[e] = n.key BY <2>1, <2>4, <2>5 DEF LedgerInv, OwnEvidence
  <2> QED BY <2>4, <2>5, <2>6 DEF Ledger!Announceable, InStore
<1>3. Announced \subseteq Announced' /\ Announced' \subseteq Announced \cup Ledger!Announceable
  BY <1>1, <1>2 DEF Announced
<1>4. UNCHANGED <<InStore, InBooks>> BY <1>1 DEF InStore, InBooks, InWork
<1>5. Ledger!Announce BY <1>3, <1>4 DEF Ledger!Announce
<1> QED BY <1>5 DEF Ledger!Next

LEMMA LedgerStep ==
  ASSUME LedgerInv, [CorrelationNext]_correlationVars PROVE [Ledger!Next]_(Ledger!vars)
<1>0. Admitted \subseteq Events /\ \A f \in Admitted : KeyOf[f] \in Keys BY EvidenceTypes DEF Admitted
<1>1. ASSUME UNCHANGED told, \A k \in Keys : store'[k].ev = store[k].ev /\ InWork'[k].ev = InWork[k].ev
      PROVE  UNCHANGED Ledger!vars
  BY <1>0, <1>1 DEF Ledger!vars, InStore, InBooks, Announced
<1>2. ASSUME NEW t \in Tasks, Lock(t) PROVE UNCHANGED Ledger!vars BY <1>1, <1>2, LockSees DEF LedgerInv
<1>3. ASSUME NEW k \in Keys, NEW b \in Buckets, Resolve(k, b) PROVE UNCHANGED Ledger!vars
  <2>1. /\ UNCHANGED <<locked, told>>
        /\ \A j \in Keys : store'[j].ev = store[j].ev /\ draft'[j].ev = draft[j].ev
    BY <1>3, ResolveSees DEF LedgerInv
  <2> QED BY <1>1, <2>1 DEF InWork
<1>4. CASE \/ \E t \in Tasks : BeginScan(t) \/ BeginBatch(t) \/ Consider(t)
           \/ (\E e \in Events : Arrive(e)) \/ CreateWindow \/ UNCHANGED correlationVars
  <2>1. UNCHANGED <<store, draft, locked, told>>
    BY <1>4 DEF BeginScan, BeginBatch, Consider, Arrive, CreateWindow, correlationVars
  <2> QED BY <1>1, <2>1 DEF InWork
<1> QED BY <1>2, <1>3, <1>4, PlaceStep, EndStep, AnnounceStep DEF CorrelationNext, Step

\* Whatever tasks overlap, fail or are killed and in whatever order events come, each piece of
\* evidence is placed once, against all that was placed before it under its key, and is announced
\* only when committed.
THEOREM LedgerImplemented == CorrelationSpec => ImplementsLedger
<1>1. CorrelationInit => Ledger!Init
  <2> SUFFICES ASSUME CorrelationInit PROVE Ledger!Init OBVIOUS
  <2>1. \A f \in Admitted : f \in Events /\ KeyOf[f] \in Keys BY EvidenceTypes DEF Admitted
  <2>2. \A f \in Admitted : store[KeyOf[f]].ev[f] = NoBucket /\ InWork[KeyOf[f]].ev[f] = NoBucket
    BY <2>1 DEF CorrelationInit, EmptyBook, InWork
  <2>3. told = {} BY DEF CorrelationInit
  <2> QED BY <2>2, <2>3 DEF Ledger!Init, InStore, InBooks, Announced
<1>2. LedgerInv /\ [CorrelationNext]_correlationVars => [Ledger!Next]_(Ledger!vars) BY LedgerStep
<1> QED BY <1>1, <1>2, InitLedgerInv, NextLedgerInv, PTL DEF CorrelationSpec, ImplementsLedger, Ledger!Spec

-----------------------------------------------------------------------------
(***************************************************************************)
(* Theorems about IncidentReview, for any number of reviewers, people and  *)
(* models.  A key passes from "none" to "running" once, by the unique      *)
(* constraint; the reviewer that made it run is then the only one with it  *)
(* (RunsAreOwned), until it settles the run or is killed.                  *)
(***************************************************************************)

\* What ReviewTypeOK says of a reviewer
ReviewerState == [pc : {"idle", "insert", "ask", "reload", "write"},
                  key : ReviewKeys \cup {NoKey},
                  snap : [status : StatusSet, last : 1..MaxEvidence],
                  model : 0..ReviewModels,
                  answer : StatusSet \cup {"none"}, loaded : StatusSet \cup {"none"}]

Active == {"ask", "reload", "write"}

\* A reviewer that has begun works under a key, one that has inserted a run owns it, and one
\* that writes has an answer.
RunsAreOwned ==
    \A r \in Reviewers :
        /\ reviewer[r].pc # "idle" => reviewer[r].key \in ReviewKeys
        /\ reviewer[r].pc \in Active =>
              /\ runs[reviewer[r].key] = "running"
              /\ \A s \in Reviewers : s # r /\ reviewer[s].pc \in Active =>
                    reviewer[s].key # reviewer[r].key
        /\ reviewer[r].pc = "write" => reviewer[r].answer # "none"

\* The models were asked for no key without a run.
AsksHaveRuns == \A k \in ReviewKeys : /\ runs[k] = "none" => asked[k] = 0
                                      /\ asked[k] <= 1

ReviewIInv == ReviewTypeOK /\ RunsAreOwned /\ AsksHaveRuns /\ RunsHaveReviewers

LEMMA InitReviewIInv == ReviewInit => ReviewIInv
<1> SUFFICES ASSUME ReviewInit PROVE ReviewIInv
  OBVIOUS
<1>1. "open" \in StatusSet /\ 1 \in 1..MaxEvidence /\ -1 \in -1..MaxSlot /\ 0 \in 0..MaxSlot
  BY ReviewAssumption DEF StatusSet, Lifecycle
<1>2. ReviewTypeOK
  BY <1>1, ReviewAssumption DEF ReviewInit, ReviewTypeOK, ReviewerState, NewIncident, IncidentRow, Resting
<1>3. RunsAreOwned /\ AsksHaveRuns /\ RunsHaveReviewers
  BY DEF ReviewInit, RunsAreOwned, AsksHaveRuns, RunsHaveReviewers, Resting, Active
<1> QED BY <1>2, <1>3 DEF ReviewIInv

\* A task that has begun.
Begun(key, snap) == [Resting EXCEPT !.pc = "insert", !.key = key, !.snap = snap]

LEMMA BegunTypes ==
  ASSUME NEW key \in ReviewKeys, NEW snap \in [status : StatusSet, last : 1..MaxEvidence]
  PROVE  Begun(key, snap) \in ReviewerState /\ Begun(key, snap).pc = "insert"
         /\ Begun(key, snap).key = key
<1>1. Resting \in ReviewerState
  <2>1. "open" \in StatusSet /\ 1 \in 1..MaxEvidence BY ReviewAssumption DEF StatusSet, Lifecycle
  <2> QED BY <2>1, ReviewAssumption DEF Resting, ReviewerState
<1> QED BY <1>1 DEF Begun, ReviewerState

\* A task that begins takes a snapshot under a key of its own trigger.
LEMMA TakeStep ==
  ASSUME ReviewIInv, NEW r \in Reviewers, TakeLifecycle(r) \/ TakeScheduled(r)
  PROVE  ReviewIInv' /\ UNCHANGED runs
<1> USE DEF ReviewIInv
<1>1. incident.status \in StatusSet /\ incident.last \in 1..MaxEvidence /\ slot \in 0..MaxSlot
  BY DEF ReviewTypeOK, IncidentRow
<1>2. PICK l \in {"incident", "due"}, key \in ReviewKeys : Starts(r, l, key) /\ reviewer[r].pc = "idle"
  <2>1. LifecycleKey(incident.status, incident.last) \in ReviewKeys BY <1>1 DEF ReviewKeys
  <2>2. ScheduledKey(slot) \in ReviewKeys BY <1>1 DEF ReviewKeys
  <2> QED BY <2>1, <2>2 DEF TakeLifecycle, TakeScheduled
<1>3. UNCHANGED <<incident, agentOn, runs, person, slot, asked, kills>>
  BY DEF TakeLifecycle, TakeScheduled
<1>4. CASE UNCHANGED <<redis, reviewer>>
  BY <1>3, <1>4 DEF ReviewTypeOK, RunsAreOwned, AsksHaveRuns, RunsHaveReviewers
<1>5. CASE /\ redis' = [redis EXCEPT ![l] = r]
           /\ reviewer' = [reviewer EXCEPT ![r] = [Resting EXCEPT
                 !.pc = "insert", !.key = key, !.snap = IncidentSnapshot]]
  <2> DEFINE R == Begun(key, IncidentSnapshot)
  <2>1. reviewer' = [reviewer EXCEPT ![r] = R] BY <1>5 DEF Begun
  <2>2. IncidentSnapshot \in [status : StatusSet, last : 1..MaxEvidence]
    BY <1>1 DEF IncidentSnapshot
  <2>3. R \in ReviewerState /\ R.pc = "insert" /\ R.key = key BY <2>2, BegunTypes
  <2> HIDE DEF R
  <2>4. reviewer' \in [Reviewers -> ReviewerState]
    BY <2>1, <2>3 DEF ReviewTypeOK, ReviewerState
  <2>5. ReviewTypeOK' BY <1>3, <1>5, <2>4 DEF ReviewTypeOK, ReviewerState
  <2>6. reviewer'[r] = R /\ \A s \in Reviewers \ {r} : reviewer'[s] = reviewer[s]
    BY <2>1 DEF ReviewTypeOK
  <2>7. RunsAreOwned' BY <1>2, <1>3, <2>3, <2>6 DEF RunsAreOwned, Active
  <2>8. RunsHaveReviewers' BY <1>2, <1>3, <2>3, <2>6 DEF RunsHaveReviewers
  <2>9. AsksHaveRuns' BY <1>3 DEF AsksHaveRuns
  <2> QED BY <1>3, <2>5, <2>7, <2>8, <2>9
<1> QED BY <1>2, <1>3, <1>4, <1>5 DEF Starts

\* What the end of a task leaves of the others.
LEMMA RestTypes ==
  ASSUME ReviewTypeOK, NEW r \in Reviewers, Rest(r)
  PROVE  /\ reviewer'[r] = Resting /\ \A s \in Reviewers \ {r} : reviewer'[s] = reviewer[s]
         /\ Resting.pc = "idle"
         /\ reviewer' \in [Reviewers -> ReviewerState]
         /\ redis' \in [{"incident", "due"} -> Reviewers \cup {Nobody}]
<1>1. "open" \in StatusSet /\ 1 \in 1..MaxEvidence BY ReviewAssumption DEF StatusSet, Lifecycle
<1> QED BY <1>1, ReviewAssumption DEF ReviewTypeOK, ReviewerState, Rest, FreeRedis, Resting

\* A settled run is left as it is.
SettledKept == \A k \in ReviewKeys : runs[k] \in Settled => runs'[k] = runs[k]

LEMMA InsertStep ==
  ASSUME ReviewIInv, NEW r \in Reviewers, InsertRun(r)
  PROVE  ReviewIInv' /\ SettledKept
<1> USE DEF ReviewIInv
<1> DEFINE k == reviewer[r].key
<1>1. k \in ReviewKeys /\ reviewer[r].pc = "insert" BY DEF InsertRun, RunsAreOwned
<1>2. UNCHANGED <<incident, agentOn, person, slot, kills>> BY DEF InsertRun
<1> HIDE DEF k
<1>3. CASE runs[k] # "none" /\ Rest(r) /\ UNCHANGED <<runs, asked>>
  <2>1. ReviewTypeOK' BY <1>2, <1>3, RestTypes DEF ReviewTypeOK, ReviewerState
  <2>2. RunsAreOwned' /\ RunsHaveReviewers'
    BY <1>1, <1>2, <1>3, RestTypes DEF RunsAreOwned, RunsHaveReviewers, Active
  <2> QED BY <1>3, <2>1, <2>2 DEF AsksHaveRuns, SettledKept
<1>4. CASE /\ runs[k] = "none" /\ runs' = [runs EXCEPT ![k] = "running"]
           /\ asked' = [asked EXCEPT ![k] = @ + 1]
           /\ reviewer' = [reviewer EXCEPT ![r].pc = "ask", ![r].model = 1]
           /\ UNCHANGED redis
  <2>1. /\ reviewer' \in [Reviewers -> ReviewerState]
        /\ reviewer'[r].pc = "ask" /\ reviewer'[r].key = k
        /\ \A s \in Reviewers \ {r} : reviewer'[s] = reviewer[s]
    <3> DEFINE R == [reviewer[r] EXCEPT !.pc = "ask", !.model = 1]
    <3>1. reviewer[r] \in ReviewerState BY DEF ReviewTypeOK, ReviewerState
    <3>2. 1 \in 0..ReviewModels BY ReviewAssumption
    <3>3. R \in ReviewerState /\ R.pc = "ask" /\ R.key = reviewer[r].key
      BY <3>1, <3>2 DEF ReviewerState
    <3>4. reviewer' = [reviewer EXCEPT ![r] = R] BY <1>4
    <3> HIDE DEF R
    <3> QED BY <3>3, <3>4 DEF ReviewTypeOK, ReviewerState, k
  <2>2. /\ runs' \in [ReviewKeys -> {"none", "running"} \cup Settled] /\ runs'[k] = "running"
        /\ asked' \in [ReviewKeys -> Nat] /\ asked'[k] = asked[k] + 1
        /\ \A j \in ReviewKeys \ {k} : runs'[j] = runs[j] /\ asked'[j] = asked[j]
    BY <1>1, <1>4 DEF ReviewTypeOK
  <2>3. ReviewTypeOK' BY <1>2, <1>4, <2>1, <2>2 DEF ReviewTypeOK, ReviewerState
  <2>4. \A s \in Reviewers : reviewer[s].pc \in Active =>
            reviewer[s].key # k /\ reviewer[s].key \in ReviewKeys
    BY <1>4 DEF RunsAreOwned, Active
  <2>5. RunsAreOwned' BY <1>1, <2>1, <2>2, <2>4 DEF RunsAreOwned, Active
  <2>6. AsksHaveRuns' BY <1>1, <1>4, <2>2 DEF AsksHaveRuns
  <2>7. RunsHaveReviewers' BY <1>1, <1>2, <2>1, <2>2 DEF RunsHaveReviewers
  <2>8. SettledKept BY <1>1, <1>4, <2>2 DEF SettledKept, Settled
  <2> QED BY <2>3, <2>5, <2>6, <2>7, <2>8
<1> QED BY <1>3, <1>4 DEF InsertRun, k

\* A reviewer that settles the run of its key, as ReloadIncident and WriteReview do.
LEMMA SettleStep ==
  ASSUME ReviewIInv, NEW r \in Reviewers, reviewer[r].pc \in Active, NEW outcome \in Settled,
         runs' = [runs EXCEPT ![reviewer[r].key] = outcome], Rest(r),
         UNCHANGED <<agentOn, person, slot, asked, kills>>, incident' \in IncidentRow
  PROVE  ReviewIInv' /\ SettledKept
<1> USE DEF ReviewIInv
<1> DEFINE k == reviewer[r].key
<1>1. k \in ReviewKeys /\ runs[k] = "running"
      /\ \A s \in Reviewers \ {r} : reviewer[s].pc \in Active => reviewer[s].key # k
  BY DEF RunsAreOwned, Active
<1>2. /\ runs' \in [ReviewKeys -> {"none", "running"} \cup Settled] /\ runs'[k] = outcome
      /\ \A j \in ReviewKeys \ {k} : runs'[j] = runs[j]
      /\ outcome \notin {"none", "running"}
  BY <1>1 DEF ReviewTypeOK, Settled
<1>3. ReviewTypeOK' BY <1>2, RestTypes DEF ReviewTypeOK, ReviewerState
<1> HIDE DEF k
<1>4. RunsAreOwned' BY <1>1, <1>2, RestTypes DEF RunsAreOwned, Active, k
<1>5. AsksHaveRuns' BY <1>1, <1>2 DEF AsksHaveRuns
<1>6. RunsHaveReviewers' BY <1>1, <1>2, RestTypes DEF RunsHaveReviewers, k
<1>7. SettledKept BY <1>1, <1>2 DEF SettledKept, Settled
<1> QED BY <1>3, <1>4, <1>5, <1>6, <1>7

\* A reviewer that goes on with a run it owns.
LEMMA WorkStep ==
  ASSUME ReviewIInv, NEW r \in Reviewers, reviewer[r].pc \in Active,
         NEW R \in ReviewerState, R.pc \in Active, R.key = reviewer[r].key,
         R.pc = "write" => R.answer # "none",
         reviewer' = [reviewer EXCEPT ![r] = R],
         UNCHANGED <<incident, agentOn, runs, redis, person, slot, asked, kills>>
  PROVE  ReviewIInv' /\ SettledKept
<1> USE DEF ReviewIInv
<1>1. /\ reviewer'[r] = R /\ \A s \in Reviewers \ {r} : reviewer'[s] = reviewer[s]
      /\ reviewer' \in [Reviewers -> ReviewerState]
  BY DEF ReviewTypeOK, ReviewerState
<1>2. ReviewTypeOK' BY <1>1 DEF ReviewTypeOK, ReviewerState
<1>3. RunsAreOwned' BY <1>1 DEF RunsAreOwned, Active
<1>4. RunsHaveReviewers' BY <1>1 DEF RunsHaveReviewers, Active
<1>5. AsksHaveRuns' /\ SettledKept BY DEF AsksHaveRuns, SettledKept
<1> QED BY <1>2, <1>3, <1>4, <1>5

LEMMA AskStep ==
  ASSUME ReviewIInv, NEW r \in Reviewers, AskModel(r)
  PROVE  ReviewIInv' /\ SettledKept
<1> USE DEF ReviewIInv
<1>1. reviewer[r] \in ReviewerState /\ reviewer[r].pc = "ask" /\ "ask" \in Active
  BY DEF AskModel, ReviewTypeOK, ReviewerState, Active
<1>2. UNCHANGED <<incident, agentOn, runs, redis, person, slot, asked, kills>> BY DEF AskModel
<1>3. ASSUME reviewer[r].model < ReviewModels, reviewer' = [reviewer EXCEPT ![r].model = @ + 1]
      PROVE  ReviewIInv' /\ SettledKept
  <2> DEFINE R == [reviewer[r] EXCEPT !.model = @ + 1]
  <2>1. R \in ReviewerState /\ R.pc = "ask" /\ R.key = reviewer[r].key
    BY <1>1, <1>3, ReviewAssumption DEF ReviewerState
  <2>2. reviewer' = [reviewer EXCEPT ![r] = R] BY <1>3
  <2> HIDE DEF R
  <2> QED BY <1>1, <1>2, <2>1, <2>2, WorkStep DEF Active
<1>4. ASSUME reviewer' = [reviewer EXCEPT ![r].pc = "reload"]
      PROVE  ReviewIInv' /\ SettledKept
  <2> DEFINE R == [reviewer[r] EXCEPT !.pc = "reload"]
  <2>1. R \in ReviewerState /\ R.pc = "reload" /\ R.key = reviewer[r].key
    BY <1>1 DEF ReviewerState
  <2>2. reviewer' = [reviewer EXCEPT ![r] = R] BY <1>4
  <2> HIDE DEF R
  <2> QED BY <1>1, <1>2, <2>1, <2>2, WorkStep DEF Active
<1>5. ASSUME NEW s \in Answers(reviewer[r].snap),
             reviewer' = [reviewer EXCEPT ![r].pc = "reload", ![r].answer = s]
      PROVE  ReviewIInv' /\ SettledKept
  <2> DEFINE R == [reviewer[r] EXCEPT !.pc = "reload", !.answer = s]
  <2>1. s \in StatusSet BY <1>1, <1>5 DEF Answers, ReviewerState
  <2>2. R \in ReviewerState /\ R.pc = "reload" /\ R.key = reviewer[r].key
    BY <1>1, <2>1 DEF ReviewerState
  <2>3. reviewer' = [reviewer EXCEPT ![r] = R] BY <1>5
  <2> HIDE DEF R
  <2> QED BY <1>1, <1>2, <2>2, <2>3, WorkStep DEF Active
<1> QED BY <1>3, <1>4, <1>5 DEF AskModel

LEMMA ReloadStep ==
  ASSUME ReviewIInv, NEW r \in Reviewers, ReloadIncident(r)
  PROVE  ReviewIInv' /\ SettledKept
<1> USE DEF ReviewIInv
<1>1. reviewer[r] \in ReviewerState /\ reviewer[r].pc = "reload" /\ "reload" \in Active
  BY DEF ReloadIncident, ReviewTypeOK, ReviewerState, Active
<1>2. UNCHANGED <<incident, agentOn, person, slot, asked, kills>> BY DEF ReloadIncident
<1>3. CASE Outcome(r) = "write"
  <2> DEFINE R == [reviewer[r] EXCEPT !.pc = "write", !.loaded = incident.status]
  <2>1. R \in ReviewerState /\ R.pc = "write" /\ R.key = reviewer[r].key
        /\ R.answer = reviewer[r].answer
    BY <1>1 DEF ReviewerState, ReviewTypeOK, IncidentRow
  <2>2. reviewer' = [reviewer EXCEPT ![r] = R] /\ UNCHANGED <<runs, redis>>
    BY <1>3 DEF ReloadIncident
  <2>3. reviewer[r].answer # "none" BY <1>3 DEF Outcome
  <2> HIDE DEF R
  <2> QED BY <1>1, <1>2, <2>1, <2>2, <2>3, WorkStep DEF Active
<1>4. CASE Outcome(r) # "write"
  <2>1. Outcome(r) \in Settled BY <1>4 DEF Outcome, Settled
  <2>2. runs' = [runs EXCEPT ![reviewer[r].key] = Outcome(r)] /\ Rest(r)
    BY <1>4 DEF ReloadIncident
  <2>3. incident' \in IncidentRow BY <1>2 DEF ReviewTypeOK
  <2> QED BY <1>1, <1>2, <2>1, <2>2, <2>3, SettleStep
<1> QED BY <1>3, <1>4

LEMMA ReviewWriteStep ==
  ASSUME ReviewIInv, NEW r \in Reviewers, WriteReview(r)
  PROVE  ReviewIInv' /\ SettledKept
<1> USE DEF ReviewIInv
<1>1. reviewer[r].pc \in Active BY DEF WriteReview, Active
<1>2. reviewer[r].answer \in StatusSet
  BY DEF WriteReview, ReviewTypeOK, RunsAreOwned
<1>3. incident' \in IncidentRow
  <2>1. incident \in IncidentRow /\ slot \in -1..MaxSlot
    BY ReviewAssumption DEF ReviewTypeOK
  <2> QED BY <1>2, <2>1 DEF WriteReview, IncidentRow
<1>4. /\ runs' = [runs EXCEPT ![reviewer[r].key] = "succeeded"] /\ Rest(r)
      /\ UNCHANGED <<agentOn, person, slot, asked, kills>>
  BY DEF WriteReview
<1>5. "succeeded" \in Settled BY DEF Settled
<1> QED BY <1>1, <1>3, <1>4, <1>5, SettleStep

LEMMA OtherStep ==
  ASSUME ReviewIInv,
         \/ \E l \in {"incident", "due"} : ReviewLockExpires(l)
         \/ \E p \in People : OpenIncident(p) \/ CommitUpdate(p)
         \/ AddEvidence \/ SwitchAgent \/ NextSlot
         \/ UNCHANGED reviewVars
  PROVE  ReviewIInv' /\ UNCHANGED runs
<1> USE DEF ReviewIInv
<1>1. UNCHANGED <<runs, reviewer, asked, kills>>
  BY DEF ReviewLockExpires, OpenIncident, CommitUpdate, AddEvidence, SwitchAgent, NextSlot, reviewVars
<1>2. RunsAreOwned' /\ AsksHaveRuns' /\ RunsHaveReviewers'
  BY <1>1 DEF RunsAreOwned, AsksHaveRuns, RunsHaveReviewers
<1>3. ReviewTypeOK'
  <2>1. CASE \E l \in {"incident", "due"} : ReviewLockExpires(l)
    BY <2>1 DEF ReviewLockExpires, ReviewTypeOK
  <2>2. CASE \E p \in People : OpenIncident(p) BY <2>2 DEF OpenIncident, ReviewTypeOK
  <2>3. CASE \E p \in People : CommitUpdate(p)
    BY <2>3 DEF CommitUpdate, ReviewTypeOK, IncidentRow
  <2>4. CASE AddEvidence
    <3>1. "open" \in StatusSet BY DEF StatusSet, Lifecycle
    <3>2. PICK n \in incident.last..MaxEvidence :
            incident' = [incident EXCEPT !.last = n,
                                         !.status = IF @ = "resolved" THEN "open" ELSE @]
      BY <2>4 DEF AddEvidence
    <3>3. incident \in IncidentRow BY DEF ReviewTypeOK
    <3>4. n \in 1..MaxEvidence BY <3>3, ReviewAssumption DEF IncidentRow
    <3>5. incident' \in IncidentRow BY <3>1, <3>2, <3>3, <3>4 DEF IncidentRow
    <3> QED BY <2>4, <3>5 DEF AddEvidence, ReviewTypeOK
  <2>5. CASE SwitchAgent BY <2>5 DEF SwitchAgent, ReviewTypeOK
  <2>6. CASE NextSlot BY <2>6, ReviewAssumption DEF NextSlot, ReviewTypeOK
  <2>7. CASE UNCHANGED reviewVars BY <2>7 DEF reviewVars, ReviewTypeOK
  <2> QED BY <2>1, <2>2, <2>3, <2>4, <2>5, <2>6, <2>7
<1> QED BY <1>1, <1>2, <1>3

LEMMA KillStep ==
  ASSUME ReviewIInv, NEW r \in Reviewers, KillReviewer(r)
  PROVE  ReviewIInv' /\ UNCHANGED runs
<1> USE DEF ReviewIInv
<1>1. "open" \in StatusSet /\ 1 \in 1..MaxEvidence BY ReviewAssumption DEF StatusSet, Lifecycle
<1>2. /\ reviewer'[r] = Resting /\ \A s \in Reviewers \ {r} : reviewer'[s] = reviewer[s]
      /\ Resting.pc = "idle" /\ kills' = kills + 1
      /\ UNCHANGED <<incident, agentOn, runs, redis, person, slot, asked>>
  BY DEF KillReviewer, Resting, ReviewTypeOK
<1>3. ReviewTypeOK' /\ kills' # 0
  BY <1>1, ReviewAssumption DEF ReviewTypeOK, KillReviewer, Resting
<1>4. RunsAreOwned' BY <1>2 DEF RunsAreOwned, Active
<1>5. AsksHaveRuns' /\ RunsHaveReviewers' BY <1>2, <1>3 DEF AsksHaveRuns, RunsHaveReviewers
<1> QED BY <1>2, <1>3, <1>4, <1>5

\* Every step keeps the invariant and the settled runs.
LEMMA NextReviewIInv == ReviewIInv /\ [ReviewNext]_reviewVars => ReviewIInv' /\ SettledKept
<1> SUFFICES ASSUME ReviewIInv, [ReviewNext]_reviewVars PROVE ReviewIInv' /\ SettledKept
  OBVIOUS
<1>1. UNCHANGED runs => SettledKept BY DEF SettledKept
<1>2. CASE \E r \in Reviewers : TakeLifecycle(r) \/ TakeScheduled(r) BY <1>1, <1>2, TakeStep
<1>3. CASE \E r \in Reviewers : ReviewStep(r)
  BY <1>3, InsertStep, AskStep, ReloadStep, ReviewWriteStep DEF ReviewStep
<1>4. CASE \E r \in Reviewers : KillReviewer(r) BY <1>1, <1>4, KillStep
<1>5. CASE \/ \E l \in {"incident", "due"} : ReviewLockExpires(l)
           \/ \E p \in People : OpenIncident(p) \/ CommitUpdate(p)
           \/ AddEvidence \/ SwitchAgent \/ NextSlot
           \/ UNCHANGED reviewVars
  BY <1>1, <1>5, OtherStep
<1> QED BY <1>2, <1>3, <1>4, <1>5 DEF ReviewNext

\* The variables keep their types; no model past the last one is asked.
THEOREM ReviewTypeCorrect == ReviewSpec => []ReviewTypeOK
<1>1. ReviewIInv => ReviewTypeOK BY DEF ReviewIInv
<1> QED BY <1>1, InitReviewIInv, NextReviewIInv, PTL DEF ReviewSpec

\* The models are asked for one idempotency key once, for any number of overlapping tasks.
THEOREM KeyAskedOnce == ReviewSpec => []AskedOnce
<1>1. ReviewIInv => AskedOnce BY DEF ReviewIInv, AsksHaveRuns, AskedOnce
<1> QED BY <1>1, InitReviewIInv, NextReviewIInv, PTL DEF ReviewSpec

\* While nobody is killed, a running run has a reviewer that will settle it.
THEOREM RunsOwned == ReviewSpec => []RunsHaveReviewers
<1>1. ReviewIInv => RunsHaveReviewers BY DEF ReviewIInv
<1> QED BY <1>1, InitReviewIInv, NextReviewIInv, PTL DEF ReviewSpec

\* A settled run keeps its outcome.
THEOREM RunsFinal == ReviewSpec => SettledRunsFinal
<1>1. ReviewIInv /\ [ReviewNext]_reviewVars =>
        [\A k \in ReviewKeys : runs[k] \in Settled => runs'[k] = runs[k]]_reviewVars
  BY NextReviewIInv DEF SettledKept
<1> QED BY <1>1, InitReviewIInv, NextReviewIInv, PTL DEF ReviewSpec, SettledRunsFinal
=============================================================================
