--------------------------- MODULE CapacityProofs ---------------------------
(***************************************************************************)
(* Theorems about CapacityCollection and CapacityPrediction, one after the *)
(* other; neither proof uses the other.  Collection: Fits says of one      *)
(* round and its audits what its own steps keep; the lock, which outlives  *)
(* the rounds, says that no other round totals projects meanwhile          *)
(* (LockHeld), and the row lock of a group that it stays where it was      *)
(* measured (DraftsFit).  Prediction: what a run has flushed is its own    *)
(* day's and judged nowhere else (FlushedFits, JudgedFits), and one        *)
(* request at a time has disabled the candidates (HoldersFit).             *)
(***************************************************************************)
EXTENDS CapacityCollection, CapacityPrediction, FiniteSetTheorems, TLAPS

Pcs == {"idle", "next", "open", "updated", "stored", "failed", "summed", "totalled", "written",
        "skipped", "ended", "killed"}

RoundState == [pc : Pcs, snapshot : SUBSET (Groups \X Places), todo : SUBSET Clusters,
               cluster : SUBSET Clusters, draft : SUBSET Groups, ok : SUBSET Clusters,
               sums : SUBSET [project : Projects, groups : SUBSET Sum]]

GroupRow == [at : Places, monitored : BOOLEAN, reading : Reading]
AuditTrail == [Clusters -> SUBSET {"attempt", "success", "failure"}]

Typed ==
    /\ group \in [Groups -> GroupRow]
    /\ total \in [Projects -> [round : Rounds \cup {NoRound}, sums : SUBSET Sum]]
    /\ \A x \in trend : x.project \in Projects /\ x.round \in Rounds
    /\ ledger \in [Rounds -> [Clusters -> {"none", "running", "success", "failed"}]]
    /\ audits \in [Rounds -> AuditTrail]
    /\ lock \in Rounds \cup {NoRound}
    /\ round \in [Rounds -> RoundState]

\* What a round R knows is backed by its audits A: of the cluster it is at, of the clusters it
\* takes for successful, and of the projects it has summed.
Fits(R, A) ==
    /\ R.todo \cap R.ok = {} /\ R.todo \cap R.cluster = {}
    /\ R.pc = "open" => \E c \in Clusters : R.cluster = {c}
    /\ \A c \in R.cluster : /\ R.pc \in {"open", "updated", "stored"} => "attempt" \in A[c]
                            /\ R.pc = "stored" => "success" \in A[c]
    /\ \A c \in R.ok : c \in Unsupported \/ "success" \in A[c]
    /\ \A s \in R.sums : \A x \in s.groups : x.at.cluster \in R.ok
    /\ \A s, t \in R.snapshot : s[1] = t[1] => s = t
    /\ R.pc = "idle" => R.ok = {} /\ R.cluster = {} /\ R.draft = {}

RoundsFit == \A r \in Rounds : Fits(round[r], audits[r])

\* A group that a round has updated lies where the snapshot has it.
DraftsFit == \A r \in Rounds : \A g \in round[r].draft : <<g, group[g].at>> \in round[r].snapshot

LockHeld == \A r \in Rounds : Running(r) => lock = r

\* Until its points are written, the totals of a round are its own.
TotalsHeld == \A r \in Rounds : round[r].pc = "totalled" => \A p \in Summed(r) : total[p].round = r

TotalsHaveRounds == \A p \in Projects : total[p].round = NoRound => total[p].sums = {}

CollectionIInv == /\ Typed /\ RoundsFit /\ DraftsFit /\ LockHeld /\ TotalsHeld /\ TotalsHaveRounds
                  /\ TotalsNeedEveryCluster /\ TrendShowsItsRound /\ LedgerIsHonest

LEMMA IdleFits ==
  ASSUME NEW pc \in Pcs, pc # "open", NEW A \in AuditTrail
  PROVE  LET R == [IdleRound EXCEPT !.pc = pc]
         IN  R \in RoundState /\ Fits(R, A) /\ R.pc = pc /\ R.draft = {}
  BY DEF IdleRound, RoundState, Fits

LEMMA InitCollectionIInv == CollectionInit => CollectionIInv
<1> SUFFICES ASSUME CollectionInit PROVE CollectionIInv
  OBVIOUS
<1>1. IdleRound \in RoundState /\ \A A \in AuditTrail : Fits(IdleRound, A)
  BY DEF IdleRound, RoundState, Fits, Pcs
<1>2. Typed
  <2>1. group \in [Groups -> GroupRow]
    BY DEF CollectionInit, GroupRow, Reading, NoReading
  <2>2. round \in [Rounds -> RoundState] BY <1>1 DEF CollectionInit
  <2> QED BY <2>1, <2>2 DEF CollectionInit, Typed, AuditTrail
<1>3. RoundsFit BY <1>1, <1>2 DEF CollectionInit, RoundsFit, Typed
<1>4. /\ DraftsFit /\ LockHeld /\ TotalsHeld /\ TotalsHaveRounds
      /\ TotalsNeedEveryCluster /\ TrendShowsItsRound /\ LedgerIsHonest
  BY DEF CollectionInit, DraftsFit, LockHeld, TotalsHeld, TotalsHaveRounds, TotalsNeedEveryCluster,
         TrendShowsItsRound, LedgerIsHonest, IdleRound, Running
<1> QED BY <1>2, <1>3, <1>4 DEF CollectionIInv

Busy(pc) == pc \notin {"idle", "skipped", "ended", "killed"}

\* A step of round r that adds audits of its own and leaves totals, trends and the places of
\* groups alone.
LEMMA ReadingStep ==
  ASSUME CollectionIInv, NEW r \in Rounds, NEW R \in RoundState, NEW A \in AuditTrail,
         round' = [round EXCEPT ![r] = R], audits' = [audits EXCEPT ![r] = A],
         \A c \in Clusters : audits[r][c] \subseteq A[c],
         Fits(R, A), \A g \in R.draft : <<g, group[g].at>> \in R.snapshot,
         ledger' \in [Rounds -> [Clusters -> {"none", "running", "success", "failed"}]], LedgerIsHonest',
         lock' \in Rounds \cup {NoRound}, Busy(R.pc) => lock' = r,
         \A q \in Rounds \ {r} : Running(q) => lock' = q,
         R.pc # "totalled", UNCHANGED <<total, trend>>,
         group' \in [Groups -> GroupRow], \A g \in Groups : group'[g].at = group[g].at
  PROVE  CollectionIInv'
<1> USE DEF CollectionIInv
<1>1. /\ round'[r] = R /\ audits'[r] = A
      /\ \A q \in Rounds \ {r} : round'[q] = round[q] /\ audits'[q] = audits[q]
  BY DEF Typed
<1>2. Typed' BY DEF Typed
<1>3. RoundsFit' BY <1>1 DEF RoundsFit
<1>4. DraftsFit'
  <2>1. \A q \in Rounds : round[q].draft \subseteq Groups /\ R.draft \subseteq Groups
    BY DEF Typed, RoundState
  <2> QED BY <1>1, <2>1 DEF DraftsFit
<1>5. LockHeld' BY <1>1 DEF LockHeld, Running, Busy
<1>6. TotalsHeld' BY <1>1 DEF TotalsHeld, Summed
<1>7. TotalsNeedEveryCluster'
  <2> SUFFICES ASSUME NEW p \in Projects, NEW s \in total[p].sums, s.at.cluster \notin Unsupported
               PROVE "success" \in audits'[total[p].round][s.at.cluster]
    BY DEF TotalsNeedEveryCluster
  <2>1. total[p].round \in Rounds /\ s.at.cluster \in Clusters
    BY DEF Typed, TotalsHaveRounds, Sum, Places
  <2>2. "success" \in audits[total[p].round][s.at.cluster] BY DEF TotalsNeedEveryCluster
  <2> QED BY <1>1, <2>1, <2>2
<1>8. TotalsHaveRounds' /\ TrendShowsItsRound' BY DEF TotalsHaveRounds, TrendShowsItsRound
<1> QED BY <1>2, <1>3, <1>4, <1>5, <1>6, <1>7, <1>8

\* The same of a step that writes no reading.
LEMMA RoundStep ==
  ASSUME CollectionIInv, NEW r \in Rounds, NEW R \in RoundState, NEW A \in AuditTrail,
         round' = [round EXCEPT ![r] = R], audits' = [audits EXCEPT ![r] = A],
         \A c \in Clusters : audits[r][c] \subseteq A[c],
         Fits(R, A), \A g \in R.draft : <<g, group[g].at>> \in R.snapshot,
         ledger' \in [Rounds -> [Clusters -> {"none", "running", "success", "failed"}]], LedgerIsHonest',
         lock' \in Rounds \cup {NoRound}, Busy(R.pc) => lock' = r,
         \A q \in Rounds \ {r} : Running(q) => lock' = q,
         R.pc # "totalled", UNCHANGED <<group, total, trend>>
  PROVE  CollectionIInv'
<1>1. group' \in [Groups -> GroupRow] /\ \A g \in Groups : group'[g].at = group[g].at
  BY DEF CollectionIInv, Typed
<1> QED BY <1>1, ReadingStep

Heard(r, c, events) == [audits[r] EXCEPT ![c] = @ \cup events]

\* Audits only grow.
LEMMA HeardTypes ==
  ASSUME Typed, NEW r \in Rounds, NEW c \in Clusters,
         NEW events \in SUBSET {"attempt", "success", "failure"}
  PROVE  /\ Heard(r, c, events) \in AuditTrail
         /\ Heard(r, c, events)[c] = audits[r][c] \cup events
         /\ \A d \in Clusters : audits[r][d] \subseteq Heard(r, c, events)[d]
         /\ Audited(r, c, events) => audits' = [audits EXCEPT ![r] = Heard(r, c, events)]
<1>1. audits[r] \in AuditTrail BY DEF Typed
<1> QED BY <1>1 DEF Heard, AuditTrail, Audited

LEMMA FitsMonotone ==
  ASSUME NEW R \in RoundState, NEW A \in AuditTrail, NEW B \in AuditTrail, Fits(R, A),
         \A c \in Clusters : A[c] \subseteq B[c]
  PROVE  Fits(R, B)
<1>1. R.cluster \subseteq Clusters /\ R.ok \subseteq Clusters BY DEF RoundState
<1> QED BY <1>1 DEF Fits

\* A ledger row that is written: a success only for a cluster that has its audits.
LEMMA LedgerTypes ==
  ASSUME Typed, LedgerIsHonest, NEW r \in Rounds, NEW c \in Clusters,
         NEW outcome \in {"running", "success", "failed"},
         NEW A \in AuditTrail, audits' = [audits EXCEPT ![r] = A],
         \A d \in Clusters : audits[r][d] \subseteq A[d],
         ledger' = ledger \/ Ledgered(r, c, outcome),
         outcome = "success" => c \in Unsupported \/ {"attempt", "success"} \subseteq A[c]
  PROVE  /\ ledger' \in [Rounds -> [Clusters -> {"none", "running", "success", "failed"}]]
         /\ LedgerIsHonest'
<1>1. /\ audits'[r] = A /\ \A q \in Rounds \ {r} : audits'[q] = audits[q]
  BY DEF Typed
<1>2. CASE ledger' = ledger BY <1>1, <1>2 DEF Typed, LedgerIsHonest
<1>3. CASE Ledgered(r, c, outcome)
  <2>1. ledger' \in [Rounds -> [Clusters -> {"none", "running", "success", "failed"}]]
    BY <1>3 DEF Typed, Ledgered
  <2>2. /\ ledger'[r][c] = outcome /\ \A d \in Clusters \ {c} : ledger'[r][d] = ledger[r][d]
        /\ \A q \in Rounds \ {r} : ledger'[q] = ledger[q]
    BY <1>3 DEF Typed, Ledgered
  <2>3. ASSUME NEW q \in Rounds, NEW d \in Clusters \ Unsupported, ledger'[q][d] = "success"
        PROVE {"attempt", "success"} \subseteq audits'[q][d]
    <3>1. CASE q = r /\ d = c BY <1>1, <2>2, <2>3, <3>1
    <3>2. CASE q # r BY <1>1, <2>2, <2>3, <3>2 DEF LedgerIsHonest
    <3>3. CASE q = r /\ d # c
      <4>1. {"attempt", "success"} \subseteq audits[r][d] BY <2>2, <2>3, <3>3 DEF LedgerIsHonest
      <4> QED BY <1>1, <3>3, <4>1
    <3> QED BY <3>1, <3>2, <3>3
  <2> QED BY <2>1, <2>3 DEF LedgerIsHonest
<1> QED BY <1>2, <1>3

\* What a round is worth before its next step.
LEMMA OwnFacts ==
  ASSUME CollectionIInv, NEW r \in Rounds
  PROVE  /\ round[r] \in RoundState /\ audits[r] \in AuditTrail /\ Fits(round[r], audits[r])
         /\ \A g \in round[r].draft : <<g, group[g].at>> \in round[r].snapshot
         /\ lock \in Rounds \cup {NoRound} /\ NoRound \notin Rounds
         /\ Running(r) <=> Busy(round[r].pc)
         /\ \A q \in Rounds : Running(q) => lock = q
         /\ \A c \in Clusters : audits[r][c] \subseteq audits[r][c]
         /\ audits = [audits EXCEPT ![r] = audits[r]]
  BY CollectionAssumption
     DEF CollectionIInv, Typed, RoundsFit, DraftsFit, LockHeld, Running, Busy, AuditTrail

LEMMA BeginStep ==
  ASSUME CollectionIInv, NEW r \in Rounds, NEW scope \in SUBSET Clusters, BeginRound(r, scope)
  PROVE  CollectionIInv'
<1> DEFINE R == [round[r] EXCEPT !.pc = "next", !.snapshot = Snapshot(scope), !.todo = scope]
<1>1. /\ round' = [round EXCEPT ![r] = R] /\ lock' = r /\ round[r].pc = "idle" /\ lock = NoRound
      /\ UNCHANGED <<group, total, trend, ledger, audits, moves, faults>>
  BY DEF BeginRound
<1>2. /\ Snapshot(scope) \in SUBSET (Groups \X Places)
      /\ \A s, t \in Snapshot(scope) : s[1] = t[1] => s = t
      /\ \A g \in Groups : <<g, group[g].at>> \in Snapshot(scope) =>
             group[g].monitored /\ group[g].at.cluster \in scope
  <2>1. \A g \in Groups : group[g].at \in Places BY DEF CollectionIInv, Typed, GroupRow
  <2> QED BY <2>1 DEF Snapshot
<1>3. /\ R \in RoundState /\ R.pc = "next" /\ R.snapshot = Snapshot(scope) /\ R.todo = scope
      /\ R.ok = round[r].ok /\ R.cluster = round[r].cluster /\ R.draft = round[r].draft
      /\ R.sums = round[r].sums
  BY <1>2, OwnFacts DEF RoundState, Pcs
<1> HIDE DEF R
<1>4. Fits(R, audits[r]) BY <1>1, <1>2, <1>3, OwnFacts DEF Fits
<1>5. LedgerIsHonest' /\ ledger' \in [Rounds -> [Clusters -> {"none", "running", "success", "failed"}]]
  BY <1>1 DEF CollectionIInv, Typed, LedgerIsHonest
<1>6. \A g \in R.draft : <<g, group[g].at>> \in R.snapshot BY <1>1, <1>3, OwnFacts DEF Fits
<1>7. \A q \in Rounds : ~Running(q) BY <1>1, OwnFacts
<1>8. audits' = [audits EXCEPT ![r] = audits[r]] BY <1>1, OwnFacts
<1> QED BY <1>1, <1>3, <1>4, <1>5, <1>6, <1>7, <1>8, OwnFacts, RoundStep

\* A step that leaves the ledger, the audits and the lock alone.
LEMMA QuietStep ==
  ASSUME CollectionIInv, NEW r \in Rounds, NEW R \in RoundState,
         round' = [round EXCEPT ![r] = R], UNCHANGED <<group, total, trend, ledger, audits, lock>>,
         Fits(R, audits[r]), \A g \in R.draft : <<g, group[g].at>> \in R.snapshot,
         Busy(R.pc) => lock = r, R.pc # "totalled"
  PROVE  CollectionIInv'
<1>1. LedgerIsHonest' /\ ledger' \in [Rounds -> [Clusters -> {"none", "running", "success", "failed"}]]
      /\ lock' \in Rounds \cup {NoRound}
  BY DEF CollectionIInv, Typed, LedgerIsHonest
<1>2. audits' = [audits EXCEPT ![r] = audits[r]] BY OwnFacts
<1> QED BY <1>1, <1>2, OwnFacts, RoundStep

LEMMA SkipStep == ASSUME CollectionIInv, NEW r \in Rounds, SkipRound(r) PROVE CollectionIInv'
<1> DEFINE R == [round[r] EXCEPT !.pc = "skipped"]
<1>1. /\ round' = [round EXCEPT ![r] = R] /\ round[r].pc = "idle"
      /\ UNCHANGED <<group, total, trend, ledger, audits, lock>>
  BY DEF SkipRound
<1>2. /\ R \in RoundState /\ R.pc = "skipped" /\ R.snapshot = round[r].snapshot
      /\ R.todo = round[r].todo /\ R.ok = round[r].ok /\ R.cluster = round[r].cluster
      /\ R.draft = round[r].draft /\ R.sums = round[r].sums
  BY OwnFacts DEF RoundState, Pcs
<1> HIDE DEF R
<1>3. Fits(R, audits[r]) BY <1>2, OwnFacts DEF Fits
<1> QED BY <1>1, <1>2, <1>3, OwnFacts, QuietStep DEF Busy

LEMMA OpenStep ==
  ASSUME CollectionIInv, NEW r \in Rounds, NEW c \in Clusters, OpenCluster(r, c)
  PROVE  CollectionIInv'
<1>1. PICK heard \in SUBSET {"attempt", "success", "failure"}, pc \in {"open", "failed"} :
         Opened(r, c, heard, pc) /\ (pc = "open" => heard = {"attempt"})
  BY DEF OpenCluster
<1> DEFINE R == [round[r] EXCEPT !.pc = pc, !.todo = round[r].todo \ {c}, !.cluster = {c}]
           A == Heard(r, c, heard)
<1>2. /\ round' = [round EXCEPT ![r] = R] /\ Audited(r, c, heard)
      /\ round[r].pc = "next" /\ c \in round[r].todo
      /\ ledger' = ledger \/ Ledgered(r, c, "running")
      /\ UNCHANGED <<group, total, trend, lock, moves>>
  <2>1. round' = [round EXCEPT ![r] = R] BY <1>1 DEF Opened
  <2>2. /\ round[r].pc = "next" /\ c \in round[r].todo
        /\ ledger' = ledger \/ Ledgered(r, c, "running")
        /\ UNCHANGED <<group, total, trend, lock, moves>>
    <3>1. ledger' = ledger \/ Ledgered(r, c, "running") BY Zenon DEF OpenCluster
    <3> QED BY <3>1 DEF OpenCluster
  <2>3. Audited(r, c, heard) BY <1>1, Zenon DEF Opened
  <2> QED BY <2>1, <2>2, <2>3
<1>3. Typed /\ LedgerIsHonest BY DEF CollectionIInv
<1>4. /\ A \in AuditTrail /\ A[c] = audits[r][c] \cup heard
      /\ \A d \in Clusters : audits[r][d] \subseteq A[d] /\ audits' = [audits EXCEPT ![r] = A]
  BY <1>2, <1>3, HeardTypes
<1>5. /\ R \in RoundState /\ R.pc = pc /\ R.snapshot = round[r].snapshot
      /\ R.todo = round[r].todo \ {c} /\ R.ok = round[r].ok /\ R.cluster = {c}
      /\ R.draft = round[r].draft /\ R.sums = round[r].sums
  BY OwnFacts DEF RoundState, Pcs
<1> HIDE DEF R, A
<1>6. Fits(round[r], A) BY <1>4, OwnFacts, FitsMonotone
<1>7. Fits(R, A) BY <1>1, <1>2, <1>4, <1>5, <1>6 DEF Fits
<1>8. Busy(round[r].pc) BY <1>2 DEF Busy
<1>9. LedgerIsHonest' /\ ledger' \in [Rounds -> [Clusters -> {"none", "running", "success", "failed"}]]
  BY <1>2, <1>3, <1>4, LedgerTypes
<1> QED BY <1>2, <1>4, <1>5, <1>7, <1>8, <1>9, OwnFacts, RoundStep

LEMMA CollectStep ==
  ASSUME CollectionIInv, NEW r \in Rounds, NEW c \in Clusters, CollectCluster(r, c)
  PROVE  CollectionIInv'
<1> DEFINE D == {g \in Groups : StillThere(r, g)
                           /\ <<g, [group[g].at EXCEPT !.cluster = c]>> \in round[r].snapshot}
           R == [round[r] EXCEPT !.pc = "updated", !.draft = D]
<1>1. /\ round' = [round EXCEPT ![r] = R] /\ round[r].pc = "open"
      /\ UNCHANGED <<group, total, trend, ledger, audits, lock>>
  BY DEF CollectCluster
<1>2. \A g \in D : <<g, group[g].at>> \in round[r].snapshot BY DEF StillThere
<1>3. D \in SUBSET Groups OBVIOUS
<1> HIDE DEF D
<1>4. /\ R \in RoundState /\ R.pc = "updated" /\ R.snapshot = round[r].snapshot
      /\ R.todo = round[r].todo /\ R.ok = round[r].ok /\ R.cluster = round[r].cluster
      /\ R.draft = D /\ R.sums = round[r].sums
  BY <1>3, OwnFacts DEF RoundState, Pcs
<1> HIDE DEF R
<1>5. Fits(R, audits[r]) BY <1>1, <1>4, OwnFacts DEF Fits
<1>6. Busy(round[r].pc) BY <1>1 DEF Busy
<1> QED BY <1>1, <1>2, <1>4, <1>5, <1>6, OwnFacts, QuietStep

LEMMA FailStep ==
  ASSUME CollectionIInv, NEW r \in Rounds, NEW c \in Clusters, FailCluster(r, c)
  PROVE  CollectionIInv'
<1> DEFINE R == [round[r] EXCEPT !.pc = "failed", !.draft = {}]
<1>1. /\ round' = [round EXCEPT ![r] = R] /\ round[r].pc \in {"open", "updated"}
      /\ UNCHANGED <<group, total, trend, ledger, audits, lock>>
  BY DEF FailCluster
<1>2. /\ R \in RoundState /\ R.pc = "failed" /\ R.snapshot = round[r].snapshot
      /\ R.todo = round[r].todo /\ R.ok = round[r].ok /\ R.cluster = round[r].cluster
      /\ R.draft = {} /\ R.sums = round[r].sums
  BY OwnFacts DEF RoundState, Pcs
<1> HIDE DEF R
<1>3. Fits(R, audits[r]) BY <1>1, <1>2, OwnFacts DEF Fits
<1>4. Busy(round[r].pc) BY <1>1 DEF Busy
<1> QED BY <1>1, <1>2, <1>3, <1>4, OwnFacts, QuietStep

\* A cluster is done, with its audits or without a monitor.
LEMMA DoneStep ==
  ASSUME CollectionIInv, NEW r \in Rounds, NEW c \in Clusters, NEW R \in RoundState,
         round' = [round EXCEPT ![r] = R], R.pc = "next", R.snapshot = round[r].snapshot,
         R.todo = round[r].todo, R.ok = round[r].ok \cup {c}, R.cluster = {},
         R.draft \subseteq round[r].draft, R.sums = round[r].sums,
         round[r].pc \in {"open", "stored"}, round[r].cluster = {c},
         c \in Unsupported \/ round[r].pc = "stored",
         ledger' = ledger \/ Ledgered(r, c, "success"),
         UNCHANGED <<group, total, trend, audits, lock>>
  PROVE  CollectionIInv'
<1>1. c \in Unsupported \/ {"attempt", "success"} \subseteq audits[r][c] BY OwnFacts DEF Fits
<1>2. Fits(R, audits[r]) BY <1>1, OwnFacts DEF Fits
<1>3. Busy(round[r].pc) BY DEF Busy
<1>4. audits' = [audits EXCEPT ![r] = audits[r]] BY OwnFacts
<1>5. LedgerIsHonest' /\ ledger' \in [Rounds -> [Clusters -> {"none", "running", "success", "failed"}]]
  BY <1>1, <1>4, OwnFacts, LedgerTypes DEF CollectionIInv
<1>6. \A g \in R.draft : <<g, group[g].at>> \in R.snapshot BY OwnFacts
<1> QED BY <1>2, <1>3, <1>4, <1>5, <1>6, OwnFacts, RoundStep

LEMMA SuccessStep ==
  ASSUME CollectionIInv, NEW r \in Rounds, NEW c \in Clusters, ReportSuccess(r, c)
  PROVE  CollectionIInv'
<1> DEFINE R == [round[r] EXCEPT !.pc = "next", !.cluster = {}, !.draft = {}, !.ok = round[r].ok \cup {c}]
<1>1. /\ round' = [round EXCEPT ![r] = R] /\ round[r].pc = "stored" /\ round[r].cluster = {c}
      /\ ledger' = ledger \/ Ledgered(r, c, "success")
      /\ UNCHANGED <<group, total, trend, audits, lock>>
  <2>1. ledger' = ledger \/ Ledgered(r, c, "success") BY Zenon DEF ReportSuccess, Completed
  <2>2. /\ round' = [round EXCEPT ![r] = R] /\ round[r].pc = "stored" /\ round[r].cluster = {c}
        /\ UNCHANGED <<group, total, trend, audits, lock>>
    BY DEF ReportSuccess, At, Reportable
  <2> QED BY <2>1, <2>2
<1>2. /\ R \in RoundState /\ R.pc = "next" /\ R.snapshot = round[r].snapshot
      /\ R.todo = round[r].todo /\ R.ok = round[r].ok \cup {c} /\ R.cluster = {}
      /\ R.draft = {} /\ R.sums = round[r].sums
  BY OwnFacts DEF RoundState, Pcs
<1> HIDE DEF R
<1> QED BY <1>1, <1>2, DoneStep

LEMMA UnsupportedStep ==
  ASSUME CollectionIInv, NEW r \in Rounds, NEW c \in Clusters, ReportUnsupported(r, c)
  PROVE  CollectionIInv'
<1> DEFINE R == [round[r] EXCEPT !.pc = "next", !.cluster = {}, !.ok = round[r].ok \cup {c}]
<1>1. /\ round' = [round EXCEPT ![r] = R] /\ round[r].pc = "open" /\ round[r].cluster = {c}
      /\ ledger' = ledger \/ Ledgered(r, c, "success")
      /\ UNCHANGED <<group, total, trend, audits, lock>> /\ c \in Unsupported
  <2>1. ledger' = ledger \/ Ledgered(r, c, "success") BY Zenon DEF ReportUnsupported, Completed
  <2>2. /\ round' = [round EXCEPT ![r] = R] /\ round[r].pc = "open" /\ round[r].cluster = {c}
        /\ UNCHANGED <<group, total, trend, audits, lock>> /\ c \in Unsupported
    BY DEF ReportUnsupported, At
  <2> QED BY <2>1, <2>2
<1>2. /\ R \in RoundState /\ R.pc = "next" /\ R.snapshot = round[r].snapshot
      /\ R.todo = round[r].todo /\ R.ok = round[r].ok \cup {c} /\ R.cluster = {}
      /\ R.draft = round[r].draft /\ R.sums = round[r].sums
  BY OwnFacts DEF RoundState, Pcs
<1> HIDE DEF R
<1> QED BY <1>1, <1>2, DoneStep

LEMMA FailureStep ==
  ASSUME CollectionIInv, NEW r \in Rounds, NEW c \in Clusters, ReportFailure(r, c)
  PROVE  CollectionIInv'
<1>1. PICK heard \in SUBSET {"attempt", "success", "failure"} : Audited(r, c, heard)
  <2>1. CASE Audited(r, c, {"failure"}) BY <2>1
  <2>2. CASE UNCHANGED audits
    <3>1. Audited(r, c, {}) BY <2>2, OwnFacts DEF Audited, AuditTrail, CollectionIInv, Typed
    <3> QED BY <3>1
  <2> QED BY <2>1, <2>2 DEF ReportFailure
<1> DEFINE R == [round[r] EXCEPT !.pc = "next", !.cluster = {}]
           A == Heard(r, c, heard)
<1>2. /\ round' = [round EXCEPT ![r] = R] /\ round[r].pc = "failed"
      /\ ledger' = ledger \/ Ledgered(r, c, "failed")
      /\ UNCHANGED <<group, total, trend, lock>>
  BY DEF ReportFailure, Completed
<1>3. Typed /\ LedgerIsHonest BY DEF CollectionIInv
<1>4. /\ A \in AuditTrail
      /\ \A d \in Clusters : audits[r][d] \subseteq A[d] /\ audits' = [audits EXCEPT ![r] = A]
  BY <1>1, <1>3, HeardTypes
<1>5. /\ R \in RoundState /\ R.pc = "next" /\ R.snapshot = round[r].snapshot
      /\ R.todo = round[r].todo /\ R.ok = round[r].ok /\ R.cluster = {}
      /\ R.draft = round[r].draft /\ R.sums = round[r].sums
  BY OwnFacts DEF RoundState, Pcs
<1> HIDE DEF R, A
<1>6. Fits(round[r], A) BY <1>4, OwnFacts, FitsMonotone
<1>7. Fits(R, A) BY <1>5, <1>6 DEF Fits
<1>8. Busy(round[r].pc) BY <1>2 DEF Busy
<1>9. LedgerIsHonest' /\ ledger' \in [Rounds -> [Clusters -> {"none", "running", "success", "failed"}]]
  BY <1>2, <1>3, <1>4, LedgerTypes
<1> QED BY <1>2, <1>4, <1>5, <1>7, <1>8, <1>9, OwnFacts, RoundStep

LEMMA SumStep == ASSUME CollectionIInv, NEW r \in Rounds, SumProjects(r) PROVE CollectionIInv'
<1> DEFINE S == {[project |-> p,
                  groups |-> {[at |-> group[g].at, reading |-> group[g].reading] : g \in Members(p)}] :
                   p \in {q \in Projects : Members(q) # {} /\ Whole(r, q)}}
           R == [round[r] EXCEPT !.pc = "summed", !.sums = S]
<1>1. /\ round' = [round EXCEPT ![r] = R] /\ round[r].pc = "next"
      /\ UNCHANGED <<group, total, trend, ledger, audits, lock>>
  BY DEF SumProjects
<1>2. \A g \in Groups : [at |-> group[g].at, reading |-> group[g].reading] \in Sum
  BY DEF CollectionIInv, Typed, GroupRow, Sum
<1>3. S \in SUBSET [project : Projects, groups : SUBSET Sum]
  <2> SUFFICES ASSUME NEW p \in Projects
               PROVE {[at |-> group[g].at, reading |-> group[g].reading] : g \in Members(p)} \in SUBSET Sum
    OBVIOUS
  <2> QED BY <1>2 DEF Members
<1>4. \A s \in S : \A x \in s.groups : x.at.cluster \in round[r].ok BY DEF Whole
<1> HIDE DEF S
<1>5. /\ R \in RoundState /\ R.pc = "summed" /\ R.snapshot = round[r].snapshot
      /\ R.todo = round[r].todo /\ R.ok = round[r].ok /\ R.cluster = round[r].cluster
      /\ R.draft = round[r].draft /\ R.sums = S
  BY <1>3, OwnFacts DEF RoundState, Pcs
<1> HIDE DEF R
<1>6. Fits(R, audits[r]) BY <1>1, <1>4, <1>5, OwnFacts DEF Fits
<1>7. Busy(round[r].pc) BY <1>1 DEF Busy
<1> QED BY <1>1, <1>5, <1>6, <1>7, OwnFacts, QuietStep

LEMMA EndStep ==
  ASSUME CollectionIInv, NEW r \in Rounds, EndRound(r) \/ KillRound(r)
  PROVE  CollectionIInv'
<1>1. PICK pc \in {"ended", "killed"} : round' = [round EXCEPT ![r] = [IdleRound EXCEPT !.pc = pc]]
  BY DEF EndRound, KillRound
<1> DEFINE R == [IdleRound EXCEPT !.pc = pc]
<1>2. /\ UNCHANGED <<group, total, trend, ledger, audits>>
      /\ lock' \in {lock, IF lock = r THEN NoRound ELSE lock}
  BY DEF EndRound, KillRound
<1>3. R \in RoundState /\ R.pc = pc /\ R.draft = {} /\ Fits(R, audits[r])
  BY OwnFacts, IdleFits DEF Pcs
<1> HIDE DEF R
<1>4. Busy(round[r].pc) BY DEF EndRound, KillRound, Busy, Running
<1>5. \A q \in Rounds \ {r} : ~Running(q) BY <1>4, OwnFacts
<1>6. ~Busy(R.pc) /\ R.pc # "totalled" BY <1>3 DEF Busy
<1>7. lock' \in Rounds \cup {NoRound} BY <1>2, OwnFacts
<1>8. LedgerIsHonest' /\ ledger' \in [Rounds -> [Clusters -> {"none", "running", "success", "failed"}]]
  BY <1>2 DEF CollectionIInv, Typed, LedgerIsHonest
<1>9. audits' = [audits EXCEPT ![r] = audits[r]] BY <1>2, OwnFacts
<1> QED BY <1>1, <1>2, <1>3, <1>5, <1>6, <1>7, <1>8, <1>9, OwnFacts, RoundStep DEF R

\* What a cluster's commit does to a group: only a group that the round updated gets a reading,
\* and the place that was measured is the one it has.
LEMMA CommittedReadings ==
  ASSUME CollectionIInv, NEW r \in Rounds, NEW c \in Clusters, CommitCluster(r, c), NEW g \in Groups
  PROVE  /\ group'[g] \in GroupRow /\ group'[g].at = group[g].at
         /\ group'[g].reading # group[g].reading => group'[g].reading.of = group[g].at
<1>1. group'[g] = IF g \in round[r].draft
                  THEN [group[g] EXCEPT !.reading = [round |-> r, of |-> Measured(r, g)]] ELSE group[g]
  BY DEF CommitCluster
<1>2. group[g] \in GroupRow /\ group[g].at \in Places BY DEF CollectionIInv, Typed, GroupRow
<1>3. ASSUME g \in round[r].draft PROVE Measured(r, g) = group[g].at
  <2>1. <<g, group[g].at>> \in round[r].snapshot BY <1>3, OwnFacts
  <2>2. \A s, t \in round[r].snapshot : s[1] = t[1] => s = t BY OwnFacts DEF Fits
  <2>3. \A s \in round[r].snapshot : s[1] = g => s = <<g, group[g].at>> BY <2>1, <2>2
  <2>4. \E s \in round[r].snapshot : s[1] = g BY <2>1
  <2> HIDE DEF CollectionIInv
  <2> QED BY <2>3, <2>4 DEF Measured
<1>4. \A m \in Places : [round |-> r, of |-> m] \in Reading BY DEF Reading
<1>5. CASE g \in round[r].draft
  <2>1. group'[g] = [group[g] EXCEPT !.reading = [round |-> r, of |-> group[g].at]]
    BY <1>1, <1>3, <1>5
  <2> QED BY <1>2, <1>4, <2>1 DEF GroupRow
<1>6. CASE g \notin round[r].draft BY <1>1, <1>2, <1>6
<1> QED BY <1>5, <1>6

LEMMA CommitStep ==
  ASSUME CollectionIInv, NEW r \in Rounds, NEW c \in Clusters, CommitCluster(r, c)
  PROVE  CollectionIInv'
<1>1. group' \in [Groups -> GroupRow] /\ \A g \in Groups : group'[g].at = group[g].at
  <2>1. group' = [g \in Groups |-> group'[g]] BY DEF CommitCluster
  <2>2. \A g \in Groups : group'[g] \in GroupRow /\ group'[g].at = group[g].at
    BY CommittedReadings
  <2> QED BY <2>1, <2>2
<1>2. /\ round[r].pc = "updated" /\ round[r].cluster = {c} /\ Audited(r, c, {"success"})
      /\ UNCHANGED <<total, trend, ledger, lock>>
  <2>1. Audited(r, c, {"success"}) BY Zenon DEF CommitCluster
  <2>2. round[r].pc = "updated" /\ round[r].cluster = {c} /\ UNCHANGED <<total, trend, ledger, lock>>
    BY DEF CommitCluster, At
  <2> QED BY <2>1, <2>2
<1> DEFINE A == Heard(r, c, {"success"})
<1>3. Typed /\ LedgerIsHonest BY DEF CollectionIInv
<1>4. /\ A \in AuditTrail /\ A[c] = audits[r][c] \cup {"success"}
      /\ \A d \in Clusters : audits[r][d] \subseteq A[d] /\ audits' = [audits EXCEPT ![r] = A]
  BY <1>2, <1>3, HeardTypes
<1> HIDE DEF A
<1>5. Fits(round[r], A) BY <1>4, OwnFacts, FitsMonotone
<1>6. Busy(round[r].pc) BY <1>2 DEF Busy
<1>7. LedgerIsHonest' /\ ledger' \in [Rounds -> [Clusters -> {"none", "running", "success", "failed"}]]
  BY <1>2, <1>3, <1>4, LedgerTypes
<1>8. CASE round' = [round EXCEPT ![r] = [@ EXCEPT !.pc = "stored", !.draft = {},
                                                  !.ok = round[r].ok \cup {c}]]
  <2> DEFINE R == [round[r] EXCEPT !.pc = "stored", !.draft = {}, !.ok = round[r].ok \cup {c}]
  <2>1. round' = [round EXCEPT ![r] = R] BY <1>8
  <2>2. /\ R \in RoundState /\ R.pc = "stored" /\ R.snapshot = round[r].snapshot
        /\ R.todo = round[r].todo /\ R.ok = round[r].ok \cup {c} /\ R.cluster = round[r].cluster
        /\ R.draft = {} /\ R.sums = round[r].sums
    BY OwnFacts DEF RoundState, Pcs
  <2> HIDE DEF R
  <2>3. Fits(R, A) BY <1>2, <1>4, <1>5, <2>2 DEF Fits
  <2> QED BY <1>1, <1>2, <1>4, <1>6, <1>7, <2>1, <2>2, <2>3, OwnFacts, ReadingStep
<1>9. CASE round' = [round EXCEPT ![r] = [@ EXCEPT !.pc = "failed", !.draft = {}]]
  <2> DEFINE R == [round[r] EXCEPT !.pc = "failed", !.draft = {}]
  <2>1. round' = [round EXCEPT ![r] = R] BY <1>9
  <2>2. /\ R \in RoundState /\ R.pc = "failed" /\ R.snapshot = round[r].snapshot
        /\ R.todo = round[r].todo /\ R.ok = round[r].ok /\ R.cluster = round[r].cluster
        /\ R.draft = {} /\ R.sums = round[r].sums
    BY OwnFacts DEF RoundState, Pcs
  <2> HIDE DEF R
  <2>3. Fits(R, A) BY <1>5, <2>2 DEF Fits
  <2> QED BY <1>1, <1>2, <1>4, <1>6, <1>7, <2>1, <2>2, <2>3, OwnFacts, ReadingStep
<1> QED BY <1>8, <1>9 DEF CommitCluster

\* What a step of r that writes no audit and no group leaves of the rounds.
LEMMA PassedOn ==
  ASSUME CollectionIInv, NEW r \in Rounds, NEW pc \in {"totalled", "written"}, Busy(round[r].pc),
         round' = [round EXCEPT ![r].pc = pc], UNCHANGED <<group, ledger, audits, lock>>
  PROVE  /\ round' \in [Rounds -> RoundState] /\ RoundsFit' /\ DraftsFit' /\ LockHeld' /\ LedgerIsHonest'
         /\ \A q \in Rounds : round'[q].pc = "totalled" => q = r /\ pc = "totalled"
         /\ Summed(r)' = Summed(r)
<1> DEFINE R == [round[r] EXCEPT !.pc = pc]
<1>1. round' = [round EXCEPT ![r] = R] OBVIOUS
<1>2. /\ R \in RoundState /\ R.pc = pc /\ R.snapshot = round[r].snapshot
      /\ R.todo = round[r].todo /\ R.ok = round[r].ok /\ R.cluster = round[r].cluster
      /\ R.draft = round[r].draft /\ R.sums = round[r].sums
  BY OwnFacts DEF RoundState, Pcs
<1> HIDE DEF R
<1>3. /\ round'[r] = R /\ \A q \in Rounds \ {r} : round'[q] = round[q]
      /\ round' \in [Rounds -> RoundState]
  BY <1>1, <1>2 DEF CollectionIInv, Typed
<1>4. Fits(R, audits[r]) BY <1>2, OwnFacts DEF Fits
<1>5. RoundsFit' BY <1>3, <1>4 DEF CollectionIInv, RoundsFit
<1>6. DraftsFit' BY <1>2, <1>3 DEF CollectionIInv, DraftsFit
<1>7. LockHeld' /\ \A q \in Rounds \ {r} : ~Running(q)
  BY <1>3, OwnFacts DEF LockHeld, Running, Busy
<1>8. LedgerIsHonest' BY DEF CollectionIInv, LedgerIsHonest
<1>9. \A q \in Rounds : round'[q].pc = "totalled" => q = r /\ pc = "totalled"
  BY <1>2, <1>3, <1>7 DEF Running
<1>10. Summed(r)' = Summed(r) BY <1>2, <1>3 DEF Summed
<1> QED BY <1>3, <1>5, <1>6, <1>7, <1>8, <1>9, <1>10

LEMMA TotalsStep == ASSUME CollectionIInv, NEW r \in Rounds, CommitTotals(r) PROVE CollectionIInv'
<1> USE DEF CollectionIInv
<1>1. /\ total' = [p \in Projects |->
             IF p \in Summed(r) THEN [round |-> r, sums |-> SumOf(r, p)] ELSE total[p]]
      /\ round' = [round EXCEPT ![r].pc = "totalled"] /\ Busy(round[r].pc)
      /\ UNCHANGED <<group, trend, ledger, audits, lock>>
  BY DEF CommitTotals, Busy
<1>2. ASSUME NEW p \in Summed(r)
      PROVE SumOf(r, p) \subseteq Sum /\ \A x \in SumOf(r, p) : x.at.cluster \in round[r].ok
  <2>1. PICK s \in round[r].sums : s.project = p BY <1>2 DEF Summed
  <2> DEFINE t == CHOOSE u \in round[r].sums : u.project = p
  <2>2. t \in round[r].sums /\ SumOf(r, p) = t.groups BY <2>1 DEF SumOf
  <2> HIDE DEF t
  <2>3. t.groups \subseteq Sum BY <2>2, OwnFacts DEF RoundState
  <2> QED BY <2>2, <2>3, OwnFacts DEF Fits
<1>3. total' \in [Projects -> [round : Rounds \cup {NoRound}, sums : SUBSET Sum]]
  BY <1>1, <1>2 DEF Typed
<1>4. /\ round' \in [Rounds -> RoundState] /\ RoundsFit' /\ DraftsFit' /\ LockHeld' /\ LedgerIsHonest'
      /\ \A q \in Rounds : round'[q].pc = "totalled" => q = r
      /\ Summed(r)' = Summed(r)
  BY <1>1, PassedOn
<1>5. Typed' BY <1>1, <1>3, <1>4 DEF Typed
<1>6. TotalsHeld'
  <2>1. \A p \in Projects \cap Summed(r) : total'[p].round = r BY <1>1
  <2>2. Summed(r) \subseteq Projects BY OwnFacts DEF Summed, RoundState
  <2> QED BY <1>4, <2>1, <2>2 DEF TotalsHeld
<1>7. TotalsHaveRounds' BY <1>1, OwnFacts DEF TotalsHaveRounds
<1>8. TotalsNeedEveryCluster'
  <2> SUFFICES ASSUME NEW p \in Projects, NEW s \in total'[p].sums, s.at.cluster \notin Unsupported
               PROVE "success" \in audits'[total'[p].round][s.at.cluster]
    BY DEF TotalsNeedEveryCluster
  <2>1. CASE p \in Summed(r)
    <3>1. total'[p].round = r /\ s \in SumOf(r, p) BY <1>1, <2>1
    <3>2. s.at.cluster \in round[r].ok BY <1>2, <2>1, <3>1
    <3> QED BY <1>1, <3>1, <3>2, OwnFacts DEF Fits
  <2>2. CASE p \notin Summed(r) BY <1>1, <2>2 DEF TotalsNeedEveryCluster
  <2> QED BY <2>1, <2>2
<1>9. TrendShowsItsRound' BY <1>1 DEF TrendShowsItsRound
<1> QED BY <1>4, <1>5, <1>6, <1>7, <1>8, <1>9

LEMMA TrendStep == ASSUME CollectionIInv, NEW r \in Rounds, WriteTrend(r) PROVE CollectionIInv'
<1> USE DEF CollectionIInv
<1>1. /\ trend' = trend \cup {[project |-> p, round |-> r, point |-> total[p]] : p \in Summed(r)}
         \/ trend' = trend
      /\ round' = [round EXCEPT ![r].pc = "written"] /\ Busy(round[r].pc) /\ round[r].pc = "totalled"
      /\ UNCHANGED <<group, total, ledger, audits, lock>>
  BY DEF WriteTrend, Busy
<1>2. /\ round' \in [Rounds -> RoundState] /\ RoundsFit' /\ DraftsFit' /\ LockHeld' /\ LedgerIsHonest'
      /\ \A q \in Rounds : round'[q].pc # "totalled"
  BY <1>1, PassedOn
<1>3. \A x \in trend' \ trend : x.project \in Projects /\ x.round = r /\ x.point.round = r
  <2>1. Summed(r) \subseteq Projects BY OwnFacts DEF Summed, RoundState
  <2>2. \A p \in Summed(r) : total[p].round = r BY <1>1 DEF TotalsHeld
  <2> QED BY <1>1, <2>1, <2>2
<1>4. Typed' BY <1>1, <1>2, <1>3 DEF Typed
<1>5. TotalsHeld' BY <1>2 DEF TotalsHeld
<1>6. TotalsHaveRounds' /\ TotalsNeedEveryCluster'
  BY <1>1 DEF TotalsHaveRounds, TotalsNeedEveryCluster
<1>7. TrendShowsItsRound' BY <1>3 DEF TrendShowsItsRound
<1> QED BY <1>2, <1>4, <1>5, <1>6, <1>7

LEMMA EditStep ==
  ASSUME CollectionIInv, NEW g \in Groups, NEW at \in Places, NEW monitored \in BOOLEAN,
         EditGroup(g, at, monitored)
  PROVE  CollectionIInv' /\ \A h \in Groups : group'[h].reading = group[h].reading
<1> USE DEF CollectionIInv
<1> DEFINE G == [group[g] EXCEPT !.at = at, !.monitored = monitored]
<1>1. /\ group' = [group EXCEPT ![g] = G] /\ \A r \in Rounds : g \notin round[r].draft
      /\ UNCHANGED <<total, trend, ledger, audits, lock, round>>
  BY DEF EditGroup
<1>2. G \in GroupRow /\ G.reading = group[g].reading BY DEF Typed, GroupRow
<1> HIDE DEF G
<1>3. /\ group' \in [Groups -> GroupRow] /\ \A h \in Groups : group'[h].reading = group[h].reading
      /\ \A h \in Groups \ {g} : group'[h] = group[h]
  BY <1>1, <1>2 DEF Typed
<1>4. Typed' BY <1>1, <1>3 DEF Typed
<1>5. DraftsFit'
  <2>1. \A r \in Rounds : round[r].draft \subseteq Groups BY DEF Typed, RoundState
  <2> QED BY <1>1, <1>3, <2>1 DEF DraftsFit
<1>6. RoundsFit' /\ LockHeld' /\ TotalsHeld' BY <1>1 DEF RoundsFit, LockHeld, Running, TotalsHeld, Summed
<1>7. TotalsHaveRounds' /\ TotalsNeedEveryCluster' /\ TrendShowsItsRound' /\ LedgerIsHonest'
  BY <1>1 DEF TotalsHaveRounds, TotalsNeedEveryCluster, TrendShowsItsRound, LedgerIsHonest
<1> QED BY <1>3, <1>4, <1>5, <1>6, <1>7

LEMMA LapseStep ==
  ASSUME CollectionIInv, ExpireLock \/ UNCHANGED collectionVars
  PROVE  CollectionIInv' /\ UNCHANGED group
<1> USE DEF CollectionIInv
<1>1. CASE ExpireLock
  <2>1. /\ lock' = NoRound /\ \A q \in Rounds : ~Running(q)
        /\ UNCHANGED <<group, total, trend, ledger, audits, round>>
    BY <1>1 DEF ExpireLock, Expirable, LockHeld
  <2>2. Typed' BY <2>1 DEF Typed
  <2>3. LockHeld' BY <2>1 DEF LockHeld, Running
  <2>4. RoundsFit' /\ DraftsFit' /\ TotalsHeld' BY <2>1 DEF RoundsFit, DraftsFit, TotalsHeld, Summed
  <2>5. TotalsHaveRounds' /\ TotalsNeedEveryCluster' /\ TrendShowsItsRound' /\ LedgerIsHonest'
    BY <2>1 DEF TotalsHaveRounds, TotalsNeedEveryCluster, TrendShowsItsRound, LedgerIsHonest
  <2> QED BY <2>1, <2>2, <2>3, <2>4, <2>5
<1>2. CASE UNCHANGED collectionVars
  BY <1>2 DEF collectionVars, Typed, RoundsFit, DraftsFit, LockHeld, Running, TotalsHeld, Summed,
              TotalsHaveRounds, TotalsNeedEveryCluster, TrendShowsItsRound, LedgerIsHonest
<1> QED BY <1>1, <1>2

ReadingsFit ==
    \A g \in Groups : group'[g].reading # group[g].reading => group'[g].reading.of = group'[g].at

LEMMA NextCollectionIInv ==
  CollectionIInv /\ [CollectionNext]_collectionVars => CollectionIInv' /\ ReadingsFit
<1> SUFFICES ASSUME CollectionIInv, [CollectionNext]_collectionVars
             PROVE  CollectionIInv' /\ ReadingsFit
  OBVIOUS
<1>1. UNCHANGED group => ReadingsFit BY DEF ReadingsFit
<1>2. ASSUME NEW r \in Rounds, NEW scope \in SUBSET Clusters, BeginRound(r, scope)
      PROVE  CollectionIInv' /\ UNCHANGED group
  <2>1. UNCHANGED group BY <1>2 DEF BeginRound
  <2> QED BY <1>2, <2>1, BeginStep
<1>3. ASSUME NEW r \in Rounds, SkipRound(r) \/ SumProjects(r) \/ CommitTotals(r)
                               \/ WriteTrend(r) \/ EndRound(r) \/ KillRound(r)
      PROVE  CollectionIInv' /\ UNCHANGED group
  <2>1. UNCHANGED group
    BY <1>3 DEF SkipRound, SumProjects, CommitTotals, WriteTrend, EndRound, KillRound
  <2> QED BY <1>3, <2>1, SkipStep, SumStep, TotalsStep, TrendStep, EndStep
<1>4. ASSUME NEW r \in Rounds, NEW c \in Clusters,
             OpenCluster(r, c) \/ CollectCluster(r, c) \/ FailCluster(r, c)
             \/ ReportSuccess(r, c) \/ ReportUnsupported(r, c) \/ ReportFailure(r, c)
      PROVE  CollectionIInv' /\ UNCHANGED group
  <2>1. UNCHANGED group
    BY <1>4 DEF OpenCluster, CollectCluster, FailCluster, ReportSuccess, ReportUnsupported, ReportFailure
  <2> QED BY <1>4, <2>1, OpenStep, CollectStep, FailStep, SuccessStep, UnsupportedStep, FailureStep
<1>5. ASSUME NEW r \in Rounds, NEW c \in Clusters, CommitCluster(r, c)
      PROVE  CollectionIInv' /\ ReadingsFit
  BY <1>5, CommitStep, CommittedReadings DEF ReadingsFit
<1>6. ASSUME NEW g \in Groups, NEW at \in Places, NEW monitored \in BOOLEAN, EditGroup(g, at, monitored)
      PROVE  CollectionIInv' /\ ReadingsFit
  BY <1>6, EditStep DEF ReadingsFit
<1>7. CASE ExpireLock \/ UNCHANGED collectionVars BY <1>1, <1>7, LapseStep
<1> QED BY <1>1, <1>2, <1>3, <1>4, <1>5, <1>6, <1>7 DEF CollectionNext

\* Rows, ledger, audits and rounds keep their types; no cluster is collected twice in a round.
THEOREM CollectionTypeCorrect == CollectionSpec => []CollectionTypeOK
<1>1. CollectionIInv => CollectionTypeOK
  <2> SUFFICES ASSUME CollectionIInv PROVE CollectionTypeOK
    OBVIOUS
  <2>1. \A r \in Rounds : /\ round[r].snapshot \subseteq Groups \X Places /\ round[r].draft \subseteq Groups
                          /\ round[r].ok \subseteq Clusters /\ round[r].todo \subseteq Clusters \ round[r].ok
                          /\ round[r].pc = "open" => \E c \in Clusters : At(r, c)
    BY OwnFacts DEF RoundState, Fits, At
  <2> QED BY <2>1 DEF CollectionIInv, Typed, CollectionTypeOK, GroupRow, AuditTrail
<1> QED BY <1>1, InitCollectionIInv, NextCollectionIInv, PTL DEF CollectionSpec

\* A project total rests on audited successes of all the clusters of its groups, for any
\* clusters, projects and rounds.
THEOREM TotalsWhole == CollectionSpec => []TotalsNeedEveryCluster
<1>1. CollectionIInv => TotalsNeedEveryCluster BY DEF CollectionIInv
<1> QED BY <1>1, InitCollectionIInv, NextCollectionIInv, PTL DEF CollectionSpec

\* A point of a trend carries the total of its own round, since the lock outlives the rounds.
THEOREM TrendsOwn == CollectionSpec => []TrendShowsItsRound
<1>1. CollectionIInv => TrendShowsItsRound BY DEF CollectionIInv
<1> QED BY <1>1, InitCollectionIInv, NextCollectionIInv, PTL DEF CollectionSpec

\* The ledger claims no success that the audit trail does not have.
THEOREM LedgerHonest == CollectionSpec => []LedgerIsHonest
<1>1. CollectionIInv => LedgerIsHonest BY DEF CollectionIInv
<1> QED BY <1>1, InitCollectionIInv, NextCollectionIInv, PTL DEF CollectionSpec

\* A group never gets a reading of a place where it no longer is.
THEOREM ReadingsOwn == CollectionSpec => ReadingsFitTheirGroup
<1>1. CollectionIInv /\ [CollectionNext]_collectionVars =>
        [\A g \in Groups : group'[g].reading # group[g].reading =>
            group'[g].reading.of = group'[g].at]_collectionVars
  BY NextCollectionIInv DEF ReadingsFit
<1> QED BY <1>1, InitCollectionIInv, NextCollectionIInv, PTL DEF CollectionSpec, ReadingsFitTheirGroup

-----------------------------------------------------------------------------
(* Capacity prediction: the invariant.                                     *)

RunState == [pc : {"idle", "forecast", "evaluate"}, todo : SUBSET Targets,
             f : SUBSET (Targets \X (0..MaxDay)), c : SUBSET (Candidates \X BusinessTargets \X (0..MaxDay)),
             candidates : SUBSET Candidates, e : SUBSET (Candidates \X Evaluation)]
RequestState == [pc : {"idle", "disable", "enable"}, candidate : Candidates \cup {NoCandidate},
                 loaded : {"absent", "no", "yes"}]

PredictionTyped ==
    /\ day \in 0..MaxDay /\ stops \in 0..MaxStops /\ broken \in BOOLEAN
    /\ enabled \in [Candidates -> {"absent", "no", "yes"}] /\ modelOn \subseteq Candidates
    /\ evaluations \in [Candidates -> SUBSET Evaluation]
    /\ forecasts \subseteq Targets \X (0..MaxDay)
    /\ curves \subseteq Candidates \X BusinessTargets \X (0..MaxDay)
    /\ run \in RunState
    /\ admin \in [Admins -> RequestState]
    /\ rowsHeld \in [Candidates -> Admins \cup {NoCandidate}]

\* The forecasts that a run R has flushed are those of the targets it is through with, on the
\* day on which it began.
FlushedFits(R) ==
    /\ \A t \in Targets : R.pc # "idle" => (<<t, day>> \in R.f <=> t \notin R.todo)
    /\ \A x \in R.f : x[2] = day
    /\ R.pc = "idle" => R.f = {}
    /\ R.pc = "evaluate" => R.todo = {}

\* What it has judged is judged nowhere else.
JudgedFits(R) ==
    /\ R.pc # "evaluate" => R.e = {} /\ R.candidates = {}
    /\ \A p \in R.e : p[1] \notin R.candidates /\ \A x \in evaluations[p[1]] : x.end # p[2].end
    /\ \A p, q \in R.e : p[1] = q[1] /\ p[2].end = q[2].end => p = q

\* A request that has disabled the candidates holds the rows of its own and of the active one,
\* and no other request does.
HoldersFit ==
    /\ \A a \in Admins : /\ admin[a].pc # "idle" => /\ admin[a].candidate \in Candidates
                                                    /\ enabled[admin[a].candidate] # "absent"
                         /\ admin[a].pc = "enable" => /\ rowsHeld[admin[a].candidate] = a
                                                      /\ \A c \in Active : rowsHeld[c] = a
    /\ \A a, b \in Admins : admin[a].pc = "enable" /\ admin[b].pc = "enable" => a = b
    /\ \A c \in Candidates : rowsHeld[c] # NoCandidate => enabled[c] # "absent"
OneActive == \A c, d \in Active : c = d

DayIsWhole(d) == \/ \A t \in Targets : <<t, d>> \notin forecasts
                 \/ \A t \in Targets : <<t, d>> \in forecasts
DaysFit == \A d \in 0..MaxDay : DayIsWhole(d)

PredictionIInv ==
    PredictionTyped /\ FlushedFits(run) /\ JudgedFits(run) /\ HoldersFit /\ OneActive /\ DaysFit /\ JudgedOnce

LEMMA NoRunFits == /\ NoRun \in RunState /\ FlushedFits(NoRun) /\ JudgedFits(NoRun)
                   /\ FlushedFits(NoRun)' /\ JudgedFits(NoRun)'
  BY DEF NoRun, RunState, FlushedFits, JudgedFits

LEMMA InitPredictionIInv == PredictionInit => PredictionIInv
<1> SUFFICES ASSUME PredictionInit PROVE PredictionIInv
  OBVIOUS
<1>1. PredictionTyped
  <2>1. day \in 0..MaxDay /\ stops \in 0..MaxStops /\ broken \in BOOLEAN
    <3>1. day = 0 /\ stops = 0 /\ broken = FALSE BY DEF PredictionInit
    <3>2. MaxDay \in Nat /\ MaxStops \in Nat BY PredictionAssumption
    <3>3. 0 \in 0..MaxDay /\ 0 \in 0..MaxStops BY <3>2
    <3>4. broken \in BOOLEAN BY <3>1
    <3> QED BY <3>1, <3>3, <3>4, Zenon
  <2>2. admin \in [Admins -> RequestState] BY DEF PredictionInit, NoRequest, RequestState
  <2>3. /\ enabled \in [Candidates -> {"absent", "no", "yes"}] /\ modelOn \subseteq Candidates
        /\ evaluations \in [Candidates -> SUBSET Evaluation]
        /\ rowsHeld \in [Candidates -> Admins \cup {NoCandidate}]
    BY DEF PredictionInit, NoneHeld
  <2> QED BY <2>1, <2>2, <2>3, NoRunFits DEF PredictionInit, PredictionTyped
<1>2. HoldersFit /\ OneActive /\ DaysFit /\ JudgedOnce
  BY PredictionAssumption
  DEF PredictionInit, HoldersFit, OneActive, Active, DaysFit, DayIsWhole, JudgedOnce, NoRequest, NoneHeld
<1>3. FlushedFits(run) /\ JudgedFits(run)
  BY NoRunFits DEF PredictionInit
<1> QED BY <1>1, <1>2, <1>3 DEF PredictionIInv

\* The daily task leaves governance alone, and the other way round.
LEMMA HoldersStay ==
  ASSUME HoldersFit, OneActive, UNCHANGED <<enabled, admin, rowsHeld>>
  PROVE  HoldersFit' /\ OneActive'
  BY DEF HoldersFit, OneActive, Active
LEMMA RunStays ==
  ASSUME FlushedFits(run), JudgedFits(run), DaysFit, JudgedOnce,
         UNCHANGED <<day, evaluations, forecasts, run>>
  PROVE  FlushedFits(run)' /\ JudgedFits(run)' /\ DaysFit' /\ JudgedOnce'
  BY DEF FlushedFits, JudgedFits, DaysFit, DayIsWhole, JudgedOnce

-----------------------------------------------------------------------------
(* The daily task.                                                         *)

LEMMA StartStep ==
  ASSUME PredictionIInv, StartRun PROVE PredictionIInv'
<1> DEFINE R == [NoRun EXCEPT !.pc = "forecast", !.todo = Targets]
<1>1. /\ R \in RunState /\ R.pc = "forecast" /\ R.todo = Targets /\ R.f = {} /\ R.e = {}
      /\ R.candidates = {}
  BY DEF NoRun, RunState
<1> HIDE DEF R
<1>2. run' = R /\ UNCHANGED <<day, enabled, modelOn, evaluations, forecasts, curves, admin, rowsHeld, stops, broken>>
  BY DEF StartRun, R
<1>3. PredictionTyped' BY <1>1, <1>2 DEF PredictionIInv, PredictionTyped
<1>4. FlushedFits(run)' /\ JudgedFits(run)'
  BY <1>1, <1>2 DEF FlushedFits, JudgedFits
<1>5. DaysFit' /\ JudgedOnce' BY <1>2 DEF PredictionIInv, DaysFit, DayIsWhole, JudgedOnce
<1> QED BY <1>2, <1>3, <1>4, <1>5, HoldersStay DEF PredictionIInv

LEMMA ForecastStep ==
  ASSUME PredictionIInv, NEW t \in Targets, ForecastTarget(t) PROVE PredictionIInv'
<1>1. /\ run.pc = "forecast" /\ t \in run.todo
      /\ run' = [run EXCEPT !.todo = @ \ {t}, !.f = @ \cup {<<t, day>>}, !.c = @ \cup Curves(t)]
      /\ UNCHANGED <<day, enabled, modelOn, evaluations, forecasts, curves, admin, rowsHeld, stops, broken>>
  BY DEF ForecastTarget
<1>2. run \in RunState /\ day \in 0..MaxDay BY DEF PredictionIInv, PredictionTyped
<1>3. Curves(t) \subseteq Candidates \X BusinessTargets \X (0..MaxDay)
  BY <1>2 DEF Curves, Active
<1>4. /\ run' \in RunState /\ run'.pc = "forecast" /\ run'.todo = run.todo \ {t}
      /\ run'.f = run.f \cup {<<t, day>>} /\ run'.e = run.e /\ run'.candidates = run.candidates
  <2>1. {<<t, day>>} \subseteq Targets \X (0..MaxDay) BY <1>2
  <2>2. /\ run.f \cup {<<t, day>>} \subseteq Targets \X (0..MaxDay)
        /\ run.c \cup Curves(t) \subseteq Candidates \X BusinessTargets \X (0..MaxDay)
        /\ run.todo \ {t} \subseteq Targets
    BY <1>2, <1>3, <2>1 DEF RunState
  <2>3. run' = [run EXCEPT !.todo = run.todo \ {t}, !.f = run.f \cup {<<t, day>>},
                           !.c = run.c \cup Curves(t)]
    BY <1>1
  <2>4. run' \in RunState BY <1>2, <2>2, <2>3 DEF RunState
  <2>5. /\ run'.pc = run.pc /\ run'.todo = run.todo \ {t} /\ run'.f = run.f \cup {<<t, day>>}
        /\ run'.e = run.e /\ run'.candidates = run.candidates
    BY <1>2, <2>3 DEF RunState
  <2> QED BY <1>1, <2>4, <2>5
<1>5. PredictionTyped' BY <1>1, <1>4 DEF PredictionIInv, PredictionTyped
<1>6. FlushedFits(run)' BY <1>1, <1>4 DEF PredictionIInv, FlushedFits
<1>7. JudgedFits(run)' BY <1>1, <1>4 DEF PredictionIInv, JudgedFits
<1>8. DaysFit' /\ JudgedOnce' BY <1>1 DEF PredictionIInv, DaysFit, DayIsWhole, JudgedOnce
<1> QED BY <1>1, <1>5, <1>6, <1>7, <1>8, HoldersStay DEF PredictionIInv

LEMMA ListStep ==
  ASSUME PredictionIInv, ListCandidates PROVE PredictionIInv'
<1>1. /\ run.pc = "forecast" /\ run.todo = {}
      /\ run' = [run EXCEPT !.pc = "evaluate", !.candidates = {c \in modelOn : enabled[c] = "no"}]
      /\ UNCHANGED <<day, enabled, modelOn, evaluations, forecasts, curves, admin, rowsHeld, stops, broken>>
  BY DEF ListCandidates
<1>2. run \in RunState /\ modelOn \subseteq Candidates BY DEF PredictionIInv, PredictionTyped
<1>3. /\ run' \in RunState /\ run'.pc = "evaluate" /\ run'.todo = run.todo
      /\ run'.f = run.f /\ run'.e = run.e
  BY <1>1, <1>2 DEF RunState
<1>4. PredictionTyped' BY <1>1, <1>3 DEF PredictionIInv, PredictionTyped
<1>5. FlushedFits(run)' BY <1>1, <1>3 DEF PredictionIInv, FlushedFits
<1>6. JudgedFits(run)' BY <1>1, <1>3 DEF PredictionIInv, JudgedFits
<1>7. DaysFit' /\ JudgedOnce' BY <1>1 DEF PredictionIInv, DaysFit, DayIsWhole, JudgedOnce
<1> QED BY <1>1, <1>4, <1>5, <1>6, <1>7, HoldersStay DEF PredictionIInv

LEMMA JudgeStep ==
  ASSUME PredictionIInv, NEW c \in Candidates, EvaluateCandidate(c) PROVE PredictionIInv'
<1>1. PICK results \in [NewWindows(c) -> BOOLEAN] :
        run' = [run EXCEPT !.candidates = @ \ {c},
                           !.e = @ \cup {<<c, [end |-> w, good |-> results[w]]>> : w \in NewWindows(c)}]
  BY DEF EvaluateCandidate
<1>2. /\ run.pc = "evaluate" /\ c \in run.candidates
      /\ UNCHANGED <<day, enabled, modelOn, evaluations, forecasts, curves, admin, rowsHeld, stops, broken>>
  BY DEF EvaluateCandidate
<1>3. run \in RunState /\ day \in 0..MaxDay BY DEF PredictionIInv, PredictionTyped
<1> DEFINE new == {<<c, [end |-> w, good |-> results[w]]>> : w \in NewWindows(c)}
<1>4. NewWindows(c) \subseteq 0..MaxDay
  <2> SUFFICES ASSUME NEW w \in NewWindows(c) PROVE w \in 0..MaxDay
    OBVIOUS
  <2>1. w \in {day - i * WindowDays : i \in 0..2} /\ w \in Nat
    BY DEF NewWindows, WindowEnds
  <2>2. PICK i \in 0..2 : w = day - i * WindowDays BY <2>1
  <2>3. i = 0 \/ i = 1 \/ i = 2 BY <2>2
  <2>4. w <= day BY <1>3, <2>2, <2>3, PredictionAssumption
  <2> QED BY <1>3, <2>1, <2>4, PredictionAssumption
<1>5. \A p \in new : \E w \in NewWindows(c) : p = <<c, [end |-> w, good |-> results[w]]>>
  OBVIOUS
<1>6. /\ new \subseteq Candidates \X Evaluation
      /\ \A p \in new : p[1] = c /\ \A x \in evaluations[c] : x.end # p[2].end
      /\ \A p, q \in new : p[2].end = q[2].end => p = q
  <2>1. \A w \in NewWindows(c) : [end |-> w, good |-> results[w]] \in Evaluation
    BY <1>1, <1>4 DEF Evaluation
  <2>2. \A w \in NewWindows(c) : \A x \in evaluations[c] : x.end # w
    BY DEF NewWindows
  <2> QED BY <1>5, <2>1, <2>2
<1> HIDE DEF new
<1>7. /\ run' \in RunState /\ run'.pc = "evaluate" /\ run'.todo = run.todo /\ run'.f = run.f
      /\ run'.e = run.e \cup new /\ run'.candidates = run.candidates \ {c}
  BY <1>1, <1>2, <1>3, <1>6 DEF RunState, new
<1>8. PredictionTyped' BY <1>2, <1>7 DEF PredictionIInv, PredictionTyped
<1>9. FlushedFits(run)' BY <1>2, <1>7 DEF PredictionIInv, FlushedFits
<1>10. JudgedFits(run)'
  <2>1. \A p \in run.e : p[1] # c BY <1>2 DEF PredictionIInv, JudgedFits
  <2>2. \A p \in run'.e : p[1] \notin run'.candidates /\ \A x \in evaluations[p[1]] : x.end # p[2].end
    BY <1>6, <1>7 DEF PredictionIInv, JudgedFits
  <2>3. \A p, q \in run'.e : p[1] = q[1] /\ p[2].end = q[2].end => p = q
    BY <1>6, <1>7, <2>1 DEF PredictionIInv, JudgedFits
  <2> QED BY <1>2, <1>7, <2>2, <2>3 DEF JudgedFits
<1>11. DaysFit' /\ JudgedOnce' BY <1>2 DEF PredictionIInv, DaysFit, DayIsWhole, JudgedOnce
<1> QED BY <1>2, <1>8, <1>9, <1>10, <1>11, HoldersStay DEF PredictionIInv

LEMMA CommitRunStep ==
  ASSUME PredictionIInv, CommitRun PROVE PredictionIInv'
<1>1. /\ run.pc = "evaluate"
      /\ forecasts' = forecasts \cup run.f /\ curves' = curves \cup run.c
      /\ evaluations' = [c \in Candidates |-> evaluations[c] \cup {p[2] : p \in {q \in run.e : q[1] = c}}]
      /\ run' = NoRun /\ UNCHANGED <<day, enabled, modelOn, admin, rowsHeld, stops, broken>>
  BY DEF CommitRun
<1>2. run \in RunState /\ day \in 0..MaxDay BY DEF PredictionIInv, PredictionTyped
<1>3. ASSUME NEW c \in Candidates, NEW x \in evaluations'[c]
      PROVE  x \in evaluations[c] \/ (<<c, x>> \in run.e /\ x \in Evaluation)
  <2>1. \A p \in run.e : p = <<p[1], p[2]>> /\ p[2] \in Evaluation BY <1>2 DEF RunState
  <2>2. x \in evaluations[c] \/ \E p \in run.e : p[1] = c /\ p[2] = x BY <1>1
  <2> QED BY <2>1, <2>2
<1>4. PredictionTyped'
  <2>1. evaluations' \in [Candidates -> SUBSET Evaluation]
    BY <1>1, <1>3 DEF PredictionIInv, PredictionTyped
  <2>2. forecasts' \subseteq Targets \X (0..MaxDay)
    BY <1>1, <1>2 DEF PredictionIInv, PredictionTyped, RunState
  <2>3. curves' \subseteq Candidates \X BusinessTargets \X (0..MaxDay)
    BY <1>1, <1>2 DEF PredictionIInv, PredictionTyped, RunState
  <2> QED BY <1>1, <2>1, <2>2, <2>3, NoRunFits DEF PredictionIInv, PredictionTyped
<1>5. FlushedFits(run)' /\ JudgedFits(run)'
  BY <1>1, NoRunFits DEF FlushedFits, JudgedFits
<1>6. DaysFit'
  <2> SUFFICES ASSUME NEW d \in 0..MaxDay PROVE DayIsWhole(d)'
    BY <1>1 DEF DaysFit
  <2>1. CASE d = day
    BY <1>1, <2>1 DEF PredictionIInv, FlushedFits, DayIsWhole
  <2>2. CASE d # day
    <3>1. \A t \in Targets : <<t, d>> \in forecasts' <=> <<t, d>> \in forecasts
      BY <1>1, <2>2 DEF PredictionIInv, FlushedFits
    <3> QED BY <3>1 DEF PredictionIInv, DaysFit, DayIsWhole
  <2> QED BY <2>1, <2>2
<1>7. JudgedOnce'
  <2> SUFFICES ASSUME NEW c \in Candidates, NEW x \in evaluations'[c], NEW y \in evaluations'[c],
                      x.end = y.end
               PROVE  x = y
    BY DEF JudgedOnce
  <2>1. CASE x \in evaluations[c] /\ y \in evaluations[c]
    BY <2>1 DEF PredictionIInv, JudgedOnce
  <2>2. \A z \in evaluations[c] : \A w \in Evaluation : <<c, w>> \in run.e => z.end # w.end
    BY DEF PredictionIInv, JudgedFits
  <2>3. CASE <<c, x>> \in run.e /\ <<c, y>> \in run.e
    BY <2>3 DEF PredictionIInv, JudgedFits
  <2> QED BY <1>3, <2>1, <2>2, <2>3
<1> QED BY <1>1, <1>4, <1>5, <1>6, <1>7, HoldersStay DEF PredictionIInv

LEMMA DropStep ==
  ASSUME PredictionIInv, BreakRun \/ StopRun PROVE PredictionIInv'
<1>1. /\ run' = NoRun
      /\ UNCHANGED <<day, enabled, modelOn, evaluations, forecasts, curves, admin, rowsHeld>>
      /\ stops' \in 0..MaxStops /\ broken' \in BOOLEAN
  <2>1. CASE BreakRun BY <2>1 DEF BreakRun, PredictionIInv, PredictionTyped
  <2>2. CASE StopRun BY <2>2, PredictionAssumption DEF StopRun, PredictionIInv, PredictionTyped
  <2> QED BY <2>1, <2>2
<1>2. PredictionTyped' BY <1>1, NoRunFits DEF PredictionIInv, PredictionTyped
<1>3. FlushedFits(run)' /\ JudgedFits(run)' BY <1>1, NoRunFits DEF FlushedFits, JudgedFits
<1>4. DaysFit' /\ JudgedOnce' BY <1>1 DEF PredictionIInv, DaysFit, DayIsWhole, JudgedOnce
<1> QED BY <1>1, <1>2, <1>3, <1>4, HoldersStay DEF PredictionIInv

LEMMA DayStep ==
  ASSUME PredictionIInv, NextDay PROVE PredictionIInv'
<1>1. /\ day < MaxDay /\ day' = day + 1 /\ run.pc = "idle"
      /\ UNCHANGED <<enabled, modelOn, evaluations, forecasts, curves, run, admin, rowsHeld, stops, broken>>
  BY DEF NextDay
<1>2. PredictionTyped' BY <1>1, PredictionAssumption DEF PredictionIInv, PredictionTyped
<1>3. FlushedFits(run)' /\ JudgedFits(run)' BY <1>1 DEF PredictionIInv, FlushedFits, JudgedFits
<1>4. DaysFit' /\ JudgedOnce' BY <1>1 DEF PredictionIInv, DaysFit, DayIsWhole, JudgedOnce
<1> QED BY <1>1, <1>2, <1>3, <1>4, HoldersStay DEF PredictionIInv

-----------------------------------------------------------------------------
(* Governance.                                                             *)

LEMMA CandidateStep ==
  ASSUME PredictionIInv, NEW c \in Candidates, CreateCandidate(c) \/ SwitchModel(c) PROVE PredictionIInv'
<1>1. CASE CreateCandidate(c)
  <2>1. /\ enabled[c] = "absent" /\ enabled' = [enabled EXCEPT ![c] = "no"]
        /\ UNCHANGED <<day, modelOn, evaluations, forecasts, curves, run, admin, rowsHeld, stops, broken>>
    BY <1>1 DEF CreateCandidate
  <2>2. PredictionTyped' BY <2>1 DEF PredictionIInv, PredictionTyped
  <2>3. \A d \in Candidates : enabled'[d] = IF d = c THEN "no" ELSE enabled[d]
    BY <2>1 DEF PredictionIInv, PredictionTyped
  <2>4. Active' = Active BY <2>1, <2>3 DEF Active
  <2>5. HoldersFit' BY <2>1, <2>3, <2>4 DEF PredictionIInv, HoldersFit
  <2>6. OneActive' BY <2>4 DEF PredictionIInv, OneActive
  <2> QED BY <2>1, <2>2, <2>5, <2>6, RunStays DEF PredictionIInv
<1>2. CASE SwitchModel(c)
  <2>1. /\ modelOn' \subseteq Candidates
        /\ UNCHANGED <<day, enabled, evaluations, forecasts, curves, run, admin, rowsHeld, stops, broken>>
    BY <1>2 DEF SwitchModel, PredictionIInv, PredictionTyped
  <2>2. PredictionTyped' BY <2>1 DEF PredictionIInv, PredictionTyped
  <2> QED BY <2>1, <2>2, RunStays, HoldersStay DEF PredictionIInv
<1> QED BY <1>1, <1>2

LEMMA RequestStep ==
  ASSUME PredictionIInv, NEW a \in Admins, NEW c \in Candidates, RequestActivation(a, c)
  PROVE  PredictionIInv'
<1>1. /\ admin[a].pc = "idle" /\ enabled[c] # "absent"
      /\ admin' = [admin EXCEPT ![a] = [pc |-> "disable", candidate |-> c, loaded |-> enabled[c]]]
      /\ UNCHANGED <<day, enabled, modelOn, evaluations, forecasts, curves, run, rowsHeld, stops, broken>>
  BY DEF RequestActivation
<1>2. [pc |-> "disable", candidate |-> c, loaded |-> enabled[c]] \in RequestState
  BY DEF RequestState, PredictionIInv, PredictionTyped
<1>3. PredictionTyped' BY <1>1, <1>2 DEF PredictionIInv, PredictionTyped
<1>4. \A b \in Admins : admin'[b] = IF b = a THEN [pc |-> "disable", candidate |-> c, loaded |-> enabled[c]]
                                    ELSE admin[b]
  BY <1>1 DEF PredictionIInv, PredictionTyped
<1>5. HoldersFit' /\ OneActive'
  BY <1>1, <1>4 DEF PredictionIInv, HoldersFit, OneActive, Active
<1> QED BY <1>1, <1>3, <1>5, RunStays DEF PredictionIInv

LEMMA DisableStep ==
  ASSUME PredictionIInv, NEW a \in Admins, DisableCandidates(a)
  PROVE  PredictionIInv'
<1>1. /\ admin[a].pc = "disable" /\ \A c \in Rows : rowsHeld[c] = NoCandidate
      /\ rowsHeld' = [c \in Candidates |-> IF c \in Rows THEN a ELSE rowsHeld[c]]
      /\ admin' = [admin EXCEPT ![a].pc = "enable"]
      /\ UNCHANGED <<day, enabled, modelOn, evaluations, forecasts, curves, run, stops, broken>>
  BY DEF DisableCandidates
<1>2. \A b \in Admins : /\ admin'[b] \in RequestState /\ admin'[b].candidate = admin[b].candidate
                        /\ admin'[b].pc = IF b = a THEN "enable" ELSE admin[b].pc
  BY <1>1 DEF PredictionIInv, PredictionTyped, RequestState
<1>3. PredictionTyped'
  <2>1. admin' \in [Admins -> RequestState] BY <1>1, <1>2 DEF PredictionIInv, PredictionTyped
  <2> QED BY <1>1, <2>1 DEF PredictionIInv, PredictionTyped
<1>4. \A b \in Admins : admin[b].pc # "idle" => admin[b].candidate \in Rows
  BY DEF PredictionIInv, HoldersFit, Rows
<1>5. \A b \in Admins : admin[b].pc # "enable"
  <2> SUFFICES ASSUME NEW b \in Admins, admin[b].pc = "enable" PROVE FALSE
    OBVIOUS
  <2> QED BY <1>1, <1>4, PredictionAssumption DEF PredictionIInv, HoldersFit
<1>6. Active \subseteq Rows BY DEF Active, Rows
<1>7. HoldersFit' /\ OneActive'
  <2>1. Active' = Active /\ Rows' = Rows BY <1>1 DEF Active, Rows
  <2>2. \A c \in Rows : c \in Candidates /\ rowsHeld'[c] = a BY <1>1 DEF Rows
  <2>3. \A b \in Admins : /\ admin'[b].pc # "idle" => /\ admin'[b].candidate \in Candidates
                                                      /\ enabled'[admin'[b].candidate] # "absent"
                          /\ admin'[b].pc = "enable" => /\ rowsHeld'[admin'[b].candidate] = b
                                                        /\ \A c \in Active' : rowsHeld'[c] = b
    BY <1>1, <1>2, <1>4, <1>5, <1>6, <2>1, <2>2 DEF PredictionIInv, HoldersFit
  <2>4. \A c \in Candidates : rowsHeld'[c] # NoCandidate => enabled'[c] # "absent"
    BY <1>1 DEF PredictionIInv, HoldersFit, Rows
  <2>5. \A b, d \in Admins : admin'[b].pc = "enable" /\ admin'[d].pc = "enable" => b = d
    BY <1>2, <1>5
  <2>6. HoldersFit' BY <2>3, <2>4, <2>5 DEF HoldersFit
  <2> QED BY <2>1, <2>6 DEF OneActive, PredictionIInv
<1> QED BY <1>1, <1>3, <1>7, RunStays DEF PredictionIInv

\* After an activation its candidate is the only active one.
LEMMA CommitActivationStep ==
  ASSUME PredictionIInv, NEW a \in Admins, CommitActivation(a)
  PROVE  PredictionIInv' /\ Active' = {admin[a].candidate}
<1> DEFINE c == admin[a].candidate
<1>1. /\ admin[a].pc = "enable" /\ rowsHeld' = RowsFreed(a)
      /\ enabled' = [x \in Candidates |-> IF x = c THEN "yes" ELSE IF rowsHeld[x] = a THEN "no" ELSE enabled[x]]
      /\ admin' = [admin EXCEPT ![a] = NoRequest]
      /\ UNCHANGED <<day, modelOn, evaluations, forecasts, curves, run, stops, broken>>
  BY DEF CommitActivation, IsWritten
<1>2. c \in Candidates /\ enabled[c] # "absent" /\ \A d \in Active : rowsHeld[d] = a
  BY <1>1 DEF PredictionIInv, HoldersFit
<1>3. Active' = {c} BY <1>1, <1>2 DEF Active
<1>4. NoRequest \in RequestState /\ NoRequest.pc = "idle" BY DEF NoRequest, RequestState
<1>5. \A b \in Admins : admin'[b] = IF b = a THEN NoRequest ELSE admin[b]
  BY <1>1 DEF PredictionIInv, PredictionTyped
<1>6. \A x \in Candidates : rowsHeld'[x] = IF rowsHeld[x] = a THEN NoCandidate ELSE rowsHeld[x]
  BY <1>1 DEF RowsFreed
<1>7. PredictionTyped'
  <2>1. admin' \in [Admins -> RequestState] BY <1>1, <1>4 DEF PredictionIInv, PredictionTyped
  <2>2. enabled' \in [Candidates -> {"absent", "no", "yes"}] BY <1>1 DEF PredictionIInv, PredictionTyped
  <2>3. rowsHeld' \in [Candidates -> Admins \cup {NoCandidate}]
    BY <1>1 DEF PredictionIInv, PredictionTyped, RowsFreed
  <2> QED BY <1>1, <2>1, <2>2, <2>3 DEF PredictionIInv, PredictionTyped
<1>8. \A b \in Admins : b # a => admin[b].pc # "enable"
  BY <1>1 DEF PredictionIInv, HoldersFit
<1>9. HoldersFit'
  <2>1. \A b \in Admins : admin'[b].pc # "enable" BY <1>4, <1>5, <1>8
  <2>2. \A x \in Candidates : enabled[x] # "absent" => enabled'[x] # "absent" BY <1>1
  <2>3. \A b \in Admins : admin'[b].pc # "idle" => admin'[b].candidate \in Candidates /\ enabled'[admin'[b].candidate] # "absent"
    BY <1>4, <1>5, <2>2 DEF PredictionIInv, HoldersFit
  <2>4. \A x \in Candidates : rowsHeld'[x] # NoCandidate => enabled'[x] # "absent"
    BY <1>6, <2>2 DEF PredictionIInv, HoldersFit
  <2> QED BY <2>1, <2>3, <2>4 DEF HoldersFit
<1>10. OneActive' BY <1>3 DEF OneActive
<1> QED BY <1>1, <1>3, <1>7, <1>9, <1>10, RunStays DEF PredictionIInv

LEMMA AbortActivationStep ==
  ASSUME PredictionIInv, NEW a \in Admins, AbortActivation(a)
  PROVE  PredictionIInv'
<1>1. /\ rowsHeld' = RowsFreed(a) /\ admin' = [admin EXCEPT ![a] = NoRequest]
      /\ UNCHANGED <<day, enabled, modelOn, evaluations, forecasts, curves, run, stops, broken>>
  BY DEF AbortActivation
<1>2. NoRequest \in RequestState /\ NoRequest.pc = "idle" BY DEF NoRequest, RequestState
<1>3. \A b \in Admins : admin'[b] = IF b = a THEN NoRequest ELSE admin[b]
  BY <1>1 DEF PredictionIInv, PredictionTyped
<1>4. \A x \in Candidates : rowsHeld'[x] = IF rowsHeld[x] = a THEN NoCandidate ELSE rowsHeld[x]
  BY <1>1 DEF RowsFreed
<1>5. PredictionTyped'
  BY <1>1, <1>2 DEF PredictionIInv, PredictionTyped, RowsFreed
<1>6. Active' = Active BY <1>1 DEF Active
<1>7. HoldersFit' /\ OneActive'
  <2>1. \A b \in Admins : /\ admin'[b].pc # "idle" => /\ admin'[b].candidate \in Candidates
                                                      /\ enabled'[admin'[b].candidate] # "absent"
                          /\ admin'[b].pc = "enable" => /\ rowsHeld'[admin'[b].candidate] = b
                                                        /\ \A c \in Active' : rowsHeld'[c] = b
    BY <1>1, <1>2, <1>3, <1>4, <1>6 DEF PredictionIInv, HoldersFit, Active
  <2>2. \A x \in Candidates : rowsHeld'[x] # NoCandidate => enabled'[x] # "absent"
    BY <1>1, <1>4 DEF PredictionIInv, HoldersFit
  <2>3. \A b, d \in Admins : admin'[b].pc = "enable" /\ admin'[d].pc = "enable" => b = d
    BY <1>2, <1>3 DEF PredictionIInv, HoldersFit
  <2>4. HoldersFit' BY <2>1, <2>2, <2>3 DEF HoldersFit
  <2> QED BY <1>6, <2>4 DEF OneActive, PredictionIInv
<1> QED BY <1>1, <1>5, <1>7, RunStays DEF PredictionIInv

LEMMA NextPredictionIInv == PredictionIInv /\ [PredictionNext]_predictionVars => PredictionIInv'
<1> SUFFICES ASSUME PredictionIInv, [PredictionNext]_predictionVars PROVE PredictionIInv'
  OBVIOUS
<1>1. CASE UNCHANGED predictionVars
  <2>1. UNCHANGED <<day, enabled, modelOn, evaluations, forecasts, curves, run, admin, rowsHeld, stops, broken>>
    BY <1>1 DEF predictionVars
  <2>2. PredictionTyped' BY <2>1 DEF PredictionIInv, PredictionTyped
  <2> QED BY <2>1, <2>2, RunStays, HoldersStay DEF PredictionIInv
<1> QED BY <1>1, StartStep, ForecastStep, ListStep, JudgeStep, CommitRunStep, DropStep, DayStep,
           CandidateStep, RequestStep, DisableStep, CommitActivationStep, AbortActivationStep
        DEF PredictionNext

-----------------------------------------------------------------------------
\* Days, windows, candidates, drafts and locks keep their types.
THEOREM PredictionTypeCorrect == PredictionSpec => []PredictionTypeOK
<1>1. PredictionIInv => PredictionTypeOK
  BY DEF PredictionIInv, PredictionTyped, PredictionTypeOK, RunState
<1> QED BY <1>1, InitPredictionIInv, NextPredictionIInv, PTL DEF PredictionSpec

\* No holdout window of a candidate is judged twice, for any windows, candidates and runs.
THEOREM WindowsJudgedOnce == PredictionSpec => []JudgedOnce
<1>1. PredictionIInv => JudgedOnce BY DEF PredictionIInv
<1> QED BY <1>1, InitPredictionIInv, NextPredictionIInv, PTL DEF PredictionSpec

\* A day has the forecasts of all targets or none.
THEOREM DaysWhole == PredictionSpec => []DaysAreComplete
<1>1. PredictionIInv => DaysAreComplete
  <2> SUFFICES ASSUME PredictionIInv, NEW d \in 0..MaxDay
               PROVE  {t \in Targets : <<t, d>> \in forecasts} \in {{}, Targets}
    BY DEF DaysAreComplete
  <2>1. DayIsWhole(d) BY DEF PredictionIInv, DaysFit
  <2> QED BY <2>1 DEF DayIsWhole
<1> QED BY <1>1, InitPredictionIInv, NextPredictionIInv, PTL DEF PredictionSpec

\* At most one candidate is active, and one stays so from the first activation on, for any
\* number of administrators.
THEOREM OneSucceeds == PredictionSpec => OneTakesOver
<1>1. PredictionIInv => Cardinality(Active) <= 1
  <2> SUFFICES ASSUME PredictionIInv PROVE Cardinality(Active) <= 1
    OBVIOUS
  <2>1. CASE Active = {}
    BY <2>1, FS_EmptySet
  <2>2. CASE Active # {}
    <3>1. PICK c \in Active : TRUE BY <2>2
    <3>2. Active = {c} BY <3>1 DEF PredictionIInv, OneActive
    <3> QED BY <3>2, FS_Singleton
  <2> QED BY <2>1, <2>2
<1>2. PredictionIInv /\ [PredictionNext]_predictionVars => (Active # {} => Active' # {})
  <2> SUFFICES ASSUME PredictionIInv, [PredictionNext]_predictionVars, Active # {} PROVE Active' # {}
    OBVIOUS
  <2>1. CASE enabled' = enabled BY <2>1 DEF Active
  <2>2. ASSUME NEW c \in Candidates, CreateCandidate(c) PROVE Active' # {}
    BY <2>2 DEF CreateCandidate, Active, PredictionIInv, PredictionTyped
  <2>3. ASSUME NEW a \in Admins, CommitActivation(a) PROVE Active' # {}
    BY <2>3, CommitActivationStep
  <2> QED BY <2>1, <2>2, <2>3
      DEF PredictionNext, predictionVars, StartRun, ListCandidates, CommitRun, BreakRun, StopRun, NextDay,
          ForecastTarget, EvaluateCandidate, SwitchModel, RequestActivation, DisableCandidates, AbortActivation
<1>3. PredictionIInv /\ PredictionIInv' /\ [PredictionNext]_predictionVars =>
        [Cardinality(Active') <= 1 /\ (Active # {} => Active' # {})]_predictionVars
  <2>1. PredictionIInv' => (Cardinality(Active) <= 1)' BY <1>1, PTL
  <2> QED BY <1>2, <2>1
<1> QED BY <1>3, InitPredictionIInv, NextPredictionIInv, PTL DEF PredictionSpec, OneTakesOver
=============================================================================
