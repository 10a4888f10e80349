---------------------------- MODULE VendorProofs -----------------------------
(***************************************************************************)
(* Theorems about VendorEventIntake and VendorCatalogue.                   *)
(***************************************************************************)
EXTENDS VendorEventIntake, VendorCatalogue, TLAPS

(***************************************************************************)
(* Theorems about VendorEventIntake.  A run that stores an event s and has *)
(* not read an event e began at most TaskLimit before now, and e was       *)
(* hidden since: so e occurred no more than ShownWithin + TaskLimit before *)
(* s, which IntakeAssumption keeps within the overlap of the next window.  *)
(***************************************************************************)

Newest(s) == s \in kept /\ \A e \in kept : OccurredAt[s] >= OccurredAt[e]

\* The device shows nothing before it occurred and nothing too late.
DeviceIsTimely ==
    /\ \A e \in shown : OccurredAt[e] <= clock
    /\ \A e \in DeviceEvents \ shown : clock <= OccurredAt[e] + ShownWithin

\* The window of a run that continues begins one overlap before the newest stored event.
WindowFits ==
    fetch.pc # "idle" /\ kept # {} => \E s \in DeviceEvents : Newest(s) /\ fetch.since = OccurredAt[s] - Overlap

\* What was asked for and not read was hidden after the run began.
UnreadWasHidden ==
    \A e \in DeviceEvents \ fetch.read :
        fetch.pc = "read" \/ (fetch.pc = "lists" /\ e \notin Listed) =>
            clock - fetch.age <= OccurredAt[e] + ShownWithin

IntakeIInv == IntakeTypeOK /\ DeviceIsTimely /\ WindowFits /\ UnreadWasHidden /\ NothingPassedOver

LEMMA Times == \A e \in DeviceEvents : OccurredAt[e] \in Nat
  BY IntakeAssumption

LEMMA InitIntakeIInv == IntakeInit => IntakeIInv
<1> SUFFICES ASSUME IntakeInit PROVE IntakeIInv
  OBVIOUS
<1>1. IntakeTypeOK BY IntakeAssumption DEF IntakeInit, IntakeTypeOK, NoFetch
<1>2. DeviceIsTimely BY IntakeAssumption, Times DEF IntakeInit, DeviceIsTimely
<1>3. WindowFits /\ UnreadWasHidden /\ NothingPassedOver
  BY DEF IntakeInit, WindowFits, UnreadWasHidden, NothingPassedOver, NoFetch
<1> QED BY <1>1, <1>2, <1>3 DEF IntakeIInv

LEMMA ShowStep == ASSUME IntakeIInv, NEW e \in DeviceEvents, ShowEvent(e) PROVE IntakeIInv'
<1> USE DEF IntakeIInv
<1>1. /\ shown' = shown \cup {e} /\ OccurredAt[e] <= clock
      /\ UNCHANGED <<clock, kept, fetch, firstFrom, failures>>
  BY DEF ShowEvent
<1>2. IntakeTypeOK' BY <1>1 DEF IntakeTypeOK
<1>3. DeviceIsTimely' BY <1>1 DEF DeviceIsTimely
<1>4. WindowFits' /\ UnreadWasHidden' BY <1>1 DEF WindowFits, UnreadWasHidden, Newest
<1>5. NothingPassedOver'
  <2>1. ASSUME NEW s \in kept, e \notin kept PROVE OccurredAt[e] >= OccurredAt[s] - Overlap
    <3>1. OccurredAt[s] <= clock /\ s \in DeviceEvents
      BY <2>1 DEF IntakeTypeOK, DeviceIsTimely
    <3>2. e \notin shown BY DEF ShowEvent
    <3>3. clock <= OccurredAt[e] + ShownWithin BY <3>2 DEF DeviceIsTimely
    <3> QED BY <3>1, <3>3, Times, IntakeAssumption DEF IntakeTypeOK
  <2> QED BY <1>1, <2>1 DEF NothingPassedOver
<1> QED BY <1>2, <1>3, <1>4, <1>5

LEMMA TimeStep == ASSUME IntakeIInv, PassTime PROVE IntakeIInv'
<1> USE DEF IntakeIInv
<1>1. /\ clock' = clock + 1 /\ clock \in Nat
      /\ UNCHANGED <<shown, kept, firstFrom, failures>>
      /\ fetch'.pc = fetch.pc /\ fetch'.since = fetch.since /\ fetch'.read = fetch.read
      /\ fetch.pc # "idle" => fetch'.age = fetch.age + 1
      /\ fetch.age \in Nat
  BY IntakeAssumption DEF PassTime, IntakeTypeOK
<1>2. IntakeTypeOK'
  <2>1. clock' \in 0..MaxTime BY IntakeAssumption DEF PassTime, IntakeTypeOK
  <2>2. fetch' \in [pc : {"idle", "groups", "lists", "read"}, since : Int, age : 0..TaskLimit,
                    read : SUBSET shown]
    BY IntakeAssumption DEF PassTime, MayGoOn, IntakeTypeOK
  <2> QED BY <1>1, <2>1, <2>2 DEF IntakeTypeOK
<1>3. DeviceIsTimely'
  BY <1>1, Times, IntakeAssumption DEF PassTime, DeviceIsTimely, IntakeTypeOK
<1>4. WindowFits' BY <1>1 DEF WindowFits, Newest
<1>5. UnreadWasHidden' BY <1>1, Times, IntakeAssumption DEF UnreadWasHidden
<1>6. NothingPassedOver' BY <1>1 DEF NothingPassedOver
<1> QED BY <1>2, <1>3, <1>4, <1>5, <1>6

LEMMA StartStep == ASSUME IntakeIInv, StartFetch PROVE IntakeIInv'
<1> USE DEF IntakeIInv
<1>1. UNCHANGED <<clock, shown, kept, firstFrom, failures>> BY DEF StartFetch
<1>2. PICK since \in Int :
         /\ Starting(since)
         /\ kept # {} => \E s \in DeviceEvents : Newest(s) /\ since = OccurredAt[s] - Overlap
  <2>1. kept \subseteq DeviceEvents /\ clock \in Nat BY IntakeAssumption DEF IntakeTypeOK
  <2>2. CASE kept = {} /\ Starting(clock - Lookback)
    <3>1. clock - Lookback \in Int BY <2>1, IntakeAssumption
    <3> QED BY <2>2, <3>1
  <2>3. CASE \E newest \in kept :
               /\ \A e \in kept : OccurredAt[newest] >= OccurredAt[e]
               /\ Starting(WindowStart(OccurredAt[newest]))
    <3>1. PICK s \in kept : /\ \A e \in kept : OccurredAt[s] >= OccurredAt[e]
                            /\ Starting(WindowStart(OccurredAt[s]))
      BY <2>3
    <3>2. WindowStart(OccurredAt[s]) \in Int BY <2>1, Times, IntakeAssumption DEF WindowStart
    <3>3. s \in DeviceEvents /\ Newest(s) BY <2>1, <3>1 DEF Newest
    <3> QED BY <3>1, <3>2, <3>3 DEF WindowStart
  <2> QED BY <2>2, <2>3 DEF StartFetch
<1>3. IntakeTypeOK' BY <1>1, <1>2, IntakeAssumption DEF IntakeTypeOK, Starting
<1>4. WindowFits' /\ UnreadWasHidden'
  BY <1>1, <1>2 DEF WindowFits, UnreadWasHidden, Newest, Starting
<1>5. DeviceIsTimely' /\ NothingPassedOver' BY <1>1 DEF DeviceIsTimely, NothingPassedOver
<1> QED BY <1>3, <1>4, <1>5

LEMMA ReadStep == ASSUME IntakeIInv, ReadGroups \/ ReadLists PROVE IntakeIInv'
<1> USE DEF IntakeIInv
<1>1. /\ UNCHANGED <<clock, shown, kept, firstFrom, failures>>
      /\ fetch'.since = fetch.since /\ fetch'.age = fetch.age /\ fetch.pc # "idle"
  BY DEF ReadGroups, ReadLists, IntakeTypeOK
<1>2. IntakeTypeOK' BY <1>1 DEF IntakeTypeOK, ReadGroups, ReadLists
<1>3. WindowFits' BY <1>1 DEF WindowFits, Newest
<1>4. \A e \in DeviceEvents \ shown : clock - fetch.age <= OccurredAt[e] + ShownWithin
  <2> SUFFICES ASSUME NEW e \in DeviceEvents \ shown
               PROVE clock - fetch.age <= OccurredAt[e] + ShownWithin
    OBVIOUS
  <2>1. clock \in 0..MaxTime /\ fetch.age \in 0..TaskLimit BY DEF IntakeTypeOK
  <2>2. clock <= OccurredAt[e] + ShownWithin BY DEF DeviceIsTimely
  <2>3. OccurredAt[e] \in Nat BY Times
  <2> QED BY ONLY <2>1, <2>2, <2>3, IntakeAssumption
<1>5. UnreadWasHidden'
  <2>1. CASE ReadGroups
    <3>1. fetch'.pc = "lists" /\ fetch'.read = shown \ Listed BY <2>1 DEF ReadGroups, IntakeTypeOK
    <3> QED BY <1>1, <1>4, <3>1 DEF UnreadWasHidden
  <2>2. CASE ReadLists
    <3>1. fetch'.pc = "read" /\ fetch'.read = fetch.read \cup (shown \cap Listed) /\ fetch.pc = "lists"
      BY <2>2 DEF ReadLists, IntakeTypeOK
    <3> QED BY <1>1, <1>4, <3>1 DEF UnreadWasHidden
  <2> QED BY <2>1, <2>2
<1>6. DeviceIsTimely' /\ NothingPassedOver' BY <1>1 DEF DeviceIsTimely, NothingPassedOver
<1> QED BY <1>2, <1>3, <1>5, <1>6

LEMMA StoreStep == ASSUME IntakeIInv, StoreEvents PROVE IntakeIInv'
<1> USE DEF IntakeIInv
<1>1. /\ kept' = kept \cup Fresh(kept) /\ fetch' = NoFetch /\ fetch.pc = "read"
      /\ firstFrom' = IF kept = {} THEN fetch.since ELSE firstFrom
      /\ UNCHANGED <<clock, shown, failures>>
  BY DEF StoreEvents
<1>2. /\ fetch.read \subseteq shown /\ shown \subseteq DeviceEvents /\ kept \subseteq shown
      /\ fetch.age \in 0..TaskLimit /\ fetch.since \in Int /\ clock \in Nat /\ firstFrom \in Int
  BY IntakeAssumption DEF IntakeTypeOK
<1>3. Fresh(kept) \subseteq fetch.read
      /\ \A e \in fetch.read : OccurredAt[e] >= fetch.since => e \in kept'
  BY <1>1 DEF Fresh, InWindow
<1>4. IntakeTypeOK' BY <1>1, <1>2, <1>3, IntakeAssumption DEF IntakeTypeOK, NoFetch
<1>5. DeviceIsTimely' BY <1>1 DEF DeviceIsTimely
<1>6. WindowFits' /\ UnreadWasHidden' BY <1>1 DEF WindowFits, UnreadWasHidden, NoFetch
<1>7. NothingPassedOver'
  <2> SUFFICES ASSUME NEW e \in shown \ kept', NEW s \in kept'
               PROVE OccurredAt[e] >= OccurredAt[s] - Overlap \/ OccurredAt[e] < firstFrom'
    BY <1>1 DEF NothingPassedOver
  <2>1. e \in DeviceEvents /\ s \in DeviceEvents /\ OccurredAt[e] \in Nat /\ OccurredAt[s] \in Nat
        /\ e \notin kept
    BY <1>1, <1>2, <1>3, Times
  <2>2. CASE s \in kept BY <1>1, <2>1, <2>2 DEF NothingPassedOver
  <2>3. CASE s \in fetch.read
    <3>1. CASE e \in fetch.read
      <4>1. OccurredAt[e] < fetch.since BY <1>2, <1>3, <2>1, <3>1
      <4>2. CASE kept = {} BY <1>1, <4>1, <4>2
      <4>3. CASE kept # {}
        <5>1. PICK m \in DeviceEvents : Newest(m) /\ fetch.since = OccurredAt[m] - Overlap
          BY <1>1, <4>3 DEF WindowFits
        <5>2. OccurredAt[e] >= OccurredAt[m] - Overlap \/ OccurredAt[e] < firstFrom
          BY <2>1, <5>1 DEF NothingPassedOver, Newest
        <5> QED BY <1>1, <1>2, <2>1, <4>1, <4>3, <5>1, <5>2, Times, IntakeAssumption
      <4> QED BY <4>2, <4>3
    <3>2. CASE e \notin fetch.read
      <4>1. clock - fetch.age <= OccurredAt[e] + ShownWithin
        BY <1>1, <2>1, <3>2 DEF UnreadWasHidden
      <4>2. OccurredAt[s] <= clock BY <1>2, <2>3 DEF DeviceIsTimely
      <4> QED BY <1>2, <2>1, <4>1, <4>2, IntakeAssumption
    <3> QED BY <3>1, <3>2
  <2> QED BY <1>1, <1>3, <2>2, <2>3
<1> QED BY <1>4, <1>5, <1>6, <1>7

LEMMA FailStep == ASSUME IntakeIInv, FailFetch \/ UNCHANGED intakeVars PROVE IntakeIInv'
<1> USE DEF IntakeIInv
<1>1. CASE FailFetch
  <2>1. /\ fetch' = NoFetch /\ failures' = failures + 1 /\ failures < MaxFailures
        /\ UNCHANGED <<clock, shown, kept, firstFrom>>
    BY <1>1 DEF FailFetch
  <2>2. IntakeTypeOK' BY <2>1, IntakeAssumption DEF IntakeTypeOK, NoFetch
  <2>3. WindowFits' /\ UnreadWasHidden' BY <2>1 DEF WindowFits, UnreadWasHidden, NoFetch
  <2>4. DeviceIsTimely' /\ NothingPassedOver' BY <2>1 DEF DeviceIsTimely, NothingPassedOver
  <2> QED BY <2>2, <2>3, <2>4
<1>2. CASE UNCHANGED intakeVars
  BY <1>2 DEF intakeVars, IntakeTypeOK, DeviceIsTimely, WindowFits, Newest, UnreadWasHidden,
              NothingPassedOver
<1> QED BY <1>1, <1>2

LEMMA NextIntakeIInv == IntakeIInv /\ [IntakeNext]_intakeVars => IntakeIInv'
  BY ShowStep, TimeStep, StartStep, ReadStep, StoreStep, FailStep DEF IntakeNext

\* The run's window, age and what it has read keep their types; it never outlives its limit.
THEOREM IntakeTypeCorrect == IntakeSpec => []IntakeTypeOK
<1>1. IntakeIInv => IntakeTypeOK BY DEF IntakeIInv
<1> QED BY <1>1, InitIntakeIInv, NextIntakeIInv, PTL DEF IntakeSpec

\* No event that the device shows is passed over, for every device and all times, as long as
\* what it hides and what a run takes fit into the overlap of two windows.
THEOREM NonePassedOver == IntakeSpec => []NothingPassedOver
<1>1. IntakeIInv => NothingPassedOver BY DEF IntakeIInv
<1> QED BY <1>1, InitIntakeIInv, NextIntakeIInv, PTL DEF IntakeSpec

-----------------------------------------------------------------------------
(***************************************************************************)
(* VendorCatalogue.  Requests of the discovery seed the definitions that   *)
(* are missing or placeholders when they look.  A row that an open request *)
(* has written is locked for the others (RowsAreOwned); it was missing, or *)
(* is written as it is, or is a built-in one that the request has loaded   *)
(* as a placeholder (MadeFits, SeedsBuiltIn); and a definition that was    *)
(* loaded is there until an administrator deletes it (LoadedFits).  Hence  *)
(* what a request is through with is in place (SeededFits).                *)
(***************************************************************************)

DiscoveryState == [pc : {"idle", "seeding", "observed", "closing"}, map : [Codes -> Definitions],
                   todo : SUBSET Codes, made : [Codes -> Definitions], close : SUBSET Faults]

Typed ==
    /\ definition \in [Codes -> Definitions] /\ observed \subseteq Codes /\ removed \subseteq Codes
    /\ edits \in Nat /\ fault \in [Faults -> [open : BOOLEAN, critical : BOOLEAN]]
    /\ discovery \in [Discoveries -> DiscoveryState]
    /\ script.pc \in {"idle", "insert"} /\ script.missing \subseteq Catalogued

\* No two open transactions hold the same row.
RowsAreOwned ==
    \A d, o \in Discoveries : d # o =>
        \A c \in Codes : discovery[d].made[c] = "absent" \/ discovery[o].made[c] = "absent"

\* What the update of a definition c needs: it was loaded as a placeholder, and it still is one
\* with another description where the seed is a placeholder.
Replaces(r, c) ==
    /\ r.map[c] \in {"placeholder", "described"} /\ c \in BuiltIn
    /\ c \in PendingSeeds => definition[c] = "described"

\* A row that a request has written was missing, or stays as it is, or may be replaced.
Rightful(r, c) ==
    r.made[c] # "absent" => definition[c] = "absent" \/ r.made[c] = definition[c] \/ Replaces(r, c)

MadeFits == \A d \in Discoveries, c \in Codes : Rightful(discovery[d], c)

\* The seeding is about built-in codes.
SeedsBuiltIn == \A d \in Discoveries : discovery[d].pc = "seeding" => discovery[d].todo \subseteq BuiltIn

\* A definition that a request loaded was not lost since, unless an administrator deleted it.
LoadedFits ==
    \A d \in Discoveries : \A c \in Codes :
        discovery[d].map[c] # "absent" => definition[c] # "absent" \/ c \in removed

\* A built-in definition that a request is through with is written, in place, or was deleted.
SeededFits ==
    \A d \in Discoveries : \A c \in BuiltIn :
        discovery[d].pc \in {"observed", "closing"} \/ (discovery[d].pc = "seeding" /\ c \notin discovery[d].todo) =>
            discovery[d].made[c] # "absent" \/ definition[c] # "absent" \/ c \in removed

CatalogueIInv == Typed /\ RowsAreOwned /\ MadeFits /\ SeedsBuiltIn /\ LoadedFits /\ SeededFits

LEMMA NoDiscoveryState == NoDiscovery \in DiscoveryState
  BY DEF NoDiscovery, Untouched, DiscoveryState, Definitions

\* A request that is not open has written nothing.
LEMMA NothingMade ==
  ASSUME NEW c \in Codes
  PROVE  /\ NoDiscovery.pc = "idle" /\ NoDiscovery.made[c] = "absent" /\ NoDiscovery.map[c] = "absent"
         /\ Rightful(NoDiscovery, c)
  BY DEF NoDiscovery, Untouched, Rightful

LEMMA InitCatalogueIInv == CatalogueInit => CatalogueIInv
<1> SUFFICES ASSUME CatalogueInit PROVE CatalogueIInv
  OBVIOUS
<1>1. Typed BY NoDiscoveryState DEF CatalogueInit, Typed, NoScript, Definitions
<1>2. \A d \in Discoveries : discovery[d] = NoDiscovery /\ discovery[d].pc = "idle"
  BY DEF CatalogueInit, NoDiscovery
<1>3. RowsAreOwned /\ MadeFits /\ LoadedFits BY <1>2, NothingMade DEF RowsAreOwned, MadeFits, LoadedFits
<1>4. SeedsBuiltIn /\ SeededFits BY <1>2 DEF SeedsBuiltIn, SeededFits
<1> QED BY <1>1, <1>3, <1>4 DEF CatalogueIInv

\* A step of one request that commits nothing.
LEMMA RequestStep ==
  ASSUME CatalogueIInv, NEW d \in Discoveries, NEW s \in DiscoveryState,
         discovery' = [discovery EXCEPT ![d] = s],
         UNCHANGED <<definition, observed, fault, script, removed, edits>>,
         \A c \in Codes : s.made[c] # "absent" /\ discovery[d].made[c] = "absent" => ~Held(d, c),
         \A c \in Codes : Rightful(s, c),
         s.pc = "seeding" => s.todo \subseteq BuiltIn,
         \A c \in Codes : s.map[c] # "absent" => definition[c] # "absent" \/ c \in removed,
         \A c \in BuiltIn :
            s.pc \in {"observed", "closing"} \/ (s.pc = "seeding" /\ c \notin s.todo) =>
                s.made[c] # "absent" \/ definition[c] # "absent" \/ c \in removed
  PROVE  CatalogueIInv'
<1> USE DEF CatalogueIInv
<1>1. discovery'[d] = s /\ \A o \in Discoveries \ {d} : discovery'[o] = discovery[o] BY DEF Typed
<1>2. Typed' BY DEF Typed
<1>3. \A o \in Discoveries \ {d}, c \in Codes : s.made[c] = "absent" \/ discovery[o].made[c] = "absent"
  BY DEF RowsAreOwned, Held
<1>4. RowsAreOwned' BY <1>1, <1>3 DEF RowsAreOwned
<1>5. MadeFits' BY <1>1 DEF MadeFits, Rightful, Replaces
<1>6. SeedsBuiltIn' BY <1>1 DEF SeedsBuiltIn
<1>7. LoadedFits' BY <1>1 DEF LoadedFits
<1>8. SeededFits' BY <1>1 DEF SeededFits
<1> QED BY <1>2, <1>4, <1>5, <1>6, <1>7, <1>8

LEMMA DropStep ==
  ASSUME CatalogueIInv, NEW d \in Discoveries,
         discovery' = [discovery EXCEPT ![d] = NoDiscovery],
         UNCHANGED <<definition, observed, fault, script, removed, edits>>
  PROVE  CatalogueIInv'
<1>1. NoDiscovery.pc = "idle" BY DEF NoDiscovery
<1> QED BY <1>1, NothingMade, NoDiscoveryState, RequestStep

LEMMA StartSeedingStep ==
  ASSUME CatalogueIInv, NEW d \in Discoveries, StartDiscovery(d) PROVE CatalogueIInv'
<1> DEFINE s == [NoDiscovery EXCEPT !.pc = "seeding", !.map = definition, !.todo = BuiltIn]
<1>1. s \in DiscoveryState
  BY NoDiscoveryState, CatalogueAssumption DEF DiscoveryState, CatalogueIInv, Typed
<1>2. s.pc = "seeding" /\ s.map = definition /\ s.todo = BuiltIn BY DEF NoDiscovery
<1>4. \A c \in Codes : s.made[c] = "absent" /\ Rightful(s, c) BY DEF NoDiscovery, Untouched, Rightful
<1>3. discovery' = [discovery EXCEPT ![d] = s]
      /\ UNCHANGED <<definition, observed, fault, script, removed, edits>>
  BY DEF StartDiscovery
<1> HIDE DEF s
<1> QED BY <1>1, <1>2, <1>3, <1>4, RequestStep

LEMMA KeepStep ==
  ASSUME CatalogueIInv, NEW d \in Discoveries, NEW c \in Codes, KeepDefinition(d, c) PROVE CatalogueIInv'
<1> DEFINE s == Done(d, c)
<1>1. discovery[d] \in DiscoveryState BY DEF CatalogueIInv, Typed
<1>2. /\ s \in DiscoveryState /\ s.made = discovery[d].made /\ s.map = discovery[d].map
      /\ s.pc = discovery[d].pc /\ s.todo = discovery[d].todo \ {c}
  BY <1>1 DEF DiscoveryState, Done
<1>3. /\ discovery' = [discovery EXCEPT ![d] = s] /\ s.pc = "seeding" /\ s.map[c] # "absent"
      /\ UNCHANGED <<definition, observed, fault, script, removed, edits>>
  BY <1>2 DEF KeepDefinition
<1>4. definition[c] # "absent" \/ c \in removed BY <1>2, <1>3 DEF CatalogueIInv, LoadedFits
<1>5. \A b \in BuiltIn : b \notin s.todo => s.made[b] # "absent" \/ definition[b] # "absent" \/ b \in removed
  BY <1>2, <1>3, <1>4 DEF CatalogueIInv, SeededFits
<1>6. \A b \in Codes : Rightful(s, b) BY <1>2 DEF CatalogueIInv, MadeFits, Rightful, Replaces
<1>8. s.todo \subseteq BuiltIn BY <1>2, <1>3 DEF CatalogueIInv, SeedsBuiltIn
<1>7. \A b \in Codes : s.map[b] # "absent" => definition[b] # "absent" \/ b \in removed
  BY <1>2 DEF CatalogueIInv, LoadedFits
<1> HIDE DEF s
<1> QED BY <1>2, <1>3, <1>5, <1>6, <1>7, <1>8, RequestStep

\* A row is written.
LEMMA MakeStep ==
  ASSUME CatalogueIInv, NEW d \in Discoveries, NEW c \in Codes, c \in discovery[d].todo, ~Held(d, c),
         NEW value \in Definitions \ {"absent"},
         definition[c] = "absent" \/ value = definition[c] \/ Replaces(discovery[d], c),
         discovery[d].pc \in {"seeding", "observed"},
         discovery' = [discovery EXCEPT ![d] = Wrote(d, c, value)],
         UNCHANGED <<definition, observed, fault, script, removed, edits>>
  PROVE  CatalogueIInv'
<1> DEFINE s == Wrote(d, c, value)
<1>1. discovery[d] \in DiscoveryState BY DEF CatalogueIInv, Typed
<1>2. /\ s \in DiscoveryState /\ s.made[c] = value /\ s.map = discovery[d].map
      /\ s.pc = discovery[d].pc /\ s.todo = discovery[d].todo \ {c}
      /\ \A b \in Codes \ {c} : s.made[b] = discovery[d].made[b]
  BY <1>1 DEF DiscoveryState, Wrote, Done
<1>3. \A b \in BuiltIn : s.pc = "observed" \/ b \notin s.todo =>
         s.made[b] # "absent" \/ definition[b] # "absent" \/ b \in removed
  BY <1>2, CatalogueAssumption DEF CatalogueIInv, SeededFits
<1>4. \A b \in Codes : Rightful(s, b)
  BY <1>2 DEF CatalogueIInv, MadeFits, Rightful, Replaces
<1>5. \A b \in Codes : s.map[b] # "absent" => definition[b] # "absent" \/ b \in removed
  BY <1>2 DEF CatalogueIInv, LoadedFits
<1>6. \A b \in Codes : s.made[b] # "absent" /\ discovery[d].made[b] = "absent" => ~Held(d, b) BY <1>2
<1>7. discovery' = [discovery EXCEPT ![d] = s] /\ s.pc # "closing" BY <1>2
<1>8. s.pc = "seeding" => s.todo \subseteq BuiltIn BY <1>2 DEF CatalogueIInv, SeedsBuiltIn
<1> HIDE DEF s
<1> QED BY <1>2, <1>3, <1>4, <1>5, <1>6, <1>7, <1>8, RequestStep

LEMMA SeedStep ==
  ASSUME CatalogueIInv, NEW d \in Discoveries, NEW c \in Codes, SeedDefinition(d, c) PROVE CatalogueIInv'
<1> DEFINE loaded == discovery[d].map[c]
<1>1. /\ c \in discovery[d].todo /\ discovery[d].pc = "seeding" /\ ~Held(d, c)
      /\ UNCHANGED <<definition, observed, fault, script, removed, edits>>
      /\ loaded # "absent" => IsPlaceholder(loaded)
  BY DEF SeedDefinition
<1>2. definition[c] \in Definitions /\ c \in BuiltIn BY <1>1 DEF CatalogueIInv, Typed, SeedsBuiltIn
<1>3. Seed(c) \in Definitions \ {"absent"} BY DEF Seed, Definitions
<1>4. CASE loaded = "absent" /\ definition[c] = "absent"
  <2>1. discovery' = [discovery EXCEPT ![d] = Wrote(d, c, Seed(c))] BY <1>4 DEF SeedDefinition
  <2> QED BY <1>1, <1>3, <1>4, <2>1, MakeStep
<1>5. CASE loaded # "absent" /\ definition[c] # "absent"
  <2>1. discovery' = [discovery EXCEPT ![d] = Wrote(d, c, Seeded(c))] BY <1>5 DEF SeedDefinition
  <2>2. Seeded(c) \in Definitions \ {"absent"} BY <1>2, <1>3, <1>5 DEF Seeded
  <2>3. Seeded(c) = definition[c] \/ Replaces(discovery[d], c)
    BY <1>1, <1>2, <1>5 DEF Seeded, Seed, Replaces, IsPlaceholder, Definitions
  <2> QED BY <1>1, <2>1, <2>2, <2>3, MakeStep
<1>6. CASE (loaded = "absent") # (definition[c] = "absent")
  <2>1. discovery' = [discovery EXCEPT ![d] = NoDiscovery] BY <1>6 DEF SeedDefinition
  <2> QED BY <1>1, <2>1, DropStep
<1> QED BY <1>4, <1>5, <1>6

\* The request goes on without writing.
LEMMA PassStep ==
  ASSUME CatalogueIInv, NEW d \in Discoveries, NEW s \in DiscoveryState,
         discovery[d].pc = "seeding" => discovery[d].todo = {},
         discovery[d].pc # "idle", s.pc \in {"observed", "closing"},
         s.made = discovery[d].made, s.map = discovery[d].map,
         discovery' = [discovery EXCEPT ![d] = s],
         UNCHANGED <<definition, observed, fault, script, removed, edits>>
  PROVE  CatalogueIInv'
<1>1. discovery[d] \in DiscoveryState BY DEF CatalogueIInv, Typed
<1>2. \A c \in BuiltIn : s.made[c] # "absent" \/ definition[c] # "absent" \/ c \in removed
  BY <1>1 DEF CatalogueIInv, SeededFits, DiscoveryState
<1>3. \A b \in Codes : Rightful(s, b) BY DEF CatalogueIInv, MadeFits, Rightful, Replaces
<1>4. \A b \in Codes : s.map[b] # "absent" => definition[b] # "absent" \/ b \in removed
  BY DEF CatalogueIInv, LoadedFits
<1> QED BY <1>2, <1>3, <1>4, RequestStep

LEMMA PassingStep ==
  ASSUME CatalogueIInv, NEW d \in Discoveries, LoadObserved(d) \/ ReadFaults(d) PROVE CatalogueIInv'
<1>0. discovery[d] \in DiscoveryState BY DEF CatalogueIInv, Typed
<1>1. CASE LoadObserved(d)
  <2> DEFINE s == [discovery[d] EXCEPT !.pc = "observed",
           !.todo = {b \in observed : definition[b] = "absent" /\ discovery[d].made[b] = "absent"}]
  <2>1. /\ s \in DiscoveryState /\ s.pc = "observed" /\ s.made = discovery[d].made
        /\ s.map = discovery[d].map
    BY <1>0 DEF DiscoveryState, CatalogueIInv, Typed
  <2>2. /\ discovery' = [discovery EXCEPT ![d] = s] /\ discovery[d].todo = {}
        /\ discovery[d].pc = "seeding"
        /\ UNCHANGED <<definition, observed, fault, script, removed, edits>>
    BY <1>1 DEF LoadObserved
  <2> HIDE DEF s
  <2> QED BY <2>1, <2>2, PassStep
<1>2. CASE ReadFaults(d)
  <2> DEFINE s == [discovery[d] EXCEPT !.pc = "closing",
           !.close = {i \in Faults : fault[i].open /\ ~fault[i].critical}]
  <2>1. /\ s \in DiscoveryState /\ s.pc = "closing" /\ s.made = discovery[d].made
        /\ s.map = discovery[d].map
    BY <1>0 DEF DiscoveryState
  <2>2. /\ discovery' = [discovery EXCEPT ![d] = s] /\ discovery[d].pc = "observed"
        /\ UNCHANGED <<definition, observed, fault, script, removed, edits>>
    BY <1>2 DEF ReadFaults
  <2> HIDE DEF s
  <2> QED BY <2>1, <2>2, PassStep
<1> QED BY <1>1, <1>2

LEMMA PlaceholderStep ==
  ASSUME CatalogueIInv, NEW d \in Discoveries, NEW c \in Codes, AddPlaceholder(d, c) PROVE CatalogueIInv'
<1>0. discovery[d] \in DiscoveryState BY DEF CatalogueIInv, Typed
<1>1. CASE AddPlaceholder(d, c) /\ definition[c] = "absent"
  <2>1. "placeholder" \in Definitions \ {"absent"} BY DEF Definitions
  <2>2. /\ discovery' = [discovery EXCEPT ![d] = Wrote(d, c, "placeholder")] /\ ~Held(d, c)
        /\ c \in discovery[d].todo /\ discovery[d].pc = "observed"
        /\ UNCHANGED <<definition, observed, fault, script, removed, edits>>
    BY <1>1 DEF AddPlaceholder
  <2> QED BY <1>1, <2>1, <2>2, MakeStep
<1>2. CASE AddPlaceholder(d, c) /\ definition[c] # "absent"
  <2> DEFINE s == Done(d, c)
  <2>1. /\ s \in DiscoveryState /\ s.pc = discovery[d].pc /\ s.made = discovery[d].made
        /\ s.map = discovery[d].map
    BY <1>0 DEF DiscoveryState, Done
  <2>2. /\ discovery' = [discovery EXCEPT ![d] = s] /\ discovery[d].pc = "observed"
        /\ UNCHANGED <<definition, observed, fault, script, removed, edits>>
    BY <1>2 DEF AddPlaceholder, AfterConflict
  <2> HIDE DEF s
  <2> QED BY <2>1, <2>2, PassStep
<1> QED BY <1>1, <1>2

LEMMA CommitStep ==
  ASSUME CatalogueIInv, NEW d \in Discoveries, CommitDiscovery(d)
  PROVE  /\ CatalogueIInv'
         /\ \A c \in BuiltIn : definition'[c] = "absent" => c \in removed
         /\ \A c \in Codes : definition[c] # "absent" /\ definition'[c] # definition[c] =>
               Replaces(discovery[d], c)
<1> USE DEF CatalogueIInv
<1>1. /\ discovery[d].pc = "closing"
      /\ definition' = [c \in Codes |->
           IF discovery[d].made[c] # "absent" THEN discovery[d].made[c] ELSE definition[c]]
      /\ discovery' = [discovery EXCEPT ![d] = NoDiscovery]
      /\ UNCHANGED <<observed, script, removed, edits>>
  BY DEF CommitDiscovery
<1>2. \A c \in Codes : /\ definition'[c] \in Definitions
                       /\ definition[c] # "absent" => definition'[c] # "absent"
                       /\ discovery[d].made[c] # "absent" => definition'[c] = discovery[d].made[c]
                       /\ discovery[d].made[c] = "absent" => definition'[c] = definition[c]
  BY <1>1 DEF Typed, DiscoveryState
<1>3. discovery'[d] = NoDiscovery /\ \A o \in Discoveries \ {d} : discovery'[o] = discovery[o]
  BY <1>1 DEF Typed
<1>5. fault' \in [Faults -> [open : BOOLEAN, critical : BOOLEAN]]
  BY DEF Typed, CommitDiscovery
<1>6. Typed' BY <1>1, <1>2, <1>5, NoDiscoveryState DEF Typed
<1>7. /\ NoDiscovery.pc = "idle"
      /\ \A c \in Codes : NoDiscovery.made[c] = "absent" /\ NoDiscovery.map[c] = "absent"
  BY DEF NoDiscovery, Untouched
<1>8. RowsAreOwned' BY <1>3, <1>7 DEF RowsAreOwned
<1>9. MadeFits'
  <2> SUFFICES ASSUME NEW o \in Discoveries, NEW c \in Codes PROVE Rightful(discovery[o], c)'
    BY DEF MadeFits
  <2>1. CASE o = d BY <1>3, <1>7, <2>1 DEF Rightful
  <2>2. CASE o # d /\ discovery[o].made[c] = "absent" BY <1>3, <2>2 DEF Rightful
  <2>3. CASE o # d /\ discovery[o].made[c] # "absent"
    <3>1. discovery[d].made[c] = "absent" BY <2>3 DEF RowsAreOwned
    <3> QED BY <1>2, <1>3, <2>3, <3>1 DEF MadeFits, Rightful, Replaces
  <2> QED BY <2>1, <2>2, <2>3
<1>10. LoadedFits' BY <1>1, <1>2, <1>3, <1>7 DEF LoadedFits
<1>11. SeededFits' /\ SeedsBuiltIn'
  BY <1>1, <1>2, <1>3, <1>7, CatalogueAssumption DEF SeededFits, SeedsBuiltIn
<1>12. ASSUME NEW c \in BuiltIn, definition'[c] = "absent" PROVE c \in removed
  BY <1>1, <1>2, <1>12, CatalogueAssumption DEF SeededFits
<1>13. ASSUME NEW c \in Codes, definition[c] # "absent", definition'[c] # definition[c]
       PROVE  Replaces(discovery[d], c)
  BY <1>2, <1>13 DEF MadeFits, Rightful
<1> QED BY <1>6, <1>8, <1>9, <1>10, <1>11, <1>12, <1>13

\* The script and administrators, who wait for the rows of open transactions.
LEMMA OutsideStep ==
  ASSUME CatalogueIInv, UNCHANGED discovery, removed \subseteq removed',
         definition' \in [Codes -> Definitions], observed' \subseteq Codes, removed' \subseteq Codes,
         edits' \in Nat,
         fault' \in [Faults -> [open : BOOLEAN, critical : BOOLEAN]],
         script'.pc \in {"idle", "insert"}, script'.missing \subseteq Catalogued,
         \A c \in Codes : /\ definition'[c] # definition[c] => \A d \in Discoveries : discovery[d].made[c] = "absent"
                          /\ definition'[c] = "absent" => definition[c] = "absent" \/ c \in removed'
  PROVE  CatalogueIInv'
<1> USE DEF CatalogueIInv
<1>1. Typed' /\ RowsAreOwned' /\ SeedsBuiltIn' BY DEF Typed, RowsAreOwned, SeedsBuiltIn
<1>2. MadeFits' BY DEF MadeFits, Rightful, Replaces
<1>3. LoadedFits' BY DEF LoadedFits
<1>4. SeededFits' BY CatalogueAssumption DEF SeededFits
<1> QED BY <1>1, <1>2, <1>3, <1>4

LEMMA ScriptStep ==
  ASSUME CatalogueIInv, LoadKeys \/ InsertMissing
  PROVE  /\ CatalogueIInv'
         /\ \A c \in Codes : definition[c] = "absent" \/ definition'[c] = definition[c]
<1> USE DEF CatalogueIInv
<1>1. CASE LoadKeys
  <2>1. script'.pc = "insert" /\ script'.missing \subseteq Catalogued BY <1>1 DEF LoadKeys
  <2>2. UNCHANGED <<definition, observed, fault, discovery, removed, edits>> BY <1>1 DEF LoadKeys
  <2> QED BY <2>1, <2>2, OutsideStep DEF Typed
<1>2. CASE InsertMissing
  <2>1. /\ UNCHANGED <<observed, fault, discovery, removed, edits>> /\ script' = NoScript
        /\ \A d \in Discoveries, c \in script.missing : discovery[d].made[c] = "absent"
    BY <1>2 DEF InsertMissing
  <2>2. /\ definition' \in [Codes -> Definitions]
        /\ \A c \in Codes : definition'[c] # definition[c] =>
              c \in script.missing /\ definition[c] = "absent" /\ definition'[c] # "absent"
    BY <1>2 DEF InsertMissing, WithMissing, Catalogue, Typed, Definitions
  <2>3. script'.pc = "idle" /\ script'.missing = {} BY <2>1 DEF NoScript
  <2>4. CatalogueIInv' BY <2>1, <2>2, <2>3, OutsideStep DEF Typed
  <2> QED BY <2>2, <2>4
<1> QED BY <1>1, <1>2

LEMMA EditStep ==
  ASSUME CatalogueIInv, NEW c \in Codes, NEW value \in {"described", "edited", "absent"},
         EditDefinition(c, value)
  PROVE  CatalogueIInv' /\ edits' # edits
<1> USE DEF CatalogueIInv
<1>1. /\ definition' = [definition EXCEPT ![c] = value]
      /\ removed' = IF value = "absent" THEN removed \cup {c} ELSE removed
      /\ \A d \in Discoveries : discovery[d].made[c] = "absent"
      /\ UNCHANGED <<observed, fault, discovery, script>>
  BY DEF EditDefinition
<1>2. /\ definition' \in [Codes -> Definitions] /\ definition'[c] = value
      /\ \A b \in Codes \ {c} : definition'[b] = definition[b]
  BY <1>1 DEF Typed, Definitions
<1>3. edits' = edits + 1 /\ edits \in Nat BY DEF EditDefinition, Edit, Typed
<1>4. edits' \in Nat /\ edits' # edits BY <1>3
<1>5. CatalogueIInv' BY <1>1, <1>2, <1>4, OutsideStep DEF Typed
<1> QED BY <1>4, <1>5

LEMMA ArrivalStep ==
  ASSUME CatalogueIInv, (\E c \in Codes : ObserveCode(c)) \/ \E i \in Faults : AttachCritical(i)
  PROVE  CatalogueIInv' /\ UNCHANGED definition
<1> USE DEF CatalogueIInv
<1>1. UNCHANGED <<definition, discovery, script, removed>> BY DEF ObserveCode, AttachCritical
<1>2. /\ observed' \subseteq Codes
      /\ fault' \in [Faults -> [open : BOOLEAN, critical : BOOLEAN]]
  BY DEF ObserveCode, AttachCritical, Typed
<1>3. edits' \in Nat BY DEF ObserveCode, AttachCritical, Edit, Typed
<1> QED BY <1>1, <1>2, <1>3, OutsideStep DEF Typed

\* What no step does to the definitions.
Kept ==
    /\ \A d \in Discoveries : (discovery[d].pc = "closing" /\ CommitDiscovery(d)) =>
         \A c \in BuiltIn : definition'[c] = "absent" => c \in removed
    /\ \A c \in Codes : edits' = edits /\ definition[c] # "absent" /\ definition'[c] # definition[c] =>
         \E d \in Discoveries : discovery[d].pc = "closing" /\ Replaces(discovery[d], c)

LEMMA NextCatalogueIInv == CatalogueIInv /\ [CatalogueNext]_catalogueVars => CatalogueIInv' /\ Kept
<1> SUFFICES ASSUME CatalogueIInv, [CatalogueNext]_catalogueVars PROVE CatalogueIInv' /\ Kept
  OBVIOUS
<1>0. \A d \in Discoveries : CommitDiscovery(d) =>
         \A c \in BuiltIn : definition'[c] = "absent" => c \in removed
  BY CommitStep
<1>1. CASE \E d \in Discoveries : CommitDiscovery(d)
  <2>1. PICK d \in Discoveries : CommitDiscovery(d) BY <1>1
  <2>2. \A c \in Codes : definition[c] # "absent" /\ definition'[c] # definition[c] =>
               discovery[d].pc = "closing" /\ Replaces(discovery[d], c)
    BY <2>1, CommitStep DEF CommitDiscovery
  <2>3. CatalogueIInv' BY <2>1, CommitStep
  <2> QED BY <1>0, <2>2, <2>3 DEF Kept
<1>2. CASE \E d \in Discoveries :
              \/ StartDiscovery(d) \/ LoadObserved(d) \/ ReadFaults(d) \/ FailDiscovery(d)
              \/ \E c \in Codes : KeepDefinition(d, c) \/ SeedDefinition(d, c) \/ AddPlaceholder(d, c)
  <2>1. PICK d \in Discoveries :
              \/ StartDiscovery(d) \/ LoadObserved(d) \/ ReadFaults(d) \/ FailDiscovery(d)
              \/ \E c \in Codes : KeepDefinition(d, c) \/ SeedDefinition(d, c) \/ AddPlaceholder(d, c)
    BY <1>2
  <2>2. UNCHANGED definition
    BY <2>1 DEF StartDiscovery, LoadObserved, ReadFaults, FailDiscovery, KeepDefinition,
                SeedDefinition, AddPlaceholder
  <2>3. CASE StartDiscovery(d) BY <1>0, <2>2, <2>3, StartSeedingStep DEF Kept
  <2>4. CASE LoadObserved(d) \/ ReadFaults(d)
    BY <1>0, <2>2, <2>4, PassingStep DEF Kept
  <2>5. CASE FailDiscovery(d) BY <1>0, <2>2, <2>5, DropStep DEF Kept, FailDiscovery
  <2>6. CASE \E c \in Codes : KeepDefinition(d, c) \/ SeedDefinition(d, c) \/ AddPlaceholder(d, c)
    BY <1>0, <2>2, <2>6, KeepStep, SeedStep, PlaceholderStep DEF Kept
  <2> QED BY <2>1, <2>3, <2>4, <2>5, <2>6
<1>3. CASE LoadKeys \/ InsertMissing
  <2>1. \A c \in Codes : definition[c] = "absent" \/ definition'[c] = definition[c] BY <1>3, ScriptStep
  <2>2. CatalogueIInv' BY <1>3, ScriptStep
  <2> QED BY <1>0, <2>1, <2>2 DEF Kept
<1>4. CASE \E c \in Codes, value \in {"described", "edited", "absent"} : EditDefinition(c, value)
  <2>1. CatalogueIInv' /\ edits' # edits BY <1>4, EditStep
  <2> QED BY <1>0, <2>1 DEF Kept
<1>5. CASE (\E c \in Codes : ObserveCode(c)) \/ \E i \in Faults : AttachCritical(i)
  <2>1. CatalogueIInv' /\ UNCHANGED definition BY <1>5, ArrivalStep
  <2> QED BY <1>0, <2>1 DEF Kept
<1>6. CASE UNCHANGED catalogueVars
  <2>1. UNCHANGED definition BY <1>6 DEF catalogueVars
  <2>2. CatalogueIInv'
    BY <1>6 DEF catalogueVars, CatalogueIInv, Typed, RowsAreOwned, MadeFits, Rightful,
                Replaces, SeedsBuiltIn, LoadedFits, SeededFits
  <2> QED BY <1>0, <2>1, <2>2 DEF Kept
<1> QED BY <1>1, <1>2, <1>3, <1>4, <1>5, <1>6 DEF CatalogueNext

LEMMA TypesFollow == CatalogueIInv => CatalogueTypeOK
  BY DEF CatalogueIInv, Typed, RowsAreOwned, CatalogueTypeOK, DiscoveryState

\* Definitions, faults, the open discoveries and the script keep their types, and no two
\* transactions write one row.
THEOREM CatalogueTypeCorrect == CatalogueSpec => []CatalogueTypeOK
<1> QED BY InitCatalogueIInv, NextCatalogueIInv, TypesFollow, PTL DEF CatalogueSpec

\* A discovery that commits leaves every built-in definition in place, unless an administrator
\* deleted it, for any number of discoveries that overlap with each other and with the script.
THEOREM DiscoveriesComplete == CatalogueSpec => DiscoveryIsComplete
<1>1. CatalogueIInv /\ [CatalogueNext]_catalogueVars =>
        [\A d \in Discoveries : (discovery[d].pc = "closing" /\ CommitDiscovery(d)) =>
           \A c \in BuiltIn : definition'[c] = "absent" => c \in removed]_catalogueVars
  BY NextCatalogueIInv DEF Kept
<1> QED BY InitCatalogueIInv, NextCatalogueIInv, <1>1, PTL DEF CatalogueSpec, DiscoveryIsComplete

\* What stands in the catalogue is replaced without an administrator only by a discovery that
\* loaded it as a placeholder and has a definition of its own for it, for any codes, discoveries,
\* seeds and edits; a type, title or review written since then only where the seed has them too.
THEOREM EditsKept == CatalogueSpec => EditsAreKept
<1>1. CatalogueIInv /\ [CatalogueNext]_catalogueVars =>
        [\A c \in Codes : edits' = edits /\ definition[c] # "absent" /\ definition'[c] # definition[c] =>
           \E d \in Discoveries :
              /\ discovery[d].pc = "closing" /\ discovery[d].map[c] \in {"placeholder", "described"}
              /\ c \in BuiltIn /\ (c \in PendingSeeds => definition[c] = "described")
        ]_catalogueVars
  BY NextCatalogueIInv DEF Kept, Replaces
<1> QED BY InitCatalogueIInv, NextCatalogueIInv, <1>1, PTL DEF CatalogueSpec, EditsAreKept
=============================================================================
