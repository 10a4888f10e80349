-------------------------- MODULE VendorEventIntake --------------------------
(***************************************************************************)
(* storage_events_schedule_fetching_task for one cluster: every minute it  *)
(* reads the events of the device from five minutes before the newest one  *)
(* stored, and stores those whose identifier it does not know.  The device *)
(* shows an event some time after it occurred; OneFS is asked for its      *)
(* groups and its lists one after the other.  Redis keeps the task from    *)
(* running twice; a run may fail or be killed at any point.                *)
(***************************************************************************)
EXTENDS Integers

CONSTANTS
    DeviceEvents, \* events of the device, named by their external_event_id
    Listed,       \* those that only the second request of OneFS returns; none for ONTAP
    OccurredAt,   \* their times, on the clock of the device
    Overlap,      \* 5 minutes
    Lookback,     \* 24 hours, the window of the first run
    ShownWithin,  \* the device shows an event at most so long after it occurred
    TaskLimit,    \* the hard time limit of a run, 60 s
    MaxTime, MaxFailures  \* bounds

ASSUME IntakeAssumption ==
    /\ OccurredAt \in [DeviceEvents -> Nat]
    /\ Overlap \in Nat /\ Lookback \in Nat /\ ShownWithin \in Nat /\ TaskLimit \in Nat
    /\ ShownWithin + TaskLimit <= Overlap
    /\ MaxTime \in Nat /\ MaxFailures \in Nat

VARIABLES
    clock,
    shown,     \* events that the device returns when it is asked
    kept,      \* the rows of storage_alerts that came from the device
    fetch,     \* the run: where it is, its window, its age, what it has read
    firstFrom, \* history: where the window of the first run that stored something began
    failures   \* counts towards MaxFailures

intakeVars == <<clock, shown, kept, fetch, firstFrom, failures>>

NoFetch == [pc |-> "idle", since |-> 0, age |-> 0, read |-> {}]

IntakeInit ==
    /\ clock = 0 /\ shown = {} /\ kept = {} /\ fetch = NoFetch /\ firstFrom = 0 /\ failures = 0

-----------------------------------------------------------------------------
(* The device and time.                                                    *)

ShowEvent(e) ==
    /\ e \notin shown /\ OccurredAt[e] <= clock
    /\ shown' = shown \cup {e}
    /\ UNCHANGED <<clock, kept, fetch, firstFrom, failures>>

\* The hard time limit ends a run
MayGoOn == fetch.age < TaskLimit

\* No event stays hidden for longer than ShownWithin
PassTime ==
    /\ clock < MaxTime
    /\ \A e \in DeviceEvents \ shown : clock < OccurredAt[e] + ShownWithin
    /\ fetch.pc # "idle" => MayGoOn
    /\ clock' = clock + 1
    /\ fetch' = IF fetch.pc = "idle" THEN fetch ELSE [fetch EXCEPT !.age = @ + 1]
    /\ UNCHANGED <<shown, kept, firstFrom, failures>>

-----------------------------------------------------------------------------
(* _collect_events.                                                        *)

\* Mutant: a run reads from the newest stored event on.
WindowStart_NoOverlap(newest) == newest

\* event_window_start, when events are stored
WindowStart(newest) == newest - Overlap

Starting(since) == fetch' = [pc |-> "groups", since |-> since, age |-> 0, read |-> {}]

StartFetch ==
    /\ fetch.pc = "idle"
    /\ \/ kept = {} /\ Starting(clock - Lookback)
       \/ \E newest \in kept :
            /\ \A e \in kept : OccurredAt[newest] >= OccurredAt[e]
            /\ Starting(WindowStart(OccurredAt[newest]))
    /\ UNCHANGED <<clock, shown, kept, firstFrom, failures>>

ReadGroups ==
    /\ fetch.pc = "groups"
    /\ fetch' = [fetch EXCEPT !.pc = "lists", !.read = shown \ Listed]
    /\ UNCHANGED <<clock, shown, kept, firstFrom, failures>>

ReadLists ==
    /\ fetch.pc = "lists"
    /\ fetch' = [fetch EXCEPT !.pc = "read", !.read = @ \cup (shown \cap Listed)]
    /\ UNCHANGED <<clock, shown, kept, firstFrom, failures>>

InWindow == {e \in fetch.read : OccurredAt[e] >= fetch.since}

\* Mutant: one stored event rejects the batch.
Fresh_All(known) == InWindow

\* _persist_vendor_events leaves out what it finds stored
Fresh(known) == InWindow \ known

\* uq_storage_alert_vendor_event rejects a row that is stored already
StoreEvents ==
    /\ fetch.pc = "read"
    /\ Fresh(kept) \cap kept = {}
    /\ kept' = kept \cup Fresh(kept)
    /\ firstFrom' = IF kept = {} THEN fetch.since ELSE firstFrom
    /\ fetch' = NoFetch
    /\ UNCHANGED <<clock, shown, failures>>

\* An error or the death of the worker: nothing is stored, the next run starts over
FailFetch ==
    /\ fetch.pc # "idle" /\ failures < MaxFailures
    /\ fetch' = NoFetch /\ failures' = failures + 1
    /\ UNCHANGED <<clock, shown, kept, firstFrom>>

IntakeNext ==
    \/ \E e \in DeviceEvents : ShowEvent(e)
    \/ PassTime \/ StartFetch \/ ReadGroups \/ ReadLists \/ StoreEvents \/ FailFetch

IntakeSpec == IntakeInit /\ [][IntakeNext]_intakeVars

\* The schedule starts a run every minute and nothing blocks it; failures are
\* bounded, so a run gets through at last
IntakeFairness ==
    /\ WF_intakeVars(StartFetch) /\ WF_intakeVars(ReadGroups)
    /\ WF_intakeVars(ReadLists) /\ WF_intakeVars(StoreEvents)

-----------------------------------------------------------------------------
(* Properties.                                                             *)

\* Type invariant: the window and what was read stay within the device's events.
IntakeTypeOK ==
    /\ clock \in 0..MaxTime /\ shown \subseteq DeviceEvents /\ kept \subseteq shown
    /\ firstFrom \in Int /\ failures \in 0..MaxFailures
    /\ fetch \in [pc : {"idle", "groups", "lists", "read"}, since : Int, age : 0..TaskLimit,
                 read : SUBSET shown]

\* An event that the device shows and that is not stored is still within the
\* window of the next run, however late the device shows it and however the two
\* requests fall: no newer event pushes the window past it.  Only what was older
\* than a day at the first run is given up
\* (docs/features/storage/cluster/performance-event-collection.md, section 5).
NothingPassedOver ==
    \A e \in shown \ kept, s \in kept : 
        OccurredAt[e] >= OccurredAt[s] - Overlap \/ OccurredAt[e] < firstFrom

\* From when on events are collected
Horizon == IF kept = {} THEN clock - Lookback ELSE firstFrom

\* Again and again all that the device shows is stored, unless it was older than
\* a day at the first run: a run that meets rows stored before does not fail on
\* them, and failures are made up for.
EventsArrive == []<>(\A e \in shown \ kept : OccurredAt[e] < Horizon)
=============================================================================
