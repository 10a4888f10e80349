------------------------- MODULE CapacityPrediction -------------------------
(***************************************************************************)
(* Capacity forecasts and the candidates that may replace them.  A daily   *)
(* task forecasts every target, lets the active candidate draw its own     *)
(* curve, evaluates the inactive candidates on three holdout windows, and  *)
(* commits all of it at once.  A super administrator activates a candidate *)
(* whose evaluations pass the gate; requests run at the same time as the   *)
(* task and as each other (READ COMMITTED).                                *)
(***************************************************************************)
EXTENDS Integers, FiniteSets

CONSTANTS
    Targets,        \* clusters, projects, groups, directories and volumes with a limit
    BusinessTargets,\* those for which candidates draw curves: not volumes and qtrees
    StorableTargets,\* those whose type ck_capacity_prediction_candidate_forecast_asset_type admits
    Candidates,     \* versions that may be created
    Admins,         \* requests of super administrators that may run at the same time
    WindowDays,     \* length of a holdout window, 30
    FirstHistory,   \* the first day whose history spans training and three windows
    MaxDay,         \* bound: days
    MaxStops,       \* bound: runs of the task that are killed
    NoCandidate

ASSUME PredictionAssumption ==
    /\ StorableTargets \subseteq BusinessTargets /\ BusinessTargets \subseteq Targets
    /\ WindowDays \in Nat \ {0} /\ FirstHistory \in Nat /\ MaxDay \in Nat /\ MaxStops \in Nat
    /\ NoCandidate \notin Candidates \cup Admins

VARIABLES
    day,
    enabled,     \* enabled[c]: "absent" before its creation, else "yes" or "no", committed
    modelOn,     \* the candidates whose model is enabled
    evaluations, \* evaluations[c]: [end, good] of committed holdout windows, named by their last day
    forecasts,   \* <<target, day>> of committed baseline forecasts
    curves,      \* <<candidate, target, day>> of committed candidate forecasts
    run,         \* the daily task and what it has flushed
    admin,       \* what each activation request is doing
    rowsHeld,    \* rowsHeld[c]: the request whose UPDATE holds the row of c
    stops, broken \* counts towards MaxStops; a constraint has rolled a run back

predictionVars ==
    <<day, enabled, modelOn, evaluations, forecasts, curves, run, admin, rowsHeld, stops, broken>>

Evaluation == [end : 0..MaxDay, good : BOOLEAN]

NoRun == [pc |-> "idle", todo |-> {}, f |-> {}, c |-> {}, candidates |-> {}, e |-> {}]
NoRequest == [pc |-> "idle", candidate |-> NoCandidate, loaded |-> "no"]
NoneHeld == [c \in Candidates |-> NoCandidate]

PredictionInit ==
    /\ day = 0
    /\ enabled = [c \in Candidates |-> "absent"]
    /\ modelOn = Candidates
    /\ evaluations = [c \in Candidates |-> {}]
    /\ forecasts = {} /\ curves = {}
    /\ run = NoRun
    /\ admin = [a \in Admins |-> NoRequest]
    /\ rowsHeld = NoneHeld
    /\ stops = 0 /\ broken = FALSE

Active == {c \in Candidates : enabled[c] = "yes"}

-----------------------------------------------------------------------------
(* The daily task: run_capacity_forecasts.                                 *)

\* capacity_forecast_daily_task; its Redis lock outlives the hard time limit
StartRun ==
    /\ run.pc = "idle"
    /\ run' = [NoRun EXCEPT !.pc = "forecast", !.todo = Targets]
    /\ UNCHANGED <<day, enabled, modelOn, evaluations, forecasts, curves,
                    admin, rowsHeld, stops, broken>>

\* active_candidate is read again for every target
Curves(t) ==
    {<<c, t, day>> : c \in {c \in Active \cap modelOn : t \in BusinessTargets}}

\* The check constraint refuses a curve of a target of another type
Violates(t) == t \notin StorableTargets /\ Curves(t) \ curves # {}

\* _capacity_forecast_for_target and _persist_active_candidate_prediction; existing rows stay
ForecastTarget(t) ==
    /\ run.pc = "forecast" /\ t \in run.todo /\ ~Violates(t)
    /\ run' = [run EXCEPT !.todo = @ \ {t}, !.f = @ \cup {<<t, day>>}, !.c = @ \cup Curves(t)]
    /\ UNCHANGED <<day, enabled, modelOn, evaluations, forecasts, curves,
                    admin, rowsHeld, stops, broken>>

\* list_candidates, at the end of the forecasts
ListCandidates ==
    /\ run.pc = "forecast" /\ run.todo = {}
    /\ run' = [run EXCEPT !.pc = "evaluate", !.candidates = {c \in modelOn : enabled[c] = "no"}]
    /\ UNCHANGED <<day, enabled, modelOn, evaluations, forecasts, curves,
                    admin, rowsHeld, stops, broken>>

\* rolling_candidate_evaluations: three windows that end today, none without the full history
WindowEnds == IF day < FirstHistory THEN {} ELSE {day - i * WindowDays : i \in 0..2} \cap Nat

\* Mutant: windows that were judged before are judged again.
NewWindows_All(c) == WindowEnds

\* has_candidate_evaluation
NewWindows(c) == {w \in WindowEnds : \A x \in evaluations[c] : x.end # w}

\* _record_rolling_candidate_evaluations of one candidate
EvaluateCandidate(c) ==
    LET new == NewWindows(c)
    IN  /\ run.pc = "evaluate" /\ c \in run.candidates
        /\ \E results \in [new -> BOOLEAN] :
             run' = [run EXCEPT !.candidates = @ \ {c},
                                !.e = @ \cup {<<c, [end |-> w, good |-> results[w]]>> : w \in new}]
        /\ UNCHANGED <<day, enabled, modelOn, evaluations, forecasts, curves,
                        admin, rowsHeld, stops, broken>>

CommitRun ==
    /\ run.pc = "evaluate" /\ run.candidates = {}
    /\ forecasts' = forecasts \cup run.f
    /\ curves' = curves \cup run.c
    /\ evaluations' = [c \in Candidates |-> evaluations[c] \cup {p[2] : p \in {q \in run.e : q[1] = c}}]
    /\ run' = NoRun
    /\ UNCHANGED <<day, enabled, modelOn, admin, rowsHeld, stops, broken>>

\* An integrity error rolls back the forecasts of all targets
BreakRun ==
    /\ run.pc = "forecast" /\ \E t \in run.todo : Violates(t)
    /\ run' = NoRun /\ broken' = TRUE
    /\ UNCHANGED <<day, enabled, modelOn, evaluations, forecasts, curves, admin, rowsHeld, stops>>

\* Killed; its transaction leaves nothing
StopRun ==
    /\ run.pc # "idle" /\ stops < MaxStops
    /\ run' = NoRun /\ stops' = stops + 1
    /\ UNCHANGED <<day, enabled, modelOn, evaluations, forecasts, curves, admin, rowsHeld, broken>>

-----------------------------------------------------------------------------
(* Governance.                                                             *)

\* create_capacity_prediction_candidate: a new version with an enabled model
CreateCandidate(c) ==
    /\ enabled[c] = "absent" /\ c \in modelOn
    /\ enabled' = [enabled EXCEPT ![c] = "no"]
    /\ UNCHANGED <<day, modelOn, evaluations, forecasts, curves, run, admin, rowsHeld, stops, broken>>

\* The three evaluations that end last
Recent(c) ==
    {x \in evaluations[c] : Cardinality({y \in evaluations[c] : y.end > x.end}) < 3}

\* candidate_meets_activation_gate; good: covers the risk and improves on the baseline by 10 %
MeetsGate(c) == Cardinality(evaluations[c]) >= 3 /\ \A x \in Recent(c) : x.good

\* activate_capacity_prediction_candidate up to the gate
RequestActivation(a, c) ==
    /\ admin[a].pc = "idle"
    /\ enabled[c] # "absent" /\ c \in modelOn /\ MeetsGate(c)
    /\ admin' = [admin EXCEPT ![a] = [pc |-> "disable", candidate |-> c, loaded |-> enabled[c]]]
    /\ UNCHANGED <<day, enabled, modelOn, evaluations, forecasts, curves, run, rowsHeld, stops, broken>>

\* Mutant: only the rows that are enabled are locked.
Rows_OnlyEnabled == Active

\* The rows that disable_candidates updates: all, whatever their value
Rows == {c \in Candidates : enabled[c] # "absent"}

\* The bulk UPDATE; the second of two requests waits for the rows of the first
DisableCandidates(a) ==
    /\ admin[a].pc = "disable"
    /\ \A c \in Rows : rowsHeld[c] = NoCandidate
    /\ rowsHeld' = [c \in Candidates |-> IF c \in Rows THEN a ELSE rowsHeld[c]]
    /\ admin' = [admin EXCEPT ![a].pc = "enable"]
    /\ UNCHANGED <<day, enabled, modelOn, evaluations, forecasts, curves, run, stops, broken>>

RowsFreed(a) == [c \in Candidates |-> IF rowsHeld[c] = a THEN NoCandidate ELSE rowsHeld[c]]

\* Mutant: the session writes the fields that it changed, whatever the row holds now.
IsWritten_Unsynchronized(a) == admin[a].loaded = "no"

\* enabled = True is a change: the bulk UPDATE has reset the session's copy as well
IsWritten(a) == TRUE

\* enabled = True and the commit
CommitActivation(a) ==
    LET c == admin[a].candidate
    IN  /\ admin[a].pc = "enable"
        /\ rowsHeld[c] \in {NoCandidate, a}
        /\ enabled' = [x \in Candidates |->
               CASE x = c /\ IsWritten(a) -> "yes"
                 [] ~(x = c /\ IsWritten(a)) /\ rowsHeld[x] = a -> "no"
                 [] OTHER -> enabled[x]]
        /\ rowsHeld' = RowsFreed(a)
        /\ admin' = [admin EXCEPT ![a] = NoRequest]
        /\ UNCHANGED <<day, modelOn, evaluations, forecasts, curves, run, stops, broken>>

\* The death of the process, or an error of a later statement
AbortActivation(a) ==
    /\ admin[a].pc # "idle"
    /\ admin' = [admin EXCEPT ![a] = NoRequest]
    /\ rowsHeld' = RowsFreed(a)
    /\ UNCHANGED <<day, enabled, modelOn, evaluations, forecasts, curves, run, stops, broken>>

SwitchModel(c) ==
    /\ modelOn' = IF c \in modelOn THEN modelOn \ {c} ELSE modelOn \cup {c}
    /\ UNCHANGED <<day, enabled, evaluations, forecasts, curves, run, admin, rowsHeld, stops, broken>>

NextDay ==
    /\ day < MaxDay /\ run.pc = "idle"
    /\ day' = day + 1
    /\ UNCHANGED <<enabled, modelOn, evaluations, forecasts, curves, run,
                    admin, rowsHeld, stops, broken>>

PredictionNext ==
    \/ StartRun \/ ListCandidates \/ CommitRun \/ BreakRun \/ StopRun \/ NextDay
    \/ \E t \in Targets : ForecastTarget(t)
    \/ \E c \in Candidates : EvaluateCandidate(c) \/ CreateCandidate(c) \/ SwitchModel(c)
    \/ \E a \in Admins : \/ \E c \in Candidates : RequestActivation(a, c)
                         \/ DisableCandidates(a) \/ CommitActivation(a) \/ AbortActivation(a)

PredictionSpec == PredictionInit /\ [][PredictionNext]_predictionVars

-----------------------------------------------------------------------------
(* Correctness.                                                            *)

\* Type invariant: windows, days and drafts stay within the horizon.
PredictionTypeOK ==
    /\ day \in 0..MaxDay /\ stops \in 0..MaxStops /\ broken \in BOOLEAN
    /\ enabled \in [Candidates -> {"absent", "no", "yes"}] /\ modelOn \subseteq Candidates
    /\ evaluations \in [Candidates -> SUBSET Evaluation]
    /\ forecasts \subseteq Targets \X (0..MaxDay)
    /\ curves \subseteq Candidates \X BusinessTargets \X (0..MaxDay)
    /\ run.pc \in {"idle", "forecast", "evaluate"} /\ run.todo \subseteq Targets
    /\ run.f \subseteq Targets \X (0..MaxDay) /\ run.candidates \subseteq Candidates
    /\ rowsHeld \in [Candidates -> Admins \cup {NoCandidate}]

\* Exactly one candidate draws the predictions that people see, from the first activation on:
\* two administrators who activate different candidates at the same time never leave two
\* (disable_candidates locks every row), and switching, or activating the active one again,
\* never leaves none.
OneTakesOver == [][Cardinality(Active') <= 1 /\ (Active # {} => Active' # {})]_predictionVars

\* A window of a candidate is judged once: a run that is repeated cannot judge it differently.
JudgedOnce ==
    \A c \in Candidates : \A x, y \in evaluations[c] : x.end = y.end => x = y

\* A day's forecasts are there for all targets or for none, whatever run was killed.
DaysAreComplete ==
    \A d \in 0..MaxDay : {t \in Targets : <<t, d>> \in forecasts} \in {{}, Targets}

\* The design document: all four kinds of target take part in the candidate's generation; a run
\* is not undone by what it generates.
RunsAreNotBroken == ~broken
=============================================================================
