\* The claim that every kind of target takes part once a candidate is active.
SPECIFICATION PredictionSpec
CONSTANTS
    Targets = {project, group}
    BusinessTargets = {project, group}
    StorableTargets = {group}
    Candidates = {v1}
    Admins = {x1}
    WindowDays = 1
    FirstHistory = 2
    MaxDay = 2
    MaxStops = 0
    NoCandidate = NoCandidate
\* The days are over in the end.
CHECK_DEADLOCK FALSE
INVARIANT RunsAreNotBroken
