\* Four components, one at a time.
SPECIFICATION ProgressSpec
CONSTANTS
    \* AlertDelivery: the hard time limit (45 s) is shorter than the lease (60 s)
    Alerts = {a1, a2}
    Workers = {w1, w2}
    Recipients = 2
    MaxDeliveryAttempts = 2
    Lease = 2
    TimeLimit = 1
    ScanLimit = 1
    QueueBound = 2
    AttemptBound = 3
    MaxCrashes = 1
    MaxToggles = 1
    NoAlert = NoAlert
    NoTime = NoTime
    RetryDelay <- ShortDelays
    \* ChatTurn: one turn, an agent's for instance; a detail view, a quota tool and a name that is not registered
    Turns = {t1, t2}
    AgentTurns = {t2}
    ReadableProjects = {p}
    Calls = {detail, quota, other}
    NameOf <- Names
    ScopeOf <- Scopes
    QuotaCalls = {quota}
    Unlisted = {other}
    MaxIterations = 2
    MaxArgumentRepairs = 1
    MaxFailureRepairs = 1
    MaxBatch = 2
    MaxRuns = 2
    MaxLosses = 1
    \* ProjectMembership: one directory, two requests
    Users = {u1, u2}
    Directories = {directory}
    ProjectRequests = {q1, q2}
    MaxOps = 4
    Nobody = Nobody
    \* VendorEventIntake: four events, two of them in the second request of OneFS
    DeviceEvents = {e1, e2, e3, e4}
    Listed = {e2, e3}
    OccurredAt <- Occurred
    Overlap = 3
    Lookback = 5
    ShownWithin = 2
    TaskLimit = 1
    MaxTime = 9
    MaxFailures = 1
    p = p
    t1 = t1
    t2 = t2
    detail = detail
    u1 = u1
    e1 = e1
    e2 = e2
    e3 = e3
    e4 = e4
\* The turn ends, and requests, time and failures are bounded: three parts stop in the end.
CHECK_DEADLOCK FALSE
INVARIANTS
    OneSenderPerAlert AdminsAreAppointed NothingPassedOver
PROPERTIES
    ImplementsOutbox EventuallySettled TurnsSettle DirectoryOwnersGetAccess EventsArrive
