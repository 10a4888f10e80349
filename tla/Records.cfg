\* Two components, one at a time.
SPECIFICATION RecordsSpec
CONSTANTS
    \* QuotaAdjustment: two requests and a collection; no request outlives the TTL of its lock
    Requests = {r1, r2}
    Collectors = {c1}
    Limits = {l1, l2}
    TtlSuffices = TRUE
    MaxByHand = 1
    NoLimit = NoLimit
    NoOne = NoOne
    Orphan = Orphan
    \* IncidentCorrelation: late, duplicate and concurrent evidence of a key, and scans of vendor events
    VendorEvents = {v1, v2, v3}
    Alerts = {a1}
    Forecasts = {f1}
    Keys = {faults, pressure}
    KeyOf <- KeyFn
    TimeOf <- Spread
    Critical = {v1, v2, v3, a1}
    Window = 2
    BucketLength = 2
    Tasks = {t1, t2}
    ScanLimit = 3
    MaxCrashes = 1
    MaxWindows = 1
    NoTask = NoTask
    NoEvent = NoEvent
    NoBucket = NoBucket
    NoRow = NoRow
    v1 = v1
    v2 = v2
    v3 = v3
    a1 = a1
    a2 = a2
    f1 = f1
    faults = faults
    pressure = pressure
\* When every event is recorded and every incident resolved the incidents stop.
CHECK_DEADLOCK FALSE
INVARIANTS
    OneAtATime
    BooksAreConsistent
PROPERTIES
    EveryWriteIsOnRecord ImplementsLedger AdjustmentStored LocalConverges OrphanFreed
    VendorEventsRecorded
