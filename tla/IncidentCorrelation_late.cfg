\* The claim that late evidence forms incidents of its own.
SPECIFICATION MCSpec
CONSTANTS
    VendorEvents = {v1, v2, v3}
    Alerts = {}
    Forecasts = {}
    Keys = {faults, pressure}
    KeyOf <- KeyFn
    TimeOf <- Crowded
    Critical = {v1, v2, v3}
    Window = 2
    BucketLength = 2
    Tasks = {t1, t2}
    ScanLimit = 3
    MaxCrashes = 0
    MaxWindows = 0
    NoTask = NoTask
    NoEvent = NoEvent
    NoBucket = NoBucket
    NoRow = NoRow
    v1 = v1
    v2 = v2
    v3 = v3
    a1 = a1
    a2 = a2
    f1 = f1
    faults = faults
    pressure = pressure
\* When every event is recorded and every incident resolved the system stops.
CHECK_DEADLOCK FALSE
PROPERTY VendorEventsRecorded
