\* The claim that a reconciliation repairs the row.
SPECIFICATION Spec
CONSTANTS
    Requests = {r1, r2}
    Collectors = {c1}
    Limits = {v1, v2}
    TtlSuffices = TRUE
    MaxByHand = 0
    NoLimit = NoLimit
    NoOne = NoOne
    Orphan = Orphan
PROPERTY ReconcileRepairs
