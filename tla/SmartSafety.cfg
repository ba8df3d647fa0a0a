SPECIFICATION Spec
CONSTANTS
    d1 = d1
    d2 = d2
    d3 = d3
    n1 = n1
    n2 = n2
    Devices = {d1, d2, d3}
    Names = {n1, n2}
    NameOf <- SharedName
    Excluded = {}
    KillCanFail = FALSE
    MaxAge = 2
    ScanJob = ScanJob
    NoReport = NoReport
INVARIANTS TypeOK NothingOutlivesDispose
PROPERTIES CompleteRefresh AnsweredStaysServed StaysCurrent ImplementsCache
