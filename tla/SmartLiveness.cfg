SPECIFICATION FairSpec
CONSTANTS
    d1 = d1
    d2 = d2
    d3 = d3
    n1 = n1
    n2 = n2
    Devices = {d1, d2, d3}
    Names = {n1, n2}
    NameOf <- SharedName
    Excluded = {n2}
    KillCanFail = TRUE
    MaxAge = 2
    ScanJob = ScanJob
    NoReport = NoReport
INVARIANT ExcludedNeverFetched
PROPERTIES CycleEnds DisposeEnds Recovers
