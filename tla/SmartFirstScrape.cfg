SPECIFICATION Spec
CONSTANTS
    d1 = d1
    d2 = d2
    d3 = d3
    n1 = n1
    n2 = n2
    Devices = {d1, d2}
    Names = {n1, n2}
    NameOf <- OwnName
    Excluded = {}
    KillCanFail = FALSE
    MaxAge = 2
    ScanJob = ScanJob
    NoReport = NoReport
INVARIANTS FirstScrapeHasData
