SPECIFICATION FairSpec
CONSTANTS
    s1 = s1
    s2 = s2
    N = 2
    Sensors = {s1, s2}
    NodeOf <- OneEach
    Unit = {s1}
    Clashing = {s2}
    Loop = Loop
    Callers = {Loop, Warmup}
    Requests = {r1}
    MaxAge = 2
    NoValue = NoValue
INVARIANTS TypeOK UpdatesExclude CloseSparesLoop PrefixFresh
PROPERTIES FailuresExplained LoopStops KeepsUpdating
CHECK_DEADLOCK FALSE
