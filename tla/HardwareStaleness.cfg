SPECIFICATION Spec
CONSTANTS
    s1 = s1
    s2 = s2
    N = 2
    Sensors = {s1, s2}
    NodeOf <- OneEach
    Unit = {s1}
    Clashing = {}
    Loop = Loop
    Callers = {Loop}
    Requests = {r1}
    MaxAge = 2
    NoValue = NoValue
INVARIANTS StalenessBounded
CHECK_DEADLOCK FALSE
