SPECIFICATION FairSpec
CONSTANT Requests = {r1, r2, r3}
INVARIANTS TypeOK DrainedBeforeClose CleanExit
PROPERTIES LivesAsAssumed HostExits
CHECK_DEADLOCK FALSE
