SPECIFICATION FairSpec
CONSTANTS
    Inputs <- AllInputs
    Patterns <- AllPatterns
    Star = "*"
    Any = "?"
INVARIANTS TypeOK ExcludesOnlyMatches ExcludesAllMatches
PROPERTIES Terminates
CHECK_DEADLOCK FALSE
