SPECIFICATION FairSpec
CONSTANTS
    Releases = 2
    MaxRules = 2
INVARIANT TypeOK
PROPERTIES SuccessIsHonest RetriesRecover
