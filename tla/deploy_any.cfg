SPECIFICATION FairSpec
CONSTANTS
    Operators = {1}
    Resources <- Twelve
    Mishaps = 1
    Ids = {1, 2}
    Attempts = 2
    Ceiling = 4
    Histories <- Published
INVARIANTS
    TypeOK
    AppliedIsWhole
    TornDownIsEmpty
    FailureNeedsAMishap
    NeverTwo
    NoStrandedPermission
    ResolvedIsNewest
PROPERTIES
    ImplementsDeployer
    EveryRunEnds
