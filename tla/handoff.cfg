SPECIFICATION FairLifeSpec
CONSTANTS
    Boxes = {i1}
    Session = i1
    ActivePorts = {p8000}
    Zips = {z1, z2}
    SizeOf <- Sizes
    MaxBytes = 5
    MaxExports = 2
    GraphWait = 3
    IdleGrace = 6
    OriginTimeout = 2
    PollEvery = 1
    PageWait = 4
INVARIANTS
    TypeOK
    DoneIsSaved
    GraphReachesWorker
    PollingKeepsAwake
    BundleIsWhole
    BundleIsCapped
PROPERTIES
    ImplementsPromise
    EveryGoEnds
