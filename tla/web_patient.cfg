\* A patient human, two questions, every failure.
SPECIFICATION FairSpec
CONSTANTS
    Cheap = Cheap
    Dear = Dear
    Again = Again
    q1 = q1
    q2 = q2
    Plans = {Cheap, Dear}
    Asks <- Question
    Rungs <- Heights
    Cost <- Costs
    Budget <- Envelopes
    Denied <- DeniedRung
    MaxCards = 5
    NoLadder = NoLadder
    NoRung = NoRung
    Patient = TRUE
    Faults = {"plan", "launch", "orphan", "store", "receipt", "reply"}
INVARIANTS
    TypeOK
    LaunchIsTheCard
    CheapestFirst
    NoRungTwice
    ClimbStaysInEnvelope
    ReceiptsAddUp
PROPERTIES
    HITLSpec
    EveryGoSettles
