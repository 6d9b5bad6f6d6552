\* A human who asks again while rungs run, the same question twice, every failure.
SPECIFICATION Spec
CONSTANTS
    Cheap = Cheap
    Dear = Dear
    Again = Again
    q1 = q1
    q2 = q2
    Plans = {Cheap, Again}
    Asks <- Question
    Rungs <- Heights
    Cost <- Costs
    Budget <- Envelopes
    Denied <- DeniedRung
    MaxCards = 6
    NoLadder = NoLadder
    NoRung = NoRung
    Patient = FALSE
    Faults = {"plan", "launch", "orphan", "store", "receipt", "reply"}
INVARIANTS
    SpentNeverOverstated
    MeterIsBacked
