\* Nothing fails, but the human asks again while a rung runs.
SPECIFICATION Spec
CONSTANTS
    Cheap = Cheap
    Dear = Dear
    Again = Again
    q1 = q1
    q2 = q2
    Plans = {Cheap, Dear}
    Asks <- Question
    Rungs <- Heights
    Cost <- Costs
    Budget <- Envelopes
    Denied <- DeniedRung
    MaxCards = 5
    NoLadder = NoLadder
    NoRung = NoRung
    Patient = FALSE
    Faults = {}
INVARIANT
    LaunchIsTheCard
