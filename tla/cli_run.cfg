\* Every flag, every failure, a kill at any point, three kinds of plan.
SPECIFICATION FairSpec
CONSTANTS
    Tall = Tall
    Expert = Expert
    Steep = Steep
    Plans = {Tall, Expert, Steep}
    Asks <- Question
    Rungs <- Heights
    Cost <- Costs
    Budget <- Envelopes
    Denied <- DeniedRung
    Boxes = {1, 2, 3}
    ActivePorts = {8000}
    Ports = {54321}
    NoLadder = NoLadder
    NoBox = NoBox
    NoPort = NoPort
    NoRung = NoRung
INVARIANTS
    TypeOK
    NothingLeftRunning
    SpentIsExact
PROPERTIES
    HITLSpec
    RungReapsItself
CHECK_DEADLOCK FALSE
