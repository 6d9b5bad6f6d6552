\* The worker's port is chosen by the system, the active port is 8000.
SPECIFICATION FairSpec
CONSTANTS
    Tall = Tall
    Expert = Expert
    Steep = Steep
    Plans = {Tall, Expert, Steep}
    Asks <- Question
    Rungs <- Heights
    Cost <- Costs
    Budget <- Envelopes
    Denied <- DeniedRung
    Boxes = {1, 2, 3}
    ActivePorts = {8000}
    Ports = {54321}
    NoLadder = NoLadder
    NoBox = NoBox
    NoPort = NoPort
    NoRung = NoRung
PROPERTIES
    BusyBoxIsNotIdle
CHECK_DEADLOCK FALSE
