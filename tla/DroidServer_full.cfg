SPECIFICATION Spec
CONSTANTS
    Messages = {"IP_REQUEST", "REQUEST"}
    None = None
    InCap = 3
    OutCap = 3
    SndCap = 3
    LowWater = 3
    HEARTBEAT = 0
    MaxMessages = 2
    MaxPackets = 4
INVARIANT FinishedByClient
CHECK_DEADLOCK FALSE
