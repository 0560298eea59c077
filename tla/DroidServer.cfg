SPECIFICATION FairSpec
CONSTANTS
    Messages = {"IP_REQUEST", "REQUEST"}
    None = None
    InCap = 3
    OutCap = 3
    SndCap = 3
    LowWater = 2
    HEARTBEAT = 0
    MaxMessages = 2
    MaxPackets = 4
INVARIANT TypeOK
INVARIANT FramesWhole
INVARIANT TunInOrder
PROPERTY MessengerSpec
PROPERTY MessageHandled
PROPERTY PacketForwarded
CHECK_DEADLOCK FALSE
