SPECIFICATION FairSpec
CONSTANTS
    TIMEOUT = 0
    IntBytes = 2
    Longs = 2
    Traffic = {"HEARTBEAT", "ZERO_LENGTH", "PACKET_RECV"}
    MaxDown = 2
INVARIANT AnswersMatch
INVARIANT CommandsAligned
PROPERTY StartReturns
PROPERTY ClientEnds
PROPERTY InterfaceReleased
CHECK_DEADLOCK FALSE
