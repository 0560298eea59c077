SPECIFICATION FairSpec
CONSTANTS
    p1 = p1
    p2 = p2
    c1 = c1
    c2 = c2
    Producers = {p1, p2}
    Consumers = {c1, c2}
    Nobody = Nobody
    NoMessage = NoMessage
    PushCap = 2
INVARIANT TypeOK
INVARIANT NoLostWakeup
INVARIANT NeverReadsEmpty
PROPERTY ChannelSpec
PROPERTY EverySentIsTaken
CHECK_DEADLOCK FALSE
