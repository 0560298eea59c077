SPECIFICATION FairSpec
CONSTANTS
    c1 = c1
    c2 = c2
    Clients = {c1, c2}
    None = None
    NumAddrs = 2
    NumFds = 1
    Limit = 2
    Every = 1
    Kinds = {"keepalive"}
    Traffic = 1
    Packets = 0
    Serial = TRUE
    Leaves = TRUE
PROPERTY GonePeerClosed
PROPERTY PoolSpec
CHECK_DEADLOCK FALSE
