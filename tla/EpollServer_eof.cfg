SPECIFICATION FairSpec
CONSTANTS
    c1 = c1
    c2 = c2
    c3 = c3
    f1 = f1
    f2 = f2
    Conns = {c1, c2}
    Fds = {f1, f2}
    ServerFd = ServerFd
    TunFd = TunFd
    NoConn = NoConn
    NoFd = NoFd
    MAX_CLIENTS = 4
    HARTBEAT_INTERVAL = 0
    HARTBEAT_TIMEOUT = 1
    BufCap = 2
    RcvCap = 1
    TunCap = 2
    TunQCap = 0
    Traffic = {"KEEPALIVE", "OTHER"}
    FreeOnEOF = TRUE
    TunSkips = FALSE
    TunWriteMayFail = FALSE
    Aborts = TRUE
    SlowStart = TRUE
    EpollMayFail = FALSE
PROPERTY LivePeerKept
PROPERTY ClosedPeerReleased
CHECK_DEADLOCK FALSE
