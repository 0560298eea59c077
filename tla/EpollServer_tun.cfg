SPECIFICATION Spec
CONSTANTS
    c1 = c1
    c2 = c2
    c3 = c3
    f1 = f1
    f2 = f2
    Conns = {c1, c2}
    Fds = {f1, f2}
    ServerFd = ServerFd
    TunFd = TunFd
    NoConn = NoConn
    NoFd = NoFd
    MAX_CLIENTS = 5
    HARTBEAT_INTERVAL = 0
    HARTBEAT_TIMEOUT = 1
    BufCap = 2
    RcvCap = 2
    TunCap = 2
    TunQCap = 1
    Traffic = {"KEEPALIVE"}
    FreeOnEOF = TRUE
    TunSkips = TRUE
    TunWriteMayFail = FALSE
    Aborts = TRUE
    SlowStart = FALSE
    EpollMayFail = FALSE
SYMMETRY Sym
INVARIANT FramesToHolder
INVARIANT NothingLeftBehind
CHECK_DEADLOCK FALSE
