SPECIFICATION Spec
CONSTANTS
    c1 = c1
    c2 = c2
    Clients = {c1, c2}
    None = None
    NumAddrs = 2
    NumFds = 2
    Limit = 2
    Every = 1
    Kinds = {"keepalive"}
    Traffic = 1
    Packets = 2
    Serial = FALSE
    Leaves = FALSE
SYMMETRY Sym
INVARIANT NoAssertFails
CHECK_DEADLOCK FALSE
