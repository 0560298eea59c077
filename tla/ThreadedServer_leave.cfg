SPECIFICATION Spec
CONSTANTS
    c1 = c1
    c2 = c2
    Clients = {c1, c2}
    None = None
    NumAddrs = 2
    NumFds = 2
    Limit = 2
    Every = 2
    Kinds = {"data"}
    Traffic = 1
    Packets = 1
    Serial = TRUE
    Leaves = TRUE
SYMMETRY Sym
INVARIANT TypeOK
INVARIANT HolderIsFound
INVARIANT NumberStaysOurs
INVARIANT NoSelfDeadlock
INVARIANT FramesWhole
INVARIANT AddressFirst
 
CHECK_DEADLOCK FALSE
