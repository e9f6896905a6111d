CONSTANTS
    Hosts = {h1}
    Opens = {o1, o2}
    Calls = {c1, c2}
    Closes = {k1}
    PipeCap = 1
    None = None
    h1 = h1
    h2 = h2
    o1 = o1
    o2 = o2
    c1 = c1
    c2 = c2
    k1 = k1
SPECIFICATION Spec
SYMMETRY Symmetric
INVARIANTS
    ReplyToItsCaller
    OneSessionPerHost
    NoOrphanedChild
    NoLeakedWaiter
    DisconnectedIsTrue
CHECK_DEADLOCK FALSE
