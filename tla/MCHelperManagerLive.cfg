CONSTANTS
    Hosts = {h1}
    Opens = {o1, o2}
    Calls = {c1}
    Closes = {}
    PipeCap = 1
    None = None
    h1 = h1
    h2 = h2
    o1 = o1
    o2 = o2
    c1 = c1
    c2 = c2
    k1 = k1
SPECIFICATION FairSpec
CHECK_DEADLOCK FALSE
PROPERTIES
    EndedChildDies
    CommandsReturn
    DeadSessionIsReaped
