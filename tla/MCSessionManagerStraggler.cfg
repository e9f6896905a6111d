CONSTANTS
    Opens = {o1}
    Commands = {c1}
    PtyCap = 1
    MaxUnread = 1
    None = None
    o1 = o1
    o2 = o2
    c1 = c1
    c2 = c2
CHECK_DEADLOCK FALSE
SPECIFICATION SessionFairSpec
PROPERTY StragglerDies
