CONSTANTS
    Keys = {k1, k2}
    Users = {u1, u2, u3}
    Sizes = {z1, z2}
    MaxTyped = 2
    None = None
    Tails = {t1}
    WindowBytes = 2
    ChunkBytes = 1
    MaxAwaitRetries = 1
    MaxBytes = 3
    MaxFiles = 2
    MaxFailures = 1
    t1 = t1
    k1 = k1
    k2 = k2
    u1 = u1
    u2 = u2
    u3 = u3
    z1 = z1
    z2 = z2
CHECK_DEADLOCK FALSE
SPECIFICATION TabSpec
CONSTRAINT Unlost
SYMMETRY Symmetric
INVARIANTS
    EventsStayInTheTab
    InputInOrder
    
    HeldIsTheFile
PROPERTY
    HearingLasts
