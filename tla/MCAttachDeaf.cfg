CONSTANTS
    Keys = {k1}
    Users = {u1, u2, u3}
    Sizes = {z1}
    MaxTyped = 1
    None = None
    Tails = {t1}
    WindowBytes = 1
    ChunkBytes = 1
    MaxAwaitRetries = 0
    MaxBytes = 0
    MaxFiles = 0
    MaxFailures = 0
    t1 = t1
    k1 = k1
    k2 = k2
    u1 = u1
    u2 = u2
    u3 = u3
    z1 = z1
    z2 = z2
CHECK_DEADLOCK FALSE
SPECIFICATION TabSpec
INVARIANT MountedTerminalHears
