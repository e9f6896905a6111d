CONSTANTS
    Paths = {p1}
    MaxIds = 3
    Watchers = {u1, u2, u3}
    None = None
    p1 = p1
    u1 = u1
    u2 = u2
    u3 = u3
CHECK_DEADLOCK FALSE
SPECIFICATION PoolSpec
INVARIANT HeldIsWatched
