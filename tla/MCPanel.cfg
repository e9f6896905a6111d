CONSTANTS
    None = None
    Keys = {k1, k2}
    Users = {u1, u2, u3}
    Paths = {"top", "deep"}
    MaxIds = 2
    Watchers = {u1, u2}
    Above <- DeepInTop
    Repos = {"top", "deep"}
    FrameCap = 2
    Requests <- ServerRequests
    OutSize = 1
    MaxLines = 2
    MaxCommits = 1
    MaxPending = 1
    Null = Null
    Opens = {o1, o2}
    Commands = {c1}
    PtyCap = 1
    MaxUnread = 1
    k1 = k1
    k2 = k2
    u1 = u1
    u2 = u2
    u3 = u3
    o1 = o1
    o2 = o2
    c1 = c1
CHECK_DEADLOCK FALSE
SPECIFICATION PanelFairSpec
PROPERTIES
    NoLeakedResource
    ImplementsKeyedResource
    WatchingEnds
    AnswersNameTheirLine
    EveryLineIsAnswered
    CommitIsPushed
    SessionsSettle
