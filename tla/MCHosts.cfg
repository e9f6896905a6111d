CONSTANTS
    None = None
    Paths = {"top"}
    MaxIds = 3
    Watchers = {u1, u2, u3}
    Opens = {v1, v2}
    Commands = {w1, w2}
    PtyCap = 1
    MaxUnread = 1
    Installers = {u1, u2}
    Builds = {v1, v2}
    Unames <- TwoUnames
    AskHosts = {v1, v2}
    Asks = {w1, w2}
    Ports = {1, 2}
    MaxServes = 1
    MaxGeneration = 3
    Clients = {v1, v2}
    Ids = {i1, i2}
    Old = {i1}
    ListCap = 2
    ReadCap = 3
    FileCap = 4
    PatchCap = 2
    SniffBytes = 1
    Worktrees <- Trees
    OpRequests <- AllRequests
    Nil = Nil
    Hosts <- AnyTools
    Edits <- Edited
    Boxes <- Remotes
    Typed <- TypedPaths
    Histories <- Sessions
    Products = {"claude", "codex", "pi"}
    Oses = {"posix", "windows"}
    Pkgs = {"brew", "none"}
    MaxChanges = 1
    TuiHosts = {h1, h2}
    AgentKinds = {i1}
    Worlds <- PasswordHosts
    AuthModes <- AutoMode
    Troubles = {}
    MaxRows = 1
    u1 = u1
    u2 = u2
    u3 = u3
    v1 = v1
    v2 = v2
    w1 = w1
    w2 = w2
    h1 = h1
    h2 = h2
    i1 = i1
    i2 = i2
CHECK_DEADLOCK FALSE
SPECIFICATION HostsSpec
SYMMETRY Symmetric
INVARIANTS
    HostsTypeOK
    
    ClosedIsDead
    ExitIsTheLastWord
    NativeIsVerified
    OneAgentPerConversation
    PinNamesTheConversation
    RepliesAreWhole
    
    ScreenMatchesSelection
PROPERTIES
    PasswordStaysWithItsHost
    OnlyWholeBinaries
    
    RowsLeadWhereTheySay
