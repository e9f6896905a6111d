CONSTANTS
    None = None
    Runs = {1, 2}
    Payload <- ExecPayload
    PipeSize = 1
    MaxOut = 2
    Probers = {t1, t2}
    MaxReinstalls = 1
    Accounts = {g1, g2}
    MaxSwitches = 1
    TuiHosts = {h1}
    AgentKinds = {a1}
    Worlds <- LiveWorlds
    AuthModes <- Modes
    Troubles = {"host_key_changed"}
    MaxRows = 0
    t1 = t1
    t2 = t2
    g1 = g1
    g2 = g2
    h1 = h1
    a1 = a1
CHECK_DEADLOCK FALSE
SPECIFICATION LinksFairSpec
INVARIANTS
    OutputIsWhole
PROPERTIES
    QuietRunsReturn
    CacheHeals
    ResyncCompletes
    SignsIn
