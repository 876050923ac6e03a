SPECIFICATION FairSpec
CONSTANTS
    Conns = {c1, c2}
    NoConn = NoConn
    MaxConnections = 2
    IdleTimeout = TRUE
    DeniedAddr = {}
    DeniedStartup = {c2}
    Stalls = {}
INVARIANT ForceCloseComplete
PROPERTIES
    StopTerminates
    SlotReleased
    RelayGoroutinesExit
    IdleRelayReleased
