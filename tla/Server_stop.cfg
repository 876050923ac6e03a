SPECIFICATION FairSpec
CONSTANTS
    Conns = {c1}
    NoConn = NoConn
    MaxConnections = 1
    IdleTimeout = TRUE
    DeniedAddr = {}
    DeniedStartup = {}
    Stalls = {"ssl", "write", "terminate"}
PROPERTY StopTerminates
