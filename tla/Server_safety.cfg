SPECIFICATION Spec
CONSTANTS
    Conns = {c1, c2, c3}
    NoConn = NoConn
    MaxConnections = 1
    IdleTimeout = TRUE
    DeniedAddr = {c3}
    DeniedStartup = {}
    Stalls = {"ssl", "write", "terminate", "accept"}
SYMMETRY Symmetry
INVARIANTS
    TypeOK
    CapRespected
    MetricsLedger
    ForceCloseComplete
    StopClean
PROPERTY AdmissionKept
