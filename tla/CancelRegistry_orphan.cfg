SPECIFICATION Spec
CONSTANTS
    Sessions = {s1}
    Cancels = {x1}
    Backends = {b1, b2}
    Pids = {p1, p2}
    Secrets = {k1, k2}
    NoKey = NoKey
    NoBackend = NoBackend
CHECK_DEADLOCK FALSE
INVARIANT NoOrphanEntry
