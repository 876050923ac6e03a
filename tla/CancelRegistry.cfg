SPECIFICATION Spec
CONSTANTS
    Sessions = {s1, s2}
    Cancels = {x1, x2}
    Backends = {b1, b2}
    Pids = {p1, p2}
    Secrets = {k1, k2}
    NoKey = NoKey
    NoBackend = NoBackend
SYMMETRY Symmetry
CHECK_DEADLOCK FALSE
INVARIANTS
    TypeOK
    CancelReachesIssuer
    ToldKeyUsable
    ToldKeyDeleted
