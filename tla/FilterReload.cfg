SPECIFICATION FairSpec
CONSTANTS
    Unnormalized = Unnormalized
    Nil = Nil
    Callers = {c1}
    Queries <- TwoHalves
    Files <- OperatorFiles
    MaxEdits = 2
INVARIANTS
    TypeOK
    VerdictSound
    NoReloadLost
    ServedAsConfigured
PROPERTIES
    DiesOnlyOfMetrics
    ReloadTakesEffect
    ExitTakesEffect
