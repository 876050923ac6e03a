SPECIFICATION Spec
CONSTANTS
    MaxConns = 2
    MaxTicks = 1
CHECK_DEADLOCK FALSE
INVARIANT SnapshotPointInTime
