SPECIFICATION FairSpec
CONSTANTS
    Procs = {p1, p2, p3}
    Activated = {p3}
    Overlap = TRUE
    Slow = {p1, p2, Systemd}
    Nothing = Nothing
    OtherFile = OtherFile
    Systemd = Systemd
    Existing = {Nothing, OtherFile, Systemd}
    MaxStarts = 6
CHECK_DEADLOCK FALSE
INVARIANT LiveSocketKept
PROPERTIES
    ForeignFileKept
    RestartSucceeds
