SPECIFICATION FairSpec
PROPERTY DaemonStops
PROPERTY LostReaped
PROPERTY DeadBridgeForgotten
CONSTANTS
    Serials = {s1}
    Callers = {c1, c2}
    MaxBridges = 1
    Window = 1
CHECK_DEADLOCK FALSE
