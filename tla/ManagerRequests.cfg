SPECIFICATION Spec
INVARIANT TypeOK
INVARIANT NoOrphanBridge
INVARIANT DoneReleasesPort
INVARIANT ReapSafe
PROPERTY ImplementsDirectory
CONSTANTS
    Serials = {s1}
    Callers = {c1, c2}
    MaxBridges = 2
    Window = 1
CHECK_DEADLOCK FALSE
