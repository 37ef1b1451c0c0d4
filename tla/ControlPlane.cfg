SPECIFICATION FairSpec
INVARIANT TypeOK
INVARIANT RestartKeepsBridges
INVARIANT FailedHandoffEndsChild
INVARIANT HandoffKeepsPath
PROPERTY RestartSettles
PROPERTY CallEnds
CONSTANTS
    Clients = {c1, c2}
    Ops = {"start", "stop", "restart", "shutdown"}
    MaxProcs = 3
    MaxBridges = 2
    MaxCrashes = 1
CHECK_DEADLOCK FALSE
