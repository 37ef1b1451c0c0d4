SPECIFICATION Spec
INVARIANT ReadyMeansReplaced
CONSTANTS
    Clients = {c1}
    Ops = {"restart"}
    MaxProcs = 2
    MaxBridges = 1
    MaxCrashes = 0
CHECK_DEADLOCK FALSE
