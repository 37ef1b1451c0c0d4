SPECIFICATION Spec
INVARIANT Pairing
INVARIANT Tracked
INVARIANT IdsInv
INVARIANT ReleaseInv
CONSTANTS
    MaxServices = 2
    MaxWrites = 0
    MaxChunks = 1
    NetCap = 1
    BufCap = 1
    OpenKinds = {"run"}
    DeviceCouples = FALSE
CHECK_DEADLOCK FALSE
