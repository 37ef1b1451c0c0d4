SPECIFICATION Spec
INVARIANT NoConnLeak
CONSTANTS
    MaxServices = 1
    MaxWrites = 0
    MaxChunks = 0
    NetCap = 2
    BufCap = 1
    OpenKinds = {"run"}
    DeviceCouples = FALSE
CHECK_DEADLOCK FALSE
