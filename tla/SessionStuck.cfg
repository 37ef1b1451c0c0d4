SPECIFICATION FairSpec
PROPERTY AckReleases
CONSTANTS
    MaxServices = 1
    MaxWrites = 2
    MaxChunks = 2
    NetCap = 2
    BufCap = 1
    OpenKinds = {"run"}
    DeviceCouples = TRUE
CHECK_DEADLOCK FALSE
