SPECIFICATION FairSpec
INVARIANT TypeOK
INVARIANT FlowControl
INVARIANT NoLostAck
INVARIANT NoLostAnswer
INVARIANT OnlyOkayAfterClse
INVARIANT RefusalBeforeOpen
INVARIANT LeakOnlyAtShutdown
PROPERTY OpenAnswered
PROPERTY WriteAnswered
PROPERTY ServiceEnds
PROPERTY SessionStops
CONSTANTS
    MaxServices = 1
    MaxWrites = 2
    MaxChunks = 2
    NetCap = 3
    BufCap = 1
    OpenKinds = {"run", "local"}
    DeviceCouples = FALSE
CHECK_DEADLOCK FALSE
