SPECIFICATION Spec
INVARIANT TypeOK
INVARIANT MappedListenerOpen
INVARIANT NoOrphanListener
INVARIANT DeviceAgrees
CONSTANTS
    Handlers = {h1, h2}
    Closer = closer
    Names = {a}
    Ports = {p}
    AutoPort = auto
    MaxCommands = 3
CHECK_DEADLOCK FALSE
