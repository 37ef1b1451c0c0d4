SPECIFICATION FairSpec
INVARIANT TypeOK
INVARIANT ReleasedAtEnd
INVARIANT OkayMeansStored
PROPERTY StreamEnds
CONSTANTS
    Kinds = {"sync", "shell", "shell_v2", "forward"}
    Cap = 2
    MaxRequests = 5
    Chunks = 2
    Retries = 3
CHECK_DEADLOCK FALSE
