SPECIFICATION Spec
CONSTANTS
    None = None
    Msgs = {"a"}
    LazyStart = FALSE
    Inactivity = FALSE
    outFlushBytes = 1
    StdParams = TRUE
    Monitoring = TRUE
    MaxStarts = 1
    MaxHeard = 1
    MaxWritten = 1
INVARIANTS
    NoSendOnClosed
CHECK_DEADLOCK FALSE
