SPECIFICATION Spec
CONSTANTS
    Servers = {s1}
    ServerMsgs = {m1, m2, m3, m4}
    ClientMsgs = {}
    Unstored = {m3}
    Unserved = {m4}
    MaxParallelism = 1
    ChunkSize = 1
    LooperLimit = 2
    MaxCrashes = 1
CHECK_DEADLOCK FALSE
INVARIANTS
    TypeOK
    PendingIffUnprocessed
    AckedIsStored
    CallsBounded
PROPERTIES
    ResultsFollowContract
