SPECIFICATION Spec
CONSTANTS
    Msgs = {"a", "b"}
    NumServers = 1
    MaxConns = 1
    MaxRekeys = 0
    MaxResets = 1
    MaxBeacons = 0
    MayStop = FALSE
INVARIANTS
    FlushTruthful
CHECK_DEADLOCK FALSE
