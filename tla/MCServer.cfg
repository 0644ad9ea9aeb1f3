SPECIFICATION MCSpec
CONSTANTS
    None = None
    Servers = {"s"}
    Conns = {"c", "d"}
    AdminMsgs = {"m"}
    Bcasts = {"b"}
    maxMessagesPerContact = 1
    MaxFaults = 1
INVARIANTS
    TypesOK
    OkOnlyIfProcessed
    NoLostWakeup
    ContactsContained
    StaleBounded
    NoUseAfterStop
    ExtractsFirst
    SplitsWithinSkips
    
    StoresAgree
    
    NeverForgotten
    NotModifiedIsCurrent
    StoredWhole
CHECK_DEADLOCK FALSE
