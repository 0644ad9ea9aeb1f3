SPECIFICATION Spec
CONSTANTS
    None = None
    Servers = {s1}
    Clients = {c1, c2, c3}
    Limits = {2}
    BroadcastUnlimited = 9
    AllocDen = 5
    MaxInfos = 3
INVARIANTS
    LimitRespected
