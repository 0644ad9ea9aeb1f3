SPECIFICATION Spec
CONSTANTS
    None = None
    Servers = {s1, s2}
    Clients = {c1, c2}
    Limits = {1, 2, 9}
    BroadcastUnlimited = 9
    AllocDen = 5
    MaxInfos = 2
SYMMETRY Symmetry
INVARIANTS
    NoDuplicateBroadcast
    AccountsExact
    OvershootBounded
PROPERTIES
    DisabledStopsSending
