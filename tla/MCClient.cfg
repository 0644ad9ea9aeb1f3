SPECIFICATION MCSpec
CONSTANTS
    None = None
    StartupData = StartupData
    inboxSize = 2
    FindLimit = 2
    Modulus = 16
    Processors = {1, 2}
    MaxMessages = 3
    MaxLocal = 1
    MaxRestarts = 0
INVARIANTS
    TypesOK
    CallbacksNeverBlock
    RestartsInTurn
    NeverShort
    CleanIsWritten
    OutcomesTrue
    IdentityKept
    FramesWhole
    ReportIsOfItsSamples
CHECK_DEADLOCK FALSE
