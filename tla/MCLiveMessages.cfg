SPECIFICATION MessagesSpec
CONSTANTS
    None = None
    StartupData = StartupData
PROPERTIES
    EventuallySettled
    EventuallyAcked
CHECK_DEADLOCK FALSE
