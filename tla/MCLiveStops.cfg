SPECIFICATION StopsSpec
CONSTANTS
    None = None
    StartupData = StartupData
PROPERTIES
    
    ConfigUpdateSent
    KilledIffHung
CHECK_DEADLOCK FALSE
