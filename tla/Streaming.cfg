SPECIFICATION Spec
CONSTANTS
    Msgs = {m1, m2}
    MaxPerClientBatchProcessors = 1
    OutCap = 1
    MaxBatches = 2
    MaxData = 1
    MaxFaults = 1
INVARIANTS
    TypeOK
    AckOrNackOnce
    StreamInOrder
