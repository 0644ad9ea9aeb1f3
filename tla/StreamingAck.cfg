SPECIFICATION Spec
CONSTANTS
    Msgs = {m1, m2}
    MaxPerClientBatchProcessors = 1
    OutCap = 1
    MaxBatches = 2
    MaxData = 0
    MaxFaults = 1
INVARIANTS
    AckedIsStored
