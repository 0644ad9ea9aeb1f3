SPECIFICATION Spec
CONSTANTS
    Msgs = {m1}
    MaxPerClientBatchProcessors = 1
    OutCap = 1
    MaxBatches = 1
    MaxData = 0
    MaxFaults = 1
INVARIANTS
    DrainsOnlyWhenCancelled
