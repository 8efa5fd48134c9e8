SPECIFICATION Spec
CONSTANTS
    Tasks = {a, b}
    LastSample = 2
    MaxRows = 6
    BatchSize = 2
    MaxRetries = 2
    SentKeep = 1
    FailedKeep = 1
    Crashes = 0
    Timeouts = 0
    Refusals = 0
    Reloads = 1
    DbErrors = 0
    MaxFaults <- MCMaxFaults
SYMMETRY TaskSymmetry
INVARIANTS
    NoDataLoss
