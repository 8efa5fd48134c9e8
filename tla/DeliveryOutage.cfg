SPECIFICATION Spec
CONSTANTS
    Tasks = {a, b}
    LastSample = 2
    MaxRows = 4
    BatchSize = 2
    MaxRetries = 3
    SentKeep = 1
    FailedKeep = 1
    Crashes = 0
    Timeouts = 0
    Refusals = 2
    Reloads = 0
    DbErrors = 0
    MaxFaults <- MCMaxFaults
SYMMETRY TaskSymmetry
INVARIANTS
    NoDataLoss
    NeverResent
