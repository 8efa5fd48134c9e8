SPECIFICATION Spec
CONSTANTS
    Tasks = {a, b}
    LastSample = 1
    MaxRows = 5
    BatchSize = 2
    MaxRetries = 2
    SentKeep = 0
    FailedKeep = 0
    Crashes = 1
    Timeouts = 1
    Refusals = 0
    Reloads = 1
    DbErrors = 1
    MaxFaults <- MCMaxFaults
SYMMETRY TaskSymmetry
INVARIANTS
    TypeOK
    SentWasStored
    SendingIsInFlight
    BatchKeysDiffer
    NothingVanishes
PROPERTIES
    KeepsContract
