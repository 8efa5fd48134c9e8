SPECIFICATION FairSpec
CONSTANTS
    Tasks = {a}
    LastSample = 2
    MaxRows = 6
    BatchSize = 1
    MaxRetries = 2
    SentKeep = 0
    FailedKeep = 0
    Crashes = 1
    Timeouts = 1
    Refusals = 0
    Reloads = 0
    DbErrors = 0
    MaxFaults <- MCMaxFaults

PROPERTIES
    EventuallySettled
