SPECIFICATION FairSpec
CONSTANTS
    Agents = {a, b}
    Regular = {b}
    TestTimeout = 1
    MaxDelay = 3
    BaseDelay = 1
    TestDelay = 2
    PositionDelay = 2
    TaskTimeout = 4
    MaxRetries = 2
    MaxLate = 1
    MaxServing = 2
PROPERTIES
    GoneAgentReleases
