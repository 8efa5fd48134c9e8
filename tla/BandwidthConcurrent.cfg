SPECIFICATION Spec
CONSTANTS
    Agents = {a, b}
    Regular = {}
    TestTimeout = 1
    MaxDelay = 2
    BaseDelay = 1
    TestDelay = 1
    PositionDelay = 2
    TaskTimeout = 2
    MaxRetries = 2
    MaxLate = 0
    MaxServing = 1
SYMMETRY AgentSymmetry
INVARIANTS
    OneDownload
