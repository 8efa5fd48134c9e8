SPECIFICATION Spec
CONSTANTS
    Agents = {a, b, c}
    Regular = {}
    TestTimeout = 1
    MaxDelay = 2
    BaseDelay = 1
    TestDelay = 1
    PositionDelay = 2
    TaskTimeout = 2
    MaxRetries = 1
    MaxLate = 1
    MaxServing = 1
INVARIANTS
    TypeOK
    InOnePlace
    OldestFirst
PROPERTIES
    OnlyOwnTestEnds
SYMMETRY AgentSymmetry
