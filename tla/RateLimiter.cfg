SPECIFICATION Spec
CONSTANTS
    a = a
    b = b
    r1 = r1
    r2 = r2
    r3 = r3
    r4 = r4
    r5 = r5
    Agents <- MCAgents
    Requests <- MCRequests
    Window = 2
    MaxRequests = 2
    LastTick = 4
SYMMETRY Symmetry
PROPERTIES
    WindowLimit
CHECK_DEADLOCK FALSE
