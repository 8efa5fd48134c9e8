SPECIFICATION Spec
CONSTANTS
    Programs = {"agent", "server"}
    Given <- MCGiven
    GivenTasks <- MCGivenTasks
    Edits <- MCEdits
    Overrides <- MCOverrides
    TaskLists <- MCTaskLists
    NoSettings = NoSettings
    MaxEvents <- MCEvents
INVARIANTS
    ValidRuns
    PartsAgree
    StartsAgain
CHECK_DEADLOCK FALSE
