SPECIFICATION FairSpec
CONSTANTS
    v = v
    e = e
    u = u
    a = a
    g = g
    Torn = Torn
    None = None
    Agents = {a, g}
    Clients = {a}
    AutoUpdate = {a}
    Valid = {v, e}
    Taskless = {e}
    Unsound = {u}
    MaxBackups = 2
    Edits = 2
    Requests = 1
    Restarts = 1
    Crashes = 1
    Timeouts = 1
    Installed = {a}
    Cost <- MCCost
    MaxCost = 4
    Initial = {v}
    Drops <- MCDrops
    MaxEvents <- MCMaxEvents
INVARIANTS
    TypeOK
    CacheFollowsFile
    OriginalKept
    RemovedOnlyWhenApplied
    ReportsWhatItRuns
    AgentRecoverable
PROPERTIES
    EventuallyInSync
CHECK_DEADLOCK FALSE
