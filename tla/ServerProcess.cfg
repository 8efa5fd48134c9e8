SPECIFICATION FairSpec
CONSTANTS
    a = a
    b = b
    fast = fast
    slow = slow
    probe = probe
    NoConfig = NoConfig
    NoVersion = NoVersion
    Agents <- MCAgents
    Tasks <- MCTasks
    Schedule <- MCSchedule
    TasksRun <- MCTasksRun
    Phase <- MCPhase
    Config <- MCConfig
    Version <- MCVersion
    ServerVersion <- MCServerVersion
    MaxEvents <- MCEvents
    Retention = 2
    HealthRetention = 2
    Interval = 120
    StartSecond = 40
    Percent = 90
    LastMinute = 5
INVARIANTS
    TypeOK
    RequestKeepsAgent
PROPERTIES
    NoFalseAlarm
    SilentIsReported
    ReportIsThisCheck
    OldMetricsGo
    DeadAgentsGo
    ShutdownCutsNothing
    ShutdownCompletes
