SPECIFICATION FairSpec
CONSTANTS
    a = a
    b = b
    Tasks <- MCTasks
    NewTasks <- MCNewTasks
    ChannelSize = 1
    MaxBuffer = 2
    MaxSamples = 2
    LastMinute = 2
    MaxFaults <- MCFaults
INVARIANTS
    TypeOK
    OneExecution
    SampleAccounted
    InTimeIsAggregated
PROPERTIES
   TaskCompletes
   StopCompletes
CHECK_DEADLOCK FALSE
