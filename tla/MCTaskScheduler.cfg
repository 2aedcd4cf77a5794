CONSTANTS
    Tasks <- MCTasks
    Threads <- MCThreads
    Kind <- MCKind
    TaskOf <- MCTaskOf
    Size <- MCSize
    Exclusive = {"purge"}
    Subagents <- MCSubagents
    GlobalStream = 3
    TaskStream = 3
    ControlWrites = 1
    BatchBytes = 2
SPECIFICATION FairSpec
INVARIANTS
    QueueConsistent
    ControlAlone
    DraftsSeeText
PROPERTIES
    OrderKept
    CallsReturn
CHECK_DEADLOCK FALSE
