SPECIFICATION Spec
CONSTANTS
    Items = {m, s}
    Scheduled = {s}
    Requests = {}
    MaxTurns = 2
    MaxQueued = 2
    MaxStops = 1
    MaxCrashes = 1
INVARIANTS MessageInOnePlace ActiveTurnOwned NothingDeliveredAfterRestart ScheduledQueueWatched
PROPERTIES NoMessageLost
CHECK_DEADLOCK FALSE
