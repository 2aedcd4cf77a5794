SPECIFICATION FairSpec
CONSTANTS
    Items = {s}
    Scheduled = {s}
    Requests = {r}
    MaxTurns = 1
    MaxQueued = 1
    MaxStops = 1
    MaxCrashes = 0
PROPERTIES StopEnds AcceptedTurnStarts ScheduledHeadDelivered
CHECK_DEADLOCK FALSE
