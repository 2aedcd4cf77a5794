SPECIFICATION FairSpec
CONSTANTS
    MaxLinks = 2
    MaxSend = 1
    MaxEvents = 1
    ReplayWindow = 2
    AuthFrames = {}
    Faults = {}
PROPERTIES
    MessagesArrive
CHECK_DEADLOCK FALSE
