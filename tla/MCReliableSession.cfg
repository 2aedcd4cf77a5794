SPECIFICATION Spec
CONSTANTS
    MaxLinks = 2
    MaxSend = 2
    MaxEvents = 1
    ReplayWindow = 2
    AuthFrames = {2}
    Faults = {"restart", "expire"}
INVARIANTS
    ClientFramesOnce
    ForgetsOnlyClaimed
    RetainsUnapplied
    NoProtocolViolation
PROPERTIES
    ImplementsChannel
CHECK_DEADLOCK FALSE
