\* One client, one request of each kind.
CONSTANTS
    Clients = {c}
    Capable = {c}
    Questions = {q}
    Secrets = {s}
    Shells = {h}
    c = c
    q = q
    s = s
    h = h
SPECIFICATION FairSpec
INVARIANTS
    WaitersMatchRecords
    AttachedCanAnswer
    AcceptedAnswerReturned
PROPERTIES
    Implements
    WaiterReleased
    ShellReachesClient
CHECK_DEADLOCK FALSE
