SPECIFICATION FairSpec
CONSTANTS
  a = a  b = b  a1 = a1  a2 = a2  b1 = b1  NoClient = NoClient
  Clients = {a, b}
  Connections = {a1, b1}
  Owner <- MCOwner
  ShellHolds = {}
  HeartbeatTimeout = 1
  ReconnectGrace = 1
  TransportReports = TRUE
  Readers = {}
PROPERTIES
  AbandonedClientLeaves
  LastClientStops
CHECK_DEADLOCK FALSE
