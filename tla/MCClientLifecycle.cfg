SPECIFICATION Spec
CONSTANTS
  a = a  b = b  a1 = a1  a2 = a2  b1 = b1  NoClient = NoClient
  Clients = {a, b}
  Connections = {a1, a2, b1}
  Owner <- MCOwner
  ShellHolds = {b}
  HeartbeatTimeout = 2
  ReconnectGrace = 1
  TransportReports = FALSE
  Readers = {a1}
INVARIANTS
  ConnectionAuthority
  BarrierExcludesOthers
PROPERTIES
  ExpiresOnlyAfterSilence
CHECK_DEADLOCK FALSE
