SPECIFICATION Spec
CONSTANTS
  Socket = {"s1", "s2"}
  Request = {"r1"}
  MaxConn = 2
  MaxOthers = 1
  MaxQueue = 1
  NoSocket = NoSocket
  NoRequest = NoRequest
INVARIANTS
  ClientTypeOK
  NotStranded
  ConnectionsCounted
  ViewConverges
PROPERTIES
  Reconnects
