SPECIFICATION FairSpec
CONSTANTS
  Conn = {c1, c2}
  Tls = {c1}
  Lively = {c2}
  MaxOpen = 1
  MaxListen = 2
  DetectTimeout = 1
  SessionTimeout = 1
  ShutdownTimeout = 1
  HandshakeTimeout = 1
  IdleTimeout = 2
  MaxLosses = 1
INVARIANTS
  TypeOK
  SessionsCounted
  BoundedStay
PROPERTIES
  StaysStopped
  Served
  NoLoginDropped
  Exits
\* The system stops when the process has returned from run().
CHECK_DEADLOCK FALSE
