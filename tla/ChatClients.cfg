SPECIFICATION ClientsSpec
CONSTANTS
  Node = {n1}
  Session = {"a", "b", "x", "y"}
  User = {u1, u2, u3, u4}
  Chat = {"a1", "a2", "a3", "b1", "b2", "b3", "x1", "y1"}
  PubAck = {}
  Presence = {}
  None = None
  Ack = Ack
  MaxLogins = 4
  Stoppable = {}
  Losing = {}
  First = {"a", "x"}
  Partner <- PartnerOf
  Messages <- MessagesOf
  Launched <- LaunchedFor
INVARIANTS
  AsExpected
PROPERTIES
  EveryTestEnds
  NothingRemains
\* The tests come to their end.
CHECK_DEADLOCK FALSE
