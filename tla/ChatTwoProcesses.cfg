SPECIFICATION Spec
CONSTANTS
  Node = {n1, n2}
  Session = {s1, s2}
  User = {u1, u2}
  Chat = {c1}
  PubAck = {c1}
  Presence = {p1}
  None = None
  Ack = Ack
  MaxLogins = 3
  Stoppable = {}
  Losing = {}
SYMMETRY Symmetric
INVARIANTS
  TypeOK
  LrangeAligned
  MapSound
  SubscriptionTracksSession
  OnlyAddressee
\* Sessions are finite: the system stops when all of them are gone.
CHECK_DEADLOCK FALSE
