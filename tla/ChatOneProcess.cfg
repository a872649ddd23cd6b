SPECIFICATION FairSpec
CONSTANTS
  Node = {n1}
  Session = {s1, s2}
  User = {u1, u2}
  Chat = {c1}
  PubAck = {c1}
  Presence = {}
  None = None
  Ack = Ack
  MaxLogins = 2
  Stoppable = {n1}
  Losing = {n1}
INVARIANTS
  OneWriter
PROPERTIES
  MailboxSpec
  OnlineUserGetsMail
\* Sessions are finite: the system stops when all of them are gone.
CHECK_DEADLOCK FALSE
