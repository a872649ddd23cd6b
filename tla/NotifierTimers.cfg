SPECIFICATION FcmSpec
CONSTANTS
  Node = {n1}
  User = {u1}
  Msg = {m1, m2}
  Bodied = {m1}
  Token = {t1, t2}
  Empty = Empty
  None = None
  MaxOff = 1
  MaxStarts = 1
  MaxDels = 2
  MaxInbox = 2
  MaxSessions = 1
INVARIANTS
  TypeOK
  OneNotification
  TimerHasMessage
PROPERTIES
  TokenNeverOlder
  MessageIsNotified
  SessionEnds
\* The messages and tokens are finite: the system stops when they are used up.
CHECK_DEADLOCK FALSE
