SPECIFICATION FcmSpec
CONSTANTS
  Node = {n1}
  User = {u1}
  Msg = {m1, m2}
  Bodied = {m1}
  Token = {t1}
  Empty = Empty
  None = None
  MaxOff = 0
  MaxStarts = 1
  MaxDels = 2
  MaxInbox = 4
  MaxSessions = 1
INVARIANTS
  RetrievedIsNotNotified
\* The messages and tokens are finite: the system stops when they are used up.
CHECK_DEADLOCK FALSE
