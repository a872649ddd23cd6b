SPECIFICATION Spec
CONSTANTS
  Node = {n1}
  User = {u1, adm}
  Admin = adm
  Id = {1, 2}
  Code <- CodeOf
  None = None
  Bodies <- BodiesOfApp
  MaxConnects = 1
  MaxReconnects = 1
  MaxViews = 0
  MaxDeletes = 1
  Quiet = TRUE
  Seen = TRUE
INVARIANTS
  Gone
\* The bounds on the environment let the system stop.
CHECK_DEADLOCK FALSE
