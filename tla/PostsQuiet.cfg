SPECIFICATION FairSpec
CONSTANTS
  Node = {n1, n2}
  User = {u1, adm}
  Admin = adm
  Id = {1, 2}
  Code <- CodeOf
  None = None
  Bodies <- BodiesOfApp
  MaxConnects = 3
  MaxReconnects = 0
  MaxViews = 1
  MaxDeletes = 1
  Quiet = TRUE
  Seen = TRUE
INVARIANTS
  Shown
  Gone
PROPERTIES
  StoredIsFound
  Archived
\* The bounds on the environment let the system stop.
CHECK_DEADLOCK FALSE
