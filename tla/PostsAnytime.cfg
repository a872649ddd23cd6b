SPECIFICATION Spec
CONSTANTS
  Node = {n1, n2}
  User = {adm}
  Admin = adm
  Id = {1, 2}
  Code <- CodeOf
  None = None
  Bodies <- BodiesOfAll
  MaxConnects = 3
  MaxReconnects = 1
  MaxViews = 1
  MaxDeletes = 0
  Quiet = FALSE
  Seen = FALSE
SYMMETRY Symmetric
INVARIANTS
  TypeOK
  Sorted
  ViewedOnce
\* The bounds on the environment let the system stop.
CHECK_DEADLOCK FALSE
