SPECIFICATION MCSpec
CONSTANTS
  Threads = {t1, t2}
  XPods = {x1, x2, x3}
  x3 = x3
  p = p
  q = q
  PodIds = {p, q}
  NameOf <- MCNameOf
  Ids = {i1, i2}
  i3 = i3
  n3 = n3
  Names = {n1, n2}
  Calls = {"create", "remove", "container", "buffered", "rename", "rmc"}
  Faults = {"sandbox", "provision"}
  PerPod = TRUE
  None = None
  v1 = v1
SYMMETRY Symmetry
CHECK_DEADLOCK FALSE
INVARIANTS
  
  
  HalfDoneIsInvisible
  
  MigrationLosesNothing
