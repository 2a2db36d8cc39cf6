SPECIFICATION Spec
CONSTANTS
  c1 = c1
  c2 = c2
  Clients = {c1}
  Sandboxes = {s1}
  MayCall <- PauseRemove
  Faults = {}
  Nobody = Nobody
  NoSandbox = NoSandbox
INVARIANT NoOrphanVm
CHECK_DEADLOCK FALSE
