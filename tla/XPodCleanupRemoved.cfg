SPECIFICATION Spec
CONSTANTS
  c1 = c1
  c2 = c2
  Clients = {c1}
  Sandboxes = {s1}
  MayCall <- OneClient
  Faults = {"timeout"}
  Nobody = Nobody
  NoSandbox = NoSandbox
INVARIANT CleanupExitsAfterRemove
CHECK_DEADLOCK FALSE
