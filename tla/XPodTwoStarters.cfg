SPECIFICATION Spec
CONSTANTS
  c1 = c1
  c2 = c2
  Clients = {c1, c2}
  Sandboxes = {s1, s2}
  MayCall <- TwoStarters
  Faults = {}
  Nobody = Nobody
  NoSandbox = NoSandbox
INVARIANT StoppedMeansNoVm
CHECK_DEADLOCK FALSE
