SPECIFICATION Spec
CONSTANTS
  c1 = c1
  c2 = c2
  Clients = {c1}
  Sandboxes = {s1, s2}
  MayCall <- StartStop
  Faults = {}
  Nobody = Nobody
  NoSandbox = NoSandbox
PROPERTY StopPodStops
CHECK_DEADLOCK FALSE
