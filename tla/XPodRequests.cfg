SPECIFICATION MCSpec
CONSTANTS
  c1 = c1
  c2 = c2
  Clients = {c1, c2}
  Sandboxes = {s1, s2}
  MayCall <- UpAndDown
  Faults = {"launch", "init", "provision", "stop", "crash", "rm"}
  Nobody = Nobody
  NoSandbox = NoSandbox
INVARIANTS
  NoNilSandbox
  LiveVmIsWatched
  StoppedMeansNoVm
  HeldResourcesHaveCleaner
  PauseAgrees
  SerialSettles
PROPERTY
  FirstStopStops
CHECK_DEADLOCK FALSE
