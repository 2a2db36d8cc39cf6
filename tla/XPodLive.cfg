SPECIFICATION FairSpec
CONSTANTS
  c1 = c1
  c2 = c2
  Clients = {c1, c2}
  Sandboxes = {s1}
  MayCall <- StartersAndPauser
  Faults = {"init", "crash", "stop", "timeout"}
  Nobody = Nobody
  NoSandbox = NoSandbox
PROPERTY RequestsReturn
PROPERTY ExitIsCleanedUp
CHECK_DEADLOCK FALSE
