SPECIFICATION ProvisionFair
CONSTANTS
  None = None
  Volumes = {v1}
  Containers = {c1, c2}
  Nics = {n1}
  VolsOf <- MCVolsOf
  FaultSets <- MCFaultSets
  MaxSandbox = 2
  MaxSlow = 1
INVARIANTS
  
  AddressesReturned
PROPERTY
  AddingEnds
CHECK_DEADLOCK FALSE
