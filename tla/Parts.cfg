SPECIFICATION MCSpec
CONSTANTS
  p1 = p1
  p2 = p2
  p3 = p3
  Pods = {p1, p2, p3}
  White = {p1}
  SpecOf <- MCSpecOf
  AddsOf <- MCAddsOf
  DelsOf <- MCDelsOf
  FaultSets <- MCFaults
  Budgets <- MCBudgets
  None = None
  Refused = Refused
  Gone = Gone
  Lists <- MCLists
  SvFaultSets <- MCSvFaults
  MaxRequests = 4
INVARIANTS
  HostPortsExclusive
  RulesAreListed
  
  PortsAreKept
  VolumesAreKept
  
  RootIsWhole
  MountedWhileUsed
  
  
  
CHECK_DEADLOCK FALSE
