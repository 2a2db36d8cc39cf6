SPECIFICATION MCSpec
CONSTANTS
  Requests = {r1, r2, r3, r4}
  BufferGoroutinesMax = 2
  BufferChannelSize = 1
  Kinds = {"ExecStart", "ExecVM", "Attach", "ContainerLogs"}
  Outputs <- MCOutputs
  Inputs <- MCInputs
  ChunkSize = 3
  None = None
  Failed = Failed
INVARIANTS
  PendingIsListed
  
  LeavesNothingBehind
  ExitStatusTells
PROPERTIES
  ImplementsPool
  AcceptedIsHandled
  
  CommandEnds
CHECK_DEADLOCK FALSE
