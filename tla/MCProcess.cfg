SPECIFICATION ProgramSpec
CONSTANTS
  main = main
  a = a
  b = b
  Procs <- MCProcs
  Main = main
  TID_ERROR = TID_ERROR
  Statuses <- MCStatuses
  LoadOutcomes <- Outcomes
  WaitedGarbage <- Outcomes
  MallocFails = TRUE
INVARIANTS
  CmdLineOutlivesLoading
  AliveCountExact
  StatusIsFinal
  WaitProtocol
  
  FaultAddressOwn
  ContextExact
  BootExact
PROPERTY ExecVerdict
SYMMETRY Workers
CHECK_DEADLOCK FALSE
