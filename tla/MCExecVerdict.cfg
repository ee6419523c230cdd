SPECIFICATION OnlyProcess
CONSTANTS
  main = main
  a = a
  b = b
  Procs <- MCProcs
  Main = main
  TID_ERROR = TID_ERROR
  Statuses <- MCStatuses
  LoadOutcomes <- Outcomes
  WaitedGarbage <- AlwaysFalse
  MallocFails = FALSE
INVARIANT ExecReportsLoad
CHECK_DEADLOCK FALSE
