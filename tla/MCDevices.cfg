SPECIFICATION DevicesSpec
CONSTANTS
  t1 = t1
  t2 = t2
  main = main
  v1 = v1
  v2 = v2
  NONE = NONE
  CHANNEL_CNT = 1
  Threads <- MCThreads
  Main = main
  Values <- MCValues
  Capacity = 1
  Sectors <- MCSectors
  Errors = TRUE
  MaxSpurious = 1
INVARIANTS
  
  ConsoleExact
  KeysAndScreen
PROPERTY RequestReturns
CHECK_DEADLOCK FALSE
