SPECIFICATION FairSpec
CONSTANTS
  NULL = NULL
  BadName = bad
  Threads = {t1, t2}
  Names = {a, b}
  Badness = TRUE
  MallocFails = TRUE
  DataSectors = {1}
  DeviceSize = 6
  DirSlots = 1
  MaxCreates = 2
INVARIANTS
  OpenCountExact
  
PROPERTY CallsReturn
CHECK_DEADLOCK FALSE
