SPECIFICATION Spec
CONSTANTS
  NULL = NULL
  BadName = bad
  Threads = {t1, t2}
  Names = {a}
  Badness = FALSE
  MallocFails = FALSE
  DataSectors = {1}
  DeviceSize = 6
  DirSlots = 1
  MaxCreates = 2
INVARIANT OpenFindsFile
