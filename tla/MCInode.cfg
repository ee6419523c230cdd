SPECIFICATION FairSpec
CONSTANTS
  t1 = t1
  t2 = t2
  t3 = t3
  Threads <- MCThreads
  Bytes <- MCBytes
  SectorSize = 2
  Length = 5
  Extents <- MCExtents
  MaxCalls = 1
  MallocFails = TRUE
INVARIANTS
  WritersExclude
  
PROPERTIES
  ImplementsAtomicFile
  CallsReturn
