SPECIFICATION OnlyPartition
CONSTANTS
  p1 = p1
  p2 = p2
  a = a
  i1 = i1
  i2 = i2
  e1 = e1
  e2 = e2
  e3 = e3
  e4 = e4
  l1 = l1
  l2 = l2
  NIL = NIL
  NULL = NULL
  Procs <- MCProcs
  First = p1
  Names <- MCNames
  Inodes <- MCInodes
  Sizes <- MCSizes
  MAX_FDS = 4
  Mapped <- MCMapped
  Writable <- MCWritable
  PHYS_BASE = 32
  Nul <- MCNul
  NameAt <- MCNameAt
  Pointers <- MCPointers
  Stacks <- MCStacks
  Counts <- MCCounts
  NoMemory = TRUE
INVARIANT TableOfSector
CHECK_DEADLOCK FALSE
