SPECIFICATION MemorySpec
CONSTANTS
  t1 = t1
  t2 = t2
  NONE = NONE
  Threads <- MCThreads
  FreePages = 5
  USER_PAGE_LIMIT = 1
  FREE_PAGE_LIMIT = 5
  BmPages <- MCBmPages
  PGSIZE = 6
  HEADER = 2
  MIN_BLOCK = 2
  Sizes <- MCSizes
  Groups <- MCGroups
INVARIANTS
  BlocksDisjoint
  FreeListsExact
  PagesAccounted
  ActiveDirectoryLive
  PagesHeldOnce
  LoadedAsLinked
  NoStaleTranslation
SYMMETRY Symmetry
