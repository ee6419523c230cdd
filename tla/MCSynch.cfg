SPECIFICATION WaitingSpec
CONSTANTS
  t1 = t1
  t2 = t2
  t3 = t3
  s1 = s1
  c1 = c1
  Idle = idle
  Initial = t1
  NULL = NULL
  Lock = lock
  Pages <- MCPages
  Counters <- MCCounters
  Conds <- MCConds
  MaxValue = 1
  TIME_SLICE = 1
INVARIANTS
  OneListEach
  NoLostWakeup
PROPERTIES
  ImplementsMonitor
  
