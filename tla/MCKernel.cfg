SPECIFICATION KernelSpec
CONSTANTS
  t1 = t1
  t2 = t2
  t3 = t3
  p1 = p1
  Idle = idle
  Initial = t1
  NULL = NULL
  TID_ERROR = TID_ERROR
  Pages <- MCPages
  TIME_SLICE = 2
  Durations <- MCDurations
  INT_BITS = 16
  LastCall = 2
  MaxTicks = 5
INVARIANTS
  RunQueueHolds
  QueueIsFifo
 
