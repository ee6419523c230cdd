------------------------------ MODULE MCSynch ------------------------------
(***************************************************************************)
(* An instance of Synch: three threads and the idle thread, a semaphore    *)
(* that interrupt handlers up too, a lock and a condition variable.  Next  *)
(* to it, the safety of Timer with three threads that sleep, on a longer   *)
(* clock than the one MCKernel checks its liveness with.  The first state  *)
(* decides which of the two runs.                                          *)
(***************************************************************************)
EXTENDS Synch

CONSTANTS t1, t2, t3, s1, c1

VARIABLES
  part, tm_status, tm_ready_list, tm_current, tm_idle_thread, tm_thread_ticks,
  ticks, thread_sleep_time, sleeping_threads, tm_pc, start, requested

MCPages == {t1, t2, t3, Idle}
MCCounters == {s1}
MCConds == {c1}

TM == INSTANCE Timer WITH
        TIME_SLICE <- 2, Durations <- -1..2, INT_BITS <- 16, LastCall <- 2, MaxTicks <- 5,
        status <- tm_status, ready_list <- tm_ready_list, current <- tm_current,
        idle_thread <- tm_idle_thread, thread_ticks <- tm_thread_ticks, pc <- tm_pc

sleepVars == <<tm_status, tm_ready_list, tm_current, tm_idle_thread, tm_thread_ticks, ticks,
               thread_sleep_time, sleeping_threads, tm_pc, start, requested>>

WaitingInit ==
  /\ part \in {"synch", "timer"}
  /\ Init /\ TM!Init
  /\ part = "synch" \/ ready_list = <<t2, t3>>

WaitingNext ==
  /\ \/ part = "synch" /\ Next /\ UNCHANGED sleepVars
     \/ part = "timer" /\ TM!Next /\ UNCHANGED vars
  /\ UNCHANGED part

WaitingSpec == WaitingInit /\ [][WaitingNext]_<<part, vars, sleepVars>>

-----------------------------------------------------------------------------
(* thread.h, the elem member, which the run queue, the wait lists of       *)
(* synch.c and sleeping_threads of timer.c share: a blocked thread is on   *)
(* the one list that it waits on, a ready one on the run queue.  synch.c:  *)
(* the semaphores on the list of a condition are those of its waiters.     *)
OneListEach == ElemOnOneList /\ CondListsLive /\ TM!SleepersBlocked

(* timer.c: timer_sleep lets nobody go before the ticks have passed, and   *)
(* the interrupt, whose loop stops at the first thread that is not due,    *)
(* leaves nobody asleep who is.                                            *)
SleepsExactly == TM!NeverEarly /\ TM!NoOversleep
=============================================================================
