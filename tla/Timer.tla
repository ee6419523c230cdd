------------------------------- MODULE Timer -------------------------------
(***************************************************************************)
(* timer_sleep and the timer interrupt of devices/timer.c: the list of     *)
(* sleeping threads, ordered by the tick at which they are due.            *)
(***************************************************************************)
EXTENDS Scheduler, FiniteSets, SequencesExt

CONSTANTS
  Durations,    \* the arguments of timer_sleep
  INT_BITS,     \* the width of an int, which holds thread_sleep_time
  LastCall,     \* bound: nobody goes to sleep after this tick
  MaxTicks      \* bound: the clock stops here, when all sleepers were due

ASSUME TimerAssumption ==
  /\ Durations \subseteq Int
  /\ INT_BITS \in Nat \ {0}
  /\ LastCall \in Nat
  /\ \A n \in Durations : LastCall + n < MaxTicks

VARIABLES
  ticks,               \* an int64_t, which never overflows
  thread_sleep_time,   \* of each thread, an int
  sleeping_threads,
  pc,                  \* "run", "start" and "asleep" inside timer_sleep
  start,               \* local to timer_sleep
  requested            \* the argument of timer_sleep

timerVars == <<ticks, thread_sleep_time, sleeping_threads>>
callVars == <<start, requested>>
vars == <<schedVars, timerVars, pc, callVars>>

(* All threads but the idle thread.                                        *)
Threads == Pages \ {Idle}

(* The conversion of an int64_t to an int.                                 *)
ToInt(n) == ((n + 2^(INT_BITS - 1)) % 2^INT_BITS) - 2^(INT_BITS - 1)

Init ==
  /\ current = Initial
  /\ ready_list = SetToSeq(Threads \ {Initial})
  /\ status = [t \in Pages |-> CASE t = Initial -> "RUNNING"
                                 [] t = Idle -> "BLOCKED"
                                 [] OTHER -> "READY"]
  /\ idle_thread = Idle
  /\ thread_ticks = 0
  /\ ticks = 0
  /\ thread_sleep_time = [t \in Threads |-> 0]
  /\ sleeping_threads = <<>>
  /\ pc = [t \in Pages |-> IF t = Idle THEN "hlt" ELSE "run"]
  /\ start = [t \in Threads |-> 0]
  /\ requested = [t \in Threads |-> 0]

-----------------------------------------------------------------------------
(* Fault: the list is not kept in order.                                   *)
list_insert_last(list, t, due) == Append(list, t)

(* list_insert_ordered with thread_sleep_time_comparator: before the first *)
(* element that is due later.                                              *)
list_insert_ordered(list, t, due) ==
  LET later == {i \in DOMAIN list : due[t] < due[list[i]]}
      at == IF later = {} THEN Len(list) + 1
            ELSE CHOOSE i \in later : \A j \in later : i <= j
  IN InsertAt(list, at, t)

(* timer_sleep reads the clock with interrupts on ...                      *)
SleepStart(n) ==
  /\ current # Idle
  /\ pc[current] = "run"
  /\ ticks <= LastCall
  /\ start' = [start EXCEPT ![current] = ticks]
  /\ requested' = [requested EXCEPT ![current] = n]
  /\ pc' = [pc EXCEPT ![current] = "start"]
  /\ UNCHANGED <<schedVars, timerVars>>

(* ... and blocks with interrupts off, perhaps some ticks later.           *)
SleepBlock ==
  /\ current # Idle
  /\ pc[current] = "start"
  /\ thread_sleep_time' =
       [thread_sleep_time EXCEPT ![current] = ToInt(start[current] + requested[current])]
  /\ sleeping_threads' = list_insert_ordered(sleeping_threads, current, thread_sleep_time')
  /\ thread_block
  /\ pc' = [pc EXCEPT ![current] = "asleep"]
  /\ UNCHANGED <<ticks, callVars>>

(* A thread that was woken returns from timer_sleep; its locals are gone.  *)
SleepReturn ==
  /\ current # Idle
  /\ pc[current] = "asleep"
  /\ pc' = [pc EXCEPT ![current] = "run"]
  /\ start' = [start EXCEPT ![current] = 0]
  /\ requested' = [requested EXCEPT ![current] = 0]
  /\ UNCHANGED <<schedVars, timerVars>>

(* How many threads the loop of timer_interrupt takes off the front.       *)
DueCount(now) ==
  CHOOSE k \in 0..Len(sleeping_threads) :
    /\ \A i \in 1..k : now >= thread_sleep_time[sleeping_threads[i]]
    /\ k < Len(sleeping_threads) => now < thread_sleep_time[sleeping_threads[k + 1]]

(* Interrupts are off between waking up inside timer_sleep and returning.  *)
timer_interrupt ==
  /\ pc[current] # "asleep"
  /\ ticks' = IF ticks < MaxTicks THEN ticks + 1 ELSE ticks
  /\ LET k == DueCount(ticks')
     IN /\ sleeping_threads' = SubSeq(sleeping_threads, k + 1, Len(sleeping_threads))
        /\ ThreadTick(SubSeq(sleeping_threads, 1, k))
  /\ pc' = [pc EXCEPT ![current] = IF @ = "hlt" THEN "loop" ELSE @]
  /\ UNCHANGED <<thread_sleep_time, callVars>>

IdleBlock ==
  /\ current = Idle
  /\ pc[Idle] = "loop"
  /\ thread_block
  /\ pc' = [pc EXCEPT ![Idle] = "hlt"]
  /\ UNCHANGED <<timerVars, callVars>>

Next ==
  \/ \E n \in Durations : SleepStart(n)
  \/ SleepBlock \/ SleepReturn \/ timer_interrupt \/ IdleBlock

Spec == Init /\ [][Next]_vars

(* The clock keeps ticking, and the processor executes the kernel.         *)
FairSpec == Spec /\ WF_vars(timer_interrupt) /\ WF_vars(SleepReturn \/ IdleBlock)

-----------------------------------------------------------------------------
TypeOK ==
  /\ SchedTypeOK
  /\ ticks \in 0..MaxTicks
  /\ thread_sleep_time \in [Threads -> Int]
  /\ sleeping_threads \in Seq(Threads)
  /\ pc \in [Pages -> {"run", "start", "asleep", "loop", "hlt"}]
  /\ start \in [Threads -> 0..MaxTicks]
  /\ requested \in [Threads -> Durations \cup {0}]

Deadline(t) == start[t] + requested[t]

(* A thread shares its elem between the run queue and sleeping_threads: it *)
(* is on the latter exactly while it is blocked.                           *)
SleepersBlocked ==
  /\ RunQueueExact
  /\ \A i, j \in DOMAIN sleeping_threads : sleeping_threads[i] = sleeping_threads[j] => i = j
  /\ ToSet(sleeping_threads) = {t \in Threads : status[t] = "BLOCKED"}

(* timer_sleep lets nobody go before the ticks have passed.                *)
NeverEarly ==
  [][\A t \in ToSet(sleeping_threads) \ ToSet(sleeping_threads') : ticks' >= Deadline(t)]_vars

(* The timer interrupt leaves nobody asleep who is due, although its loop  *)
(* stops at the first thread that is not, and although threads compute     *)
(* their deadline well before they enter the list.                         *)
NoOversleep ==
  [][ticks' # ticks => \A t \in ToSet(sleeping_threads') : ticks' < Deadline(t)]_vars
=============================================================================
