----------------------------- MODULE Scheduler -----------------------------
(***************************************************************************)
(* The heart of threads/thread.c that every blocking primitive uses: the   *)
(* run queue, the switch from one thread to the next, and time slices.     *)
(* Modules Threads, Synch, Timer and IntQueue extend it with the code that *)
(* blocks and wakes threads.                                               *)
(*                                                                         *)
(* There is one processor, so only the current thread acts.  Code that     *)
(* runs with interrupts off is one step, including the switch to the next  *)
(* thread and thread_schedule_tail on its behalf.                          *)
(***************************************************************************)
EXTENDS Integers, Sequences, Functions

CONSTANTS
  Pages,       \* threads, each named by the page of its struct thread
  Initial,     \* initial_thread, the thread that runs main()
  Idle,        \* the page of the idle thread
  NULL,
  TIME_SLICE

ASSUME SchedulerAssumption ==
  /\ Initial \in Pages /\ Idle \in Pages /\ Initial # Idle
  /\ NULL \notin Pages
  /\ TIME_SLICE \in Nat \ {0}

VARIABLES
  status,        \* thread.status, or "FREE" for a page that is not a thread
  ready_list,
  current,       \* running_thread ()
  idle_thread,
  thread_ticks

schedVars == <<status, ready_list, current, idle_thread, thread_ticks>>

Statuses == {"FREE", "RUNNING", "READY", "BLOCKED", "DYING"}

next_thread_to_run(queue) == IF queue = <<>> THEN idle_thread ELSE Head(queue)

(* schedule and thread_schedule_tail: stat holds the new status of the     *)
(* current thread and queue is the run queue.  A dying thread is freed by  *)
(* the thread that runs next, except for the initial thread.               *)
schedule(stat, queue) ==
  LET next == next_thread_to_run(queue)
      left == IF stat[current] = "DYING" /\ current # Initial THEN "FREE" ELSE stat[current]
  IN /\ current' = next
     /\ ready_list' = IF queue = <<>> THEN queue ELSE Tail(queue)
     /\ status' = [stat EXCEPT ![current] = left, ![next] = "RUNNING"]
     /\ thread_ticks' = 0
     /\ UNCHANGED idle_thread

thread_block == schedule([status EXCEPT ![current] = "BLOCKED"], ready_list)

(* Fault: a thread yields to nobody.                                       *)
thread_yieldFront(stat, queue) ==
  schedule([stat EXCEPT ![current] = "READY"],
           IF current = idle_thread THEN queue ELSE <<current>> \o queue)

(* The idle thread is ready without being on the run queue.                *)
thread_yield(stat, queue) ==
  schedule([stat EXCEPT ![current] = "READY"],
           IF current = idle_thread THEN queue ELSE Append(queue, current))

(* The threads of the sequence ts are made ready, in this order.           *)
Woken(ts) == [t \in Pages |-> IF t \in Range(ts) THEN "READY" ELSE status[t]]

thread_unblock(ts) ==
  /\ ready_list' = ready_list \o ts
  /\ status' = Woken(ts)
  /\ UNCHANGED <<current, idle_thread, thread_ticks>>

(* A timer interrupt whose handler wakes the threads ts: thread_tick may   *)
(* ask for a yield, which intr_handler makes when the handler is done.     *)
ThreadTick(ts) ==
  IF thread_ticks + 1 >= TIME_SLICE
  THEN thread_yield(Woken(ts), ready_list \o ts)
  ELSE /\ ready_list' = ready_list \o ts
       /\ status' = Woken(ts)
       /\ thread_ticks' = thread_ticks + 1
       /\ UNCHANGED <<current, idle_thread>>

-----------------------------------------------------------------------------
SchedTypeOK ==
  /\ status \in [Pages -> Statuses]
  /\ ready_list \in Seq(Pages)
  /\ idle_thread \in {NULL, Idle}
  /\ thread_ticks \in 0..(TIME_SLICE - 1)

(* thread.h, the elem member: the run queue holds every ready thread once, *)
(* except for the idle thread, and no other thread.  schedule always finds *)
(* a thread to run, even before the idle thread exists, and exactly the    *)
(* current thread has the status RUNNING (thread_current).                 *)
RunQueueExact ==
  /\ \A i, j \in DOMAIN ready_list : ready_list[i] = ready_list[j] => i = j
  /\ Range(ready_list) = {t \in Pages : status[t] = "READY"} \ {idle_thread}
  /\ {t \in Pages : status[t] = "RUNNING"} = {current}
=============================================================================
