------------------------------- MODULE Threads -------------------------------
(***************************************************************************)
(* The life of threads in threads/thread.c: creation, blocking, waking,    *)
(* yielding, exit, preemption, the start of the idle thread, and the page  *)
(* of a struct thread, which is used again after it is freed.              *)
(***************************************************************************)
EXTENDS Scheduler

VARIABLES
  all_list,      \* as a set
  idle_started,  \* the value of the semaphore of thread_start
  pc             \* "boot", "run"; for the idle thread "up", "loop", "hlt"

vars == <<schedVars, all_list, idle_started, pc>>

(* main() after thread_create made the idle thread, interrupts enabled.    *)
Init ==
  /\ status = [t \in Pages |-> CASE t = Initial -> "RUNNING"
                                 [] t = Idle -> "READY"
                                 [] OTHER -> "FREE"]
  /\ ready_list = <<Idle>>
  /\ all_list = {Initial, Idle}
  /\ current = Initial
  /\ idle_thread = NULL
  /\ idle_started = 0
  /\ thread_ticks = 0
  /\ pc = [t \in Pages |-> IF t \in {Initial, Idle} THEN "boot" ELSE "run"]

Running(t, l) == current = t /\ pc[t] = l

(* Any interrupt ends the hlt of the idle thread.                          *)
EndHlt == pc' = [pc EXCEPT ![current] = IF @ = "hlt" THEN "loop" ELSE @]

-----------------------------------------------------------------------------
(* What threads do with interrupts on.                                     *)

ThreadCreate(t) ==
  /\ pc[current] = "run"
  /\ status[t] = "FREE"
  /\ all_list' = all_list \cup {t}
  /\ thread_unblock(<<t>>)
  /\ UNCHANGED <<idle_started, pc>>

(* intr_disable and thread_block, on behalf of some wait list.             *)
ThreadBlock ==
  /\ pc[current] = "run"
  /\ thread_block
  /\ UNCHANGED <<all_list, idle_started, pc>>

(* Somebody wakes a thread that blocked itself: the current thread or the  *)
(* handler of a device interrupt.  The idle thread is on no wait list.     *)
ThreadUnblock(t) ==
  /\ status[t] = "BLOCKED"
  /\ pc[t] = "run"
  /\ thread_unblock(<<t>>)
  /\ EndHlt
  /\ UNCHANGED <<all_list, idle_started>>

ThreadYield ==
  /\ pc[current] = "run"
  /\ thread_yield(status, ready_list)
  /\ UNCHANGED <<all_list, idle_started, pc>>

(* Fault: a dying thread stays on all_list.                                *)
ThreadExitListed ==
  /\ pc[current] = "run"
  /\ all_list' = all_list
  /\ schedule([status EXCEPT ![current] = "DYING"], ready_list)
  /\ UNCHANGED <<idle_started, pc>>

ThreadExit ==
  /\ pc[current] = "run"
  /\ all_list' = all_list \ {current}
  /\ schedule([status EXCEPT ![current] = "DYING"], ready_list)
  /\ UNCHANGED <<idle_started, pc>>

TimerInterrupt ==
  /\ ThreadTick(<<>>)
  /\ EndHlt
  /\ UNCHANGED <<all_list, idle_started>>

-----------------------------------------------------------------------------
(* The start of the idle thread.                                           *)

(* thread_start: sema_down (&idle_started).                                *)
StartDown ==
  /\ Running(Initial, "boot")
  /\ IF idle_started > 0
     THEN /\ idle_started' = idle_started - 1
          /\ pc' = [pc EXCEPT ![Initial] = "run"]
          /\ UNCHANGED schedVars
     ELSE /\ thread_block
          /\ UNCHANGED <<idle_started, pc>>
  /\ UNCHANGED <<all_list>>

IdleInit ==
  /\ Running(Idle, "boot")
  /\ idle_thread' = Idle
  /\ pc' = [pc EXCEPT ![Idle] = "up"]
  /\ UNCHANGED <<status, ready_list, current, thread_ticks, all_list, idle_started>>

(* sema_up (idle_started) wakes main() when it is waiting already.         *)
IdleUp ==
  /\ Running(Idle, "up")
  /\ thread_unblock(IF status[Initial] = "BLOCKED" THEN <<Initial>> ELSE <<>>)
  /\ idle_started' = idle_started + 1
  /\ pc' = [pc EXCEPT ![Idle] = "loop"]
  /\ UNCHANGED <<all_list>>

(* Blocks; the next time it runs it halts until an interrupt comes.        *)
IdleBlock ==
  /\ Running(Idle, "loop")
  /\ thread_block
  /\ pc' = [pc EXCEPT ![Idle] = "hlt"]
  /\ UNCHANGED <<all_list, idle_started>>

Next ==
  \/ \E t \in Pages : ThreadCreate(t) \/ ThreadUnblock(t)
  \/ ThreadBlock \/ ThreadYield \/ ThreadExit \/ TimerInterrupt
  \/ StartDown \/ IdleInit \/ IdleUp \/ IdleBlock

Spec == Init /\ [][Next]_vars

(* The clock keeps ticking, and the processor executes the idle thread.    *)
FairSpec == Spec /\ WF_vars(TimerInterrupt) /\ WF_vars(StartDown)
                 /\ WF_vars(IdleInit \/ IdleUp \/ IdleBlock)

-----------------------------------------------------------------------------
TypeOK ==
  /\ SchedTypeOK
  /\ all_list \subseteq Pages
  /\ idle_started \in 0..1
  /\ pc \in [Pages -> {"boot", "run", "up", "loop", "hlt"}]

(* A page is freed only when it is on no list and nobody runs on it, and   *)
(* all_list holds exactly the threads that have not exited: thread_exit    *)
(* leaves the page to the next thread, which frees it, or keeps that of    *)
(* the initial thread.                                                     *)
FreedPagesUnused ==
  /\ all_list = {t \in Pages : status[t] \notin {"FREE", "DYING"}}
  /\ \A t \in Pages : status[t] = "DYING" => t = Initial
=============================================================================
