------------------------------ MODULE MCKernel ------------------------------
(***************************************************************************)
(* The parts of the kernel whose liveness rests on the scheduler, side by  *)
(* side in one run: Timer, Threads, IntQueue, and Process with memory that *)
(* is not scarce.  The first state decides which part runs; the others     *)
(* stay in their initial states, where their properties hold.              *)
(***************************************************************************)
EXTENDS Timer

CONSTANTS t1, t2, t3, p1, TID_ERROR

VARIABLES
  part,                                                  \* which part runs
  th_status, th_ready_list, th_current, th_idle_thread,  \* Threads
  th_thread_ticks, all_list, idle_started, th_pc,
  iq_status, iq_ready_list, iq_current, iq_idle_thread,  \* IntQueue
  iq_thread_ticks, ThreadOp, buf, head, tail, waiter, lock,
  lock_waiters, iq_pc, panic, produced, consumed,
  machine, pr_pc, target, ret, child_relations, todo,    \* Process
  pagedir, cmd_line, alive_count, exit_status, waited,
  sema_exec, sema_wait, loaded, released, reaped

(* Two threads that sleep, and the idle thread.                            *)
MCPages == {t1, t2, Idle}
MCDurations == -1..2

(* main, the idle thread and three free pages.                             *)
TH == INSTANCE Threads WITH
        Pages <- MCPages \cup {t3, p1}, TIME_SLICE <- 4,
        status <- th_status, ready_list <- th_ready_list, current <- th_current,
        idle_thread <- th_idle_thread, thread_ticks <- th_thread_ticks, pc <- th_pc

(* Three threads, a ring of three slots and a device.                      *)
IQ == INSTANCE IntQueue WITH
        Pages <- MCPages \cup {t3}, INTQ_BUFSIZE <- 3, Numbers <- 5,
        status <- iq_status, ready_list <- iq_ready_list, current <- iq_current,
        idle_thread <- iq_idle_thread, thread_ticks <- iq_thread_ticks, pc <- iq_pc

(* A parent chain t1 -> t2 -> t3.                                          *)
PR == INSTANCE Process WITH
        Procs <- {t1, t2, t3}, Main <- t1, Statuses <- {}, LoadOutcomes <- BOOLEAN,
        WaitedGarbage <- {FALSE}, MallocFails <- FALSE, pc <- pr_pc

threadsVars == <<th_status, th_ready_list, th_current, th_idle_thread, th_thread_ticks,
                 all_list, idle_started, th_pc>>
queueVars == <<iq_status, iq_ready_list, iq_current, iq_idle_thread, iq_thread_ticks, ThreadOp,
               buf, head, tail, waiter, lock, lock_waiters, iq_pc, panic, produced, consumed>>
processVars == <<machine, pr_pc, target, ret, child_relations, todo, pagedir, cmd_line,
                 alive_count, exit_status, waited, sema_exec, sema_wait, loaded, released, reaped>>
kernelVars == <<part, vars, threadsVars, queueVars, processVars>>

KernelInit ==
  /\ part \in {"threads", "timer", "queue", "process"}
  /\ TH!Init /\ Init /\ IQ!Init /\ PR!Init
  /\ part = "queue" \/ ThreadOp = "getc"

(* A failed assertion stops the machine, and programs may wait for ever.   *)
MayStop == part = "process" \/ panic

KernelNext ==
  /\ \/ part = "threads" /\ TH!Next /\ UNCHANGED <<vars, queueVars, processVars>>
     \/ part = "timer" /\ Next /\ UNCHANGED <<threadsVars, queueVars, processVars>>
     \/ part = "queue" /\ IQ!Next /\ UNCHANGED <<vars, threadsVars, processVars>>
     \/ part = "process" /\ PR!Next /\ UNCHANGED <<vars, threadsVars, queueVars>>
     \/ MayStop /\ UNCHANGED kernelVars
  /\ UNCHANGED part

InThreads(A) == part = "threads" /\ A /\ UNCHANGED <<part, vars, queueVars, processVars>>
InTimer(A) == part = "timer" /\ A /\ UNCHANGED <<part, threadsVars, queueVars, processVars>>
InQueue(A) == part = "queue" /\ A /\ UNCHANGED <<part, vars, threadsVars, processVars>>
InProcess(p) ==
  /\ part = "process" /\ machine = "up" /\ PR!KernelStep(p)
  /\ UNCHANGED <<part, vars, threadsVars, queueVars>>

(* The fairness of the FairSpec of each module: the clock ticks, devices   *)
(* interrupt, and the processor executes the kernel.  Since only one part  *)
(* runs, one condition serves a step of each.                              *)
Fairness ==
  /\ WF_kernelVars(\/ InThreads(TH!TimerInterrupt) \/ InTimer(timer_interrupt)
                   \/ InQueue(IQ!TimerInterrupt))
  /\ WF_kernelVars(\/ InThreads(TH!IdleInit \/ TH!IdleUp \/ TH!IdleBlock)
                   \/ InTimer(SleepReturn \/ IdleBlock)
                   \/ InQueue(IQ!Resume \/ IQ!Acquired \/ IQ!IdleBlock)
                   \/ InProcess(t1))
  /\ WF_kernelVars(InThreads(TH!StartDown) \/ InQueue(IQ!Interrupt) \/ InProcess(t2))
  /\ WF_kernelVars(InProcess(t3))

KernelSpec == KernelInit /\ [][KernelNext]_kernelVars /\ Fairness

(* One part alone.                                                         *)
OnlyQueue == KernelInit /\ part = "queue" /\ [][KernelNext]_kernelVars

-----------------------------------------------------------------------------
(* thread.c, timer.c, intq.c: wherever threads block and wake, the run     *)
(* queue holds each ready thread once and no other, a page is freed only   *)
(* when it is on no list, a thread is on sleeping_threads exactly while it *)
(* sleeps, and only one thread at a time waits on an interrupt queue.      *)
RunQueueHolds ==
  /\ TH!TypeOK /\ TH!RunQueueExact /\ TH!FreedPagesUnused
  /\ TypeOK /\ SleepersBlocked
  /\ IQ!TypeOK /\ IQ!OneWaiter

(* intq.c: the queue between a handler and threads loses, repeats and      *)
(* reorders no byte.                                                       *)
QueueIsFifo == IQ!Fifo

(* What a thread may be waiting for, part by part, and that it got it:     *)
(* the processor, when it is ready; the end of its sleep; a byte, or room  *)
(* for one; the return of exec, or of a wait for a child that has exited.  *)
Waits(t) ==
  \/ part = "threads" /\ th_status[t] = "READY"
  \/ part = "timer" /\ t \in Threads /\ status[t] = "BLOCKED"
  \/ part = "queue" /\ t # p1 /\ iq_pc[t] \in {"waiting", "acquire"}
  \/ part = "process" /\ t # p1 /\ pr_pc[t] \in {"exec_down", "exec_check"}
  \/ /\ part = "process" /\ t # p1 /\ pr_pc[t] = "wait_down"
     /\ loaded[target[t]] = "ok" /\ PR!Exited(target[t])
Served(t) ==
  \/ part = "threads" /\ th_current = t
  \/ part = "timer" /\ current = t
  \/ part = "queue" /\ (iq_current = t \/ panic)
  \/ part = "process" /\ (machine # "up" \/ (t # p1 /\ pr_pc[t] = "user"))
(* thread.c, timer.c, intq.c, process.c: whoever waits is served, whatever *)
(* the other threads do.                                                   *)
NobodyWaitsForEver == \A t \in {t1, t2, t3, p1} : Waits(t) ~> Served(t)

(* intq.c:84, wait: ASSERT that not_empty is awaited only while the queue  *)
(* is empty, and not_full only while it is full.                           *)
WaitAssertion == IQ!WaitAssertion
=============================================================================
