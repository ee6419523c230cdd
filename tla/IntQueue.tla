----------------------------- MODULE IntQueue -----------------------------
(***************************************************************************)
(* The queue of devices/intq.c between threads and an interrupt handler:   *)
(* the keyboard and serial input, where threads call intq_getc and         *)
(* handlers intq_putc, and the serial output, where it is the other way.   *)
(*                                                                         *)
(* The code runs with interrupts off and is preempted only where it        *)
(* blocks: in the sema_down of q->lock, and in wait, which keeps q->lock.  *)
(***************************************************************************)
EXTENDS Scheduler, SequencesExt

CONSTANTS
  INTQ_BUFSIZE,  \* slots of the ring, at least 2
  Numbers        \* bytes are numbered modulo this, more than INTQ_BUFSIZE,
                 \* to tell them apart

VARIABLES
  ThreadOp,        \* "getc" or "putc", the one that threads call
  buf, head, tail,
  waiter,          \* not_empty is waiter["getc"], not_full is waiter["putc"]
  lock,            \* the value of the semaphore of q->lock
  lock_waiters,
  pc,              \* "run", "acquire", "waiting"; for the idle thread "loop", "hlt"
  panic,           \* an assertion failed
  produced,        \* history: the number of the next byte to be put ...
  consumed         \* ... and to be got

queue == <<buf, head, tail, produced, consumed>>
vars == <<schedVars, ThreadOp, queue, waiter, lock, lock_waiters, pc, panic>>

(* All threads but the idle thread.                                        *)
Threads == Pages \ {Idle}

InterruptOp == IF ThreadOp = "getc" THEN "putc" ELSE "getc"

(* Fault: positions do not wrap around.                                    *)
nextUnwrapped(pos) == pos + 1

next(pos) == (pos + 1) % INTQ_BUFSIZE

intq_empty == head = tail

intq_full == next(head) = tail

(* The condition that an operation waits for.                              *)
MayProceed(op) == IF op = "getc" THEN ~intq_empty ELSE ~intq_full

Init ==
  /\ current = Initial
  /\ ready_list = SetToSeq(Threads \ {Initial})
  /\ status = [t \in Pages |-> CASE t = Initial -> "RUNNING"
                                 [] t = Idle -> "BLOCKED"
                                 [] OTHER -> "READY"]
  /\ idle_thread = Idle
  /\ thread_ticks = 0
  /\ ThreadOp \in {"getc", "putc"}
  /\ buf = [i \in 0..(INTQ_BUFSIZE - 1) |-> 0]
  /\ head = 0 /\ tail = 0
  /\ waiter = [op \in {"getc", "putc"} |-> NULL]
  /\ lock = 1
  /\ lock_waiters = <<>>
  /\ pc = [t \in Pages |-> IF t = Idle THEN "hlt" ELSE "run"]
  /\ panic = FALSE
  /\ produced = 0 /\ consumed = 0

-----------------------------------------------------------------------------
(* A byte enters or leaves the buffer.                                     *)
Transfer(op) ==
  IF op = "getc"
  THEN /\ tail' = next(tail)
       /\ consumed' = (consumed + 1) % Numbers
       /\ UNCHANGED <<buf, head, produced>>
  ELSE /\ buf' = [buf EXCEPT ![head] = produced]
       /\ head' = next(head)
       /\ produced' = (produced + 1) % Numbers
       /\ UNCHANGED <<tail, consumed>>

(* signal after op: it wakes the thread that waits to do the opposite.     *)
Opposite(op) == IF op = "getc" THEN "putc" ELSE "getc"

Signalled(op) == IF waiter[Opposite(op)] = NULL THEN <<>> ELSE <<waiter[Opposite(op)]>>

Finish(op, woken) ==
  /\ Transfer(op)
  /\ waiter' = [waiter EXCEPT ![Opposite(op)] = NULL]
  /\ thread_unblock(woken \o Signalled(op))

(* The current thread has just made the threads of woken ready and blocks. *)
Block(woken) ==
  schedule([Woken(woken) EXCEPT ![current] = "BLOCKED"], ready_list \o woken)

Goto(l) == pc' = [pc EXCEPT ![current] = l]

(* lock_acquire finds q->lock taken.                                       *)
AwaitLock(sleepers, woken) ==
  /\ lock' = 0
  /\ lock_waiters' = Append(sleepers, current)
  /\ Block(woken)
  /\ Goto("acquire")
  /\ UNCHANGED <<queue, waiter>>

(* wait, by a thread that has q->lock.                                     *)
wait(sleepers, woken) ==
  /\ lock' = 0
  /\ lock_waiters' = sleepers
  /\ waiter' = [waiter EXCEPT ![ThreadOp] = current]
  /\ Block(woken)
  /\ Goto("waiting")
  /\ UNCHANGED queue

(* The loop of intq_getc or intq_putc, entered with q->lock at value free. *)
Loop(free, sleepers, woken) ==
  IF MayProceed(ThreadOp)
  THEN /\ Finish(ThreadOp, woken)
       /\ lock' = free
       /\ lock_waiters' = sleepers
       /\ Goto("run")
  ELSE IF free = 0 THEN AwaitLock(sleepers, woken) ELSE wait(sleepers, woken)

At(l) == ~panic /\ current # Idle /\ pc[current] = l

(* A thread calls intq_getc or intq_putc.                                  *)
Enter ==
  /\ At("run")
  /\ Loop(lock, lock_waiters, <<>>)
  /\ UNCHANGED <<ThreadOp, panic>>

(* A thread that was signalled releases q->lock and looks again.           *)
Resume ==
  /\ At("waiting")
  /\ IF lock_waiters = <<>>
     THEN Loop(1, <<>>, <<>>)
     ELSE Loop(1, Tail(lock_waiters), <<Head(lock_waiters)>>)
  /\ UNCHANGED <<ThreadOp, panic>>

(* A thread woken in lock_acquire goes straight to wait, which asserts     *)
(* that the queue is still empty, or full.                                 *)
Acquired ==
  /\ At("acquire")
  /\ IF lock = 0
     THEN AwaitLock(lock_waiters, <<>>) /\ UNCHANGED panic
     ELSE IF MayProceed(ThreadOp)
     THEN panic' = TRUE /\ UNCHANGED <<schedVars, queue, waiter, lock, lock_waiters, pc>>
     ELSE wait(lock_waiters, <<>>) /\ UNCHANGED panic
  /\ UNCHANGED ThreadOp

-----------------------------------------------------------------------------
EndHlt == pc' = [pc EXCEPT ![current] = IF @ = "hlt" THEN "loop" ELSE @]

IntrOn == ~panic /\ pc[current] \in {"run", "loop", "hlt"}

(* A handler puts a byte when there is room, or takes one when there is one. *)
Interrupt ==
  /\ IntrOn
  /\ MayProceed(InterruptOp)
  /\ Finish(InterruptOp, <<>>)
  /\ EndHlt
  /\ UNCHANGED <<lock, lock_waiters, ThreadOp, panic>>

TimerInterrupt ==
  /\ IntrOn
  /\ ThreadTick(<<>>)
  /\ EndHlt
  /\ UNCHANGED <<queue, waiter, lock, lock_waiters, ThreadOp, panic>>

IdleBlock ==
  /\ ~panic
  /\ current = Idle
  /\ pc[Idle] = "loop"
  /\ thread_block
  /\ Goto("hlt")
  /\ UNCHANGED <<queue, waiter, lock, lock_waiters, ThreadOp, panic>>

Next == Enter \/ Resume \/ Acquired \/ Interrupt \/ TimerInterrupt \/ IdleBlock

Spec == Init /\ [][Next]_vars

(* The clock ticks, the processor executes the kernel, and the device      *)
(* interrupts whenever there is a byte to move.                            *)
FairSpec ==
  /\ Spec
  /\ WF_vars(TimerInterrupt) /\ WF_vars(Interrupt)
  /\ WF_vars(Resume \/ Acquired \/ IdleBlock)

-----------------------------------------------------------------------------
TypeOK ==
  /\ SchedTypeOK
  /\ ThreadOp \in {"getc", "putc"}
  /\ buf \in [0..(INTQ_BUFSIZE - 1) -> 0..(Numbers - 1)]
  /\ {head, tail} \subseteq 0..(INTQ_BUFSIZE - 1)
  /\ waiter \in [{"getc", "putc"} -> Threads \cup {NULL}]
  /\ lock \in 0..1
  /\ lock_waiters \in Seq(Threads)
  /\ pc \in [Pages -> {"run", "acquire", "waiting", "loop", "hlt"}]
  /\ panic \in BOOLEAN
  /\ {produced, consumed} \subseteq 0..(Numbers - 1)

(* No byte is lost, repeated or overwritten: from tail to head the buffer  *)
(* holds exactly the bytes that were put and not got, in order.            *)
Fifo ==
  LET count == (head - tail) % INTQ_BUFSIZE
  IN /\ (produced - consumed) % Numbers = count
     /\ \A i \in 0..(count - 1) :
          buf[(tail + i) % INTQ_BUFSIZE] = (consumed + i) % Numbers

(* Only one thread waits at once, with q->lock, and signal knows it; it    *)
(* sleeps only while its condition is false.  Others sleep on q->lock.     *)
OneWaiter ==
  /\ RunQueueExact
  /\ \A t \in Threads : status[t] = "BLOCKED" =>
       \/ pc[t] = "acquire" /\ t \in ToSet(lock_waiters)
       \/ /\ pc[t] = "waiting" /\ waiter[ThreadOp] = t
          /\ lock = 0 /\ ~MayProceed(ThreadOp)
  /\ \A t, u \in Threads : pc[t] = "waiting" /\ pc[u] = "waiting" => t = u

(* intq.c, wait: ASSERT that not_empty is awaited only while the queue is  *)
(* empty, and not_full only while it is full.                              *)
WaitAssertion == ~panic
=============================================================================
