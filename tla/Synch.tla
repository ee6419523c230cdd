------------------------------- MODULE Synch -------------------------------
(***************************************************************************)
(* Semaphores, a lock and condition variables of threads/synch.c, on top   *)
(* of the scheduler: threads call the operations in any order that their   *)
(* assertions allow and are preempted wherever interrupts are on.          *)
(*                                                                         *)
(* A condition variable keeps a list of semaphores, one on the stack of    *)
(* each waiting thread: that semaphore has the name of the thread.         *)
(***************************************************************************)
EXTENDS Scheduler, FiniteSets

CONSTANTS
  Counters,    \* plain semaphores
  Lock,        \* the semaphore of the lock
  Conds,       \* the condition variables associated with the lock
  MaxValue     \* bound on the value of a plain semaphore

ASSUME SynchAssumption ==
  /\ IsFiniteSet(Pages)
  /\ Counters \cap Pages = {} /\ Lock \notin Counters \cup Pages
  /\ Conds \cap {"run", "holder", "cond_down", "relock"} = {}
  /\ MaxValue \in Nat

VARIABLES
  value, waiters,     \* of each semaphore
  holder,             \* lock.holder
  cond_waiters,       \* condition.waiters
  pc,                 \* where each thread is
  sema,               \* the semaphore of the sema_down it is in
  after               \* where it goes after that sema_down or lock_release

semaVars == <<value, waiters>>
vars == <<schedVars, semaVars, holder, cond_waiters, pc, sema, after>>

(* All threads but the idle thread.                                        *)
Threads == Pages \ {Idle}

Semas == Counters \cup {Lock} \cup Threads

(* After boot: every thread is ready and one runs.                         *)
Init ==
  /\ current \in Threads
  /\ ready_list \in {q \in [1..(Cardinality(Threads) - 1) -> Threads \ {current}] :
                       Range(q) = Threads \ {current}}
  /\ status = [t \in Pages |-> CASE t = current -> "RUNNING"
                                 [] t = Idle -> "BLOCKED"
                                 [] OTHER -> "READY"]
  /\ idle_thread = Idle
  /\ thread_ticks = 0
  /\ value = [s \in Semas |-> IF s = Lock THEN 1 ELSE 0]
  /\ waiters = [s \in Semas |-> <<>>]
  /\ holder = NULL
  /\ cond_waiters = [c \in Conds |-> <<>>]
  /\ pc = [t \in Pages |-> IF t = Idle THEN "hlt" ELSE "run"]
  /\ sema = [t \in Threads |-> Lock]
  /\ after = [t \in Threads |-> "run"]

At(l) == current # Idle /\ pc[current] = l

Goto(l) == pc' = [pc EXCEPT ![current] = l]

-----------------------------------------------------------------------------

(* One turn of the loop of sema_down, with interrupts off: the thread goes *)
(* on at l with the semaphore, or sleeps and comes back for another turn.  *)
sema_down(s, l) ==
  IF value[s] = 0
  THEN /\ waiters' = [waiters EXCEPT ![s] = Append(@, current)]
       /\ thread_block
       /\ Goto("down")
       /\ sema' = [sema EXCEPT ![current] = s]
       /\ after' = [after EXCEPT ![current] = l]
       /\ UNCHANGED value
  ELSE /\ value' = [value EXCEPT ![s] = @ - 1]
       /\ Goto(l)
       /\ UNCHANGED <<schedVars, waiters, sema, after>>

sema_try_down(s, l) ==
  /\ value[s] > 0
  /\ value' = [value EXCEPT ![s] = @ - 1]
  /\ Goto(l)
  /\ UNCHANGED <<schedVars, waiters, sema, after>>

(* Fault: a woken thread stays on the list.                                *)
sema_upKeeps(s) ==
  /\ IF waiters[s] = <<>>
     THEN UNCHANGED <<schedVars, waiters>>
     ELSE /\ thread_unblock(<<Head(waiters[s])>>)
          /\ waiters' = [waiters EXCEPT ![s] = @]
  /\ value' = [value EXCEPT ![s] = @ + 1]

(* Fault: nobody is woken.                                                 *)
sema_upSilent(s) ==
  /\ IF TRUE
     THEN UNCHANGED <<schedVars, waiters>>
     ELSE /\ thread_unblock(<<Head(waiters[s])>>)
          /\ waiters' = [waiters EXCEPT ![s] = Tail(@)]
  /\ value' = [value EXCEPT ![s] = @ + 1]

sema_up(s) ==
  /\ IF waiters[s] = <<>>
     THEN UNCHANGED <<schedVars, waiters>>
     ELSE /\ thread_unblock(<<Head(waiters[s])>>)
          /\ waiters' = [waiters EXCEPT ![s] = Tail(@)]
  /\ value' = [value EXCEPT ![s] = @ + 1]

(* A thread that was woken in sema_down looks at the value again.          *)
DownAgain ==
  /\ At("down")
  /\ sema_down(sema[current], after[current])
  /\ UNCHANGED <<holder, cond_waiters>>

-----------------------------------------------------------------------------
(* Plain semaphores.                                                       *)

SemaDown(s) ==
  /\ At("run")
  /\ sema_down(s, "run")
  /\ UNCHANGED <<holder, cond_waiters>>

SemaTryDown(s) ==
  /\ At("run")
  /\ sema_try_down(s, "run")
  /\ UNCHANGED <<holder, cond_waiters>>

SemaUp(s) ==
  /\ At("run")
  /\ value[s] < MaxValue
  /\ sema_up(s)
  /\ UNCHANGED <<holder, cond_waiters, pc, sema, after>>

(* Any interrupt ends the hlt of the idle thread.                          *)
EndHlt == pc' = [pc EXCEPT ![current] = IF @ = "hlt" THEN "loop" ELSE @]

(* Interrupts are off only inside sema_down.                               *)
IntrOn == pc[current] # "down"

(* The interrupt handler of a device ups a semaphore.                      *)
InterruptUp(s) ==
  /\ IntrOn
  /\ value[s] < MaxValue
  /\ sema_up(s)
  /\ EndHlt
  /\ UNCHANGED <<holder, cond_waiters, sema, after>>

-----------------------------------------------------------------------------
(* The lock.                                                               *)

lock_held_by_current_thread == holder = current

LockAcquire ==
  /\ At("run")
  /\ ~lock_held_by_current_thread
  /\ sema_down(Lock, "holder")
  /\ UNCHANGED <<holder, cond_waiters>>

LockTryAcquire ==
  /\ At("run")
  /\ ~lock_held_by_current_thread
  /\ sema_try_down(Lock, "holder")
  /\ UNCHANGED <<holder, cond_waiters>>

(* The thread has the semaphore; it becomes the holder a little later.     *)
SetHolder ==
  /\ At("holder")
  /\ holder' = current
  /\ Goto("run")
  /\ UNCHANGED <<schedVars, semaVars, cond_waiters, sema, after>>

(* lock_release up to its sema_up.                                         *)
ClearHolder(l) ==
  /\ lock_held_by_current_thread
  /\ holder' = NULL
  /\ Goto("release")
  /\ after' = [after EXCEPT ![current] = l]

LockRelease ==
  /\ At("run")
  /\ ClearHolder("run")
  /\ UNCHANGED <<schedVars, semaVars, cond_waiters, sema>>

ReleaseUp ==
  /\ At("release")
  /\ sema_up(Lock)
  /\ Goto(after[current])
  /\ UNCHANGED <<holder, cond_waiters, sema, after>>

-----------------------------------------------------------------------------
(* Condition variables.                                                    *)

(* Fault: waiters are signalled last in, first out.                        *)
CondWaitFront(c) ==
  /\ At("run")
  /\ value' = [value EXCEPT ![current] = 0]
  /\ waiters' = [waiters EXCEPT ![current] = <<>>]
  /\ cond_waiters' = [cond_waiters EXCEPT ![c] = <<current>> \o @]
  /\ ClearHolder("cond_down")
  /\ UNCHANGED <<schedVars, sema>>

(* cond_wait up to the sema_up of its lock_release.                        *)
CondWait(c) ==
  /\ At("run")
  /\ value' = [value EXCEPT ![current] = 0]
  /\ waiters' = [waiters EXCEPT ![current] = <<>>]
  /\ cond_waiters' = [cond_waiters EXCEPT ![c] = Append(@, current)]
  /\ ClearHolder("cond_down")
  /\ UNCHANGED <<schedVars, sema>>

CondDown ==
  /\ At("cond_down")
  /\ sema_down(current, "relock")
  /\ UNCHANGED <<holder, cond_waiters>>

CondRelock ==
  /\ At("relock")
  /\ sema_down(Lock, "holder")
  /\ UNCHANGED <<holder, cond_waiters>>

cond_signal(c) ==
  /\ lock_held_by_current_thread
  /\ IF cond_waiters[c] = <<>>
     THEN UNCHANGED <<schedVars, semaVars, cond_waiters>>
     ELSE /\ sema_up(Head(cond_waiters[c]))
          /\ cond_waiters' = [cond_waiters EXCEPT ![c] = Tail(@)]
  /\ UNCHANGED <<holder, sema>>

CondSignal(c) == At("run") /\ cond_signal(c) /\ UNCHANGED <<pc, after>>

(* cond_broadcast signals until the list is empty.                         *)
CondBroadcast(c) ==
  /\ At("run") \/ (At("broadcast") /\ after[current] = c)
  /\ cond_signal(c)
  /\ Goto(IF cond_waiters'[c] = <<>> THEN "run" ELSE "broadcast")
  /\ after' = [after EXCEPT ![current] = IF cond_waiters'[c] = <<>> THEN "run" ELSE c]

-----------------------------------------------------------------------------
TimerInterrupt ==
  /\ IntrOn
  /\ ThreadTick(<<>>)
  /\ EndHlt
  /\ UNCHANGED <<semaVars, holder, cond_waiters, sema, after>>

IdleBlock ==
  /\ current = Idle
  /\ pc[Idle] = "loop"
  /\ thread_block
  /\ Goto("hlt")
  /\ UNCHANGED <<semaVars, holder, cond_waiters, sema, after>>

(* Steps of code inside synch.c, which its caller cannot avoid.            *)
Proceed ==
  \/ DownAgain \/ SetHolder \/ ReleaseUp \/ CondDown \/ CondRelock \/ IdleBlock
  \/ \E c \in Conds : At("broadcast") /\ CondBroadcast(c)

Next ==
  \/ Proceed \/ TimerInterrupt \/ LockAcquire \/ LockTryAcquire \/ LockRelease
  \/ \E s \in Counters : SemaDown(s) \/ SemaTryDown(s) \/ SemaUp(s) \/ InterruptUp(s)
  \/ \E c \in Conds : CondWait(c) \/ CondSignal(c) \/ CondBroadcast(c)

Spec == Init /\ [][Next]_vars

-----------------------------------------------------------------------------
TypeOK ==
  /\ SchedTypeOK
  /\ value \in [Semas -> 0..(MaxValue + 1)]
  /\ waiters \in [Semas -> Seq(Threads)]
  /\ holder \in Threads \cup {NULL}
  /\ cond_waiters \in [Conds -> Seq(Threads)]
  /\ pc \in [Pages -> {"run", "down", "holder", "release", "cond_down", "relock",
                       "broadcast", "loop", "hlt"}]
  /\ sema \in [Threads -> Semas]
  /\ after \in [Threads -> {"run", "holder", "cond_down", "relock"} \cup Conds]

Occurrences(t, q) == Cardinality({i \in DOMAIN q : q[i] = t})

(* thread.h, the elem member: a blocked thread is on the wait list of one  *)
(* semaphore, the one it is downing, and once; other threads are on none.  *)
(* The run queue holds exactly the ready threads.                          *)
ElemOnOneList ==
  /\ RunQueueExact
  /\ \A t \in Threads, s \in Semas :
       Occurrences(t, waiters[s]) = IF status[t] = "BLOCKED" /\ sema[t] = s THEN 1 ELSE 0

(* The threads that sema_up woke and that have not looked at s again.      *)
WokenOn(s) == {t \in Threads : pc[t] = "down" /\ sema[t] = s /\ status[t] # "BLOCKED"}

(* No wakeup is lost: while threads sleep on a semaphore, there is a woken *)
(* thread for every unit of its value.                                     *)
NoLostWakeup ==
  \A s \in Semas : waiters[s] # <<>> => value[s] <= Cardinality(WokenOn(s))

(* From the sema_down of lock_acquire to the sema_up of lock_release.      *)
Owns(t) == pc[t] \in {"holder", "release"} \/ holder = t

(* An element of a condition's list is the stack of a thread that is still *)
(* inside cond_wait and was not signalled: cond_wait does not return, and  *)
(* its frame is not reused, while the list points to it.                   *)
CondListsLive ==
  \A c \in Conds : \A i \in DOMAIN cond_waiters[c] :
    LET t == cond_waiters[c][i]
    IN /\ value[t] = 0
       /\ \/ pc[t] = "release" /\ after[t] = "cond_down"
          \/ pc[t] = "cond_down"
          \/ pc[t] = "down" /\ sema[t] = t
       /\ \A d \in Conds : Occurrences(t, cond_waiters[d]) = IF c = d THEN 1 ELSE 0

owner == IF \E t \in Threads : Owns(t) THEN CHOOSE t \in Threads : Owns(t) ELSE NULL

(* A thread waits from the moment lock_release gives up the lock.  Until   *)
(* then nobody else can join the list, so only its last element may not    *)
(* wait yet.                                                               *)
waiting ==
  [c \in Conds |-> LET list == cond_waiters[c]
                       n == Len(list)
                   IN IF n > 0 /\ pc[list[n]] = "release" THEN SubSeq(list, 1, n - 1) ELSE list]

M == INSTANCE Monitor

(* "Atomically releases LOCK and waits for COND": the lock and the         *)
(* condition variables are a monitor, although cond_wait puts itself on    *)
(* the list first, releases the lock next, and sleeps last.                *)
ImplementsMonitor == M!MonitorSpec
=============================================================================
