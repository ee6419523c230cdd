---------------------------- MODULE SynchProofs ----------------------------
(***************************************************************************)
(* Proofs about semaphores, the lock and condition variables, for any      *)
(* number of threads, semaphores and conditions, whatever the length of a  *)
(* time slice and wherever threads are preempted.                          *)
(***************************************************************************)
EXTENDS Synch, FiniteSetTheorems, SequenceTheorems, TLAPS

(* Zenon proves a leaf unless the leaf names another prover.               *)
USE ZenonT(60)

-----------------------------------------------------------------------------
(* The run queue and the switch of thread.c, and sequences as the lists of *)
(* list.c.                                                                 *)

Distinct(q) == \A i, j \in DOMAIN q : q[i] = q[j] => i = j

Asleep(t) == status[t] = "BLOCKED"

(* The scheduler once the idle thread exists, without dying threads.       *)
SchedInv ==
  /\ SchedTypeOK
  /\ idle_thread = Idle
  /\ current \in Pages
  /\ status \in [Pages -> {"RUNNING", "READY", "BLOCKED"}]
  /\ RunQueueExact

-----------------------------------------------------------------------------
(* Sequences as the lists of list.c: what is on them, and how often.       *)

LEMMA AppendSet ==
  ASSUME NEW S, NEW q \in Seq(S), NEW e \in S
  PROVE  /\ Append(q, e) \in Seq(S)
         /\ Range(Append(q, e)) = Range(q) \cup {e}
         /\ Distinct(q) /\ e \notin Range(q) => Distinct(Append(q, e))
<1> DEFINE r == Append(q, e)
<1>1. /\ r \in Seq(S) /\ Len(r) = Len(q) + 1 /\ Len(q) \in Nat
      /\ DOMAIN q = 1..Len(q) /\ DOMAIN r = 1..(Len(q) + 1)
      /\ \A i \in 1..Len(q) : r[i] = q[i]
      /\ r[Len(q) + 1] = e
  BY AppendProperties, LenProperties, SMTT(60)
<1> HIDE DEF r
<1>2. Range(r) = Range(q) \cup {e}
  BY <1>1, SMTT(60) DEF Range
<1>3. ASSUME Distinct(q), e \notin Range(q) PROVE Distinct(r)
  BY <1>1, <1>3, SMTT(60) DEF Distinct, Range
<1> QED BY <1>1, <1>2, <1>3 DEF r

LEMMA TailSet ==
  ASSUME NEW S, NEW q \in Seq(S), q # <<>>
  PROVE  /\ Head(q) \in S /\ Tail(q) \in Seq(S)
         /\ Range(q) = Range(Tail(q)) \cup {Head(q)}
         /\ Distinct(q) => Distinct(Tail(q)) /\ Head(q) \notin Range(Tail(q))
<1> DEFINE r == Tail(q)
<1>1. /\ Head(q) \in S /\ r \in Seq(S) /\ Len(r) = Len(q) - 1 /\ Len(q) \in Nat \ {0}
      /\ DOMAIN q = 1..Len(q) /\ DOMAIN r = 1..(Len(q) - 1)
      /\ \A i \in 1..(Len(q) - 1) : r[i] = q[i + 1]
      /\ Head(q) = q[1]
  BY HeadTailProperties, LenProperties, EmptySeq, SMTT(60)
<1> HIDE DEF r
<1>2. Range(q) = Range(r) \cup {Head(q)}
  <2>1. \A i \in 1..Len(q) : i = 1 \/ (i - 1 \in 1..(Len(q) - 1) /\ q[i] = r[i - 1])
    BY <1>1, SMTT(60)
  <2>2. \A i \in 1..(Len(q) - 1) : i + 1 \in 1..Len(q) /\ r[i] = q[i + 1]
    BY <1>1, SMTT(60)
  <2>3. ASSUME NEW x \in Range(q) PROVE x \in Range(r) \cup {Head(q)}
    <3>1. PICK i \in 1..Len(q) : x = q[i]
      BY <1>1 DEF Range
    <3> QED BY <1>1, <2>1, <3>1 DEF Range
  <2>4. ASSUME NEW x \in Range(r) PROVE x \in Range(q)
    <3>1. PICK i \in 1..(Len(q) - 1) : x = r[i]
      BY <1>1 DEF Range
    <3> QED BY <1>1, <2>2, <3>1 DEF Range
  <2>5. Head(q) \in Range(q)
    BY <1>1, SMTT(60) DEF Range
  <2> QED BY <2>3, <2>4, <2>5
<1>3. ASSUME Distinct(q) PROVE Distinct(r) /\ Head(q) \notin Range(r)
  <2>1. Distinct(r)
    <3> SUFFICES ASSUME NEW i \in 1..(Len(q) - 1), NEW j \in 1..(Len(q) - 1), r[i] = r[j]
                 PROVE  i = j
      BY <1>1 DEF Distinct
    <3>1. i + 1 \in DOMAIN q /\ j + 1 \in DOMAIN q /\ q[i + 1] = q[j + 1]
      BY <1>1, SMTT(60)
    <3>2. i + 1 = j + 1
      BY <1>3, <3>1 DEF Distinct
    <3> QED BY <3>2, SMTT(60)
  <2>2. \A i \in 1..(Len(q) - 1) : r[i] # q[1]
    BY <1>1, <1>3, SMTT(60) DEF Distinct
  <2> QED BY <1>1, <2>1, <2>2 DEF Range
<1> QED BY <1>1, <1>2, <1>3 DEF r

LEMMA EmptySet ==
  /\ Range(<<>>) = {} /\ Distinct(<<>>)
  /\ \A S : \A q \in Seq(S) : (Range(q) = {}) => q = <<>>
<1>1. ASSUME NEW S, NEW q \in Seq(S), q # <<>> PROVE Range(q) # {}
  <2>1. Range(q) = Range(Tail(q)) \cup {Head(q)}
    BY <1>1, TailSet
  <2> QED BY <2>1
<1>2. DOMAIN <<>> = {}
  <2>1. <<>> \in Seq({}) /\ Len(<<>>) = 0
    BY EmptySeq
  <2>2. DOMAIN <<>> = 1..0
    BY <2>1, LenProperties
  <2>3. 1..0 = {}
    BY SMTT(60)
  <2> QED BY <2>2, <2>3
<1>3. Range(<<>>) = {}
  BY <1>2 DEF Range
<1>4. Distinct(<<>>)
  BY <1>2 DEF Distinct
<1> QED BY <1>1, <1>3, <1>4

(* A list with as many places as there are elements on it has none twice.  *)
LEMMA FullDistinct ==
  ASSUME NEW S, IsFiniteSet(S), NEW q \in [1..Cardinality(S) -> S], Range(q) = S
  PROVE  q \in Seq(S) /\ Distinct(q)
<1> DEFINE n == Cardinality(S)
<1>1. n \in Nat
  BY FS_CardinalityType
<1>2. IsFiniteSet(1..n) /\ Cardinality(1..n) = n
  BY <1>1, FS_Interval, SMTT(60)
<1>3. q \in Surjection(1..n, S)
  BY DEF Surjection, Range
<1>4. q \in Injection(1..n, S)
  BY <1>2, <1>3, FS_SurjSameCardinalityImpliesInj
<1>5. Distinct(q)
  BY <1>4 DEF Injection, IsInjective, Distinct
<1>6. q \in Seq(S)
  BY <1>1, IsASeq, SMTT(60)
<1> QED BY <1>5, <1>6

LEMMA ConcatOne ==
  ASSUME NEW S, NEW q \in Seq(S)
  PROVE  /\ q \o <<>> = q
         /\ \A e \in S : q \o <<e>> = Append(q, e)
BY ConcatEmptySeq, AppendIsConcat

-----------------------------------------------------------------------------
(* The scheduler: who sleeps after a switch, and that the run queue stays  *)
(* exact.                                                                  *)

(* RunQueueExact, on the values that a step leaves behind.                 *)
ReadyExact(stat, queue) ==
  /\ queue \in Seq(Pages)
  /\ Distinct(queue)
  /\ Range(queue) = {t \in Pages : stat[t] = "READY"} \ {Idle}

LEMMA SchedFacts ==
  SchedInv <=> /\ idle_thread = Idle
               /\ current \in Pages
               /\ thread_ticks \in 0..(TIME_SLICE - 1)
               /\ status \in [Pages -> {"RUNNING", "READY", "BLOCKED"}]
               /\ ReadyExact(status, ready_list)
               /\ {t \in Pages : status[t] = "RUNNING"} = {current}
BY DEF SchedInv, SchedTypeOK, Statuses, RunQueueExact, ReadyExact, Distinct

(* schedule, when the current thread is off the processor and the queue is *)
(* exact.                                                                  *)
LEMMA ScheduleInv ==
  ASSUME SchedInv, NEW stat \in [Pages -> {"RUNNING", "READY", "BLOCKED"}], NEW queue,
         ReadyExact(stat, queue), \A t \in Pages : stat[t] # "RUNNING",
         schedule(stat, queue)
  PROVE  /\ SchedInv'
         /\ \A t \in Threads : Asleep(t)' <=> stat[t] = "BLOCKED"
<1> DEFINE next == IF queue = <<>> THEN Idle ELSE Head(queue)
           rest == IF queue = <<>> THEN queue ELSE Tail(queue)
<1>1. Idle \in Pages /\ TIME_SLICE \in Nat \ {0} /\ current \in Pages /\ idle_thread = Idle
  BY SchedulerAssumption, SchedFacts
<1>2. /\ current' = next /\ ready_list' = rest /\ thread_ticks' = 0 /\ idle_thread' = Idle
      /\ status' = [stat EXCEPT ![next] = "RUNNING"]
  <2>1. stat[current] \in {"READY", "BLOCKED"}
    BY <1>1
  <2>2. [stat EXCEPT ![current] = stat[current]] = stat
    BY <1>1
  <2> QED BY <1>1, <2>1, <2>2 DEF schedule, next_thread_to_run
<1>3. /\ next \in Pages /\ rest \in Seq(Pages) /\ Distinct(rest)
      /\ Range(rest) = {t \in Pages : stat[t] = "READY"} \ {Idle, next}
      /\ next = Idle \/ stat[next] = "READY"
  <2>1. CASE queue = <<>>
    BY <1>1, <2>1, EmptySet DEF ReadyExact
  <2>2. CASE queue # <<>>
    BY <2>2, TailSet, SMTT(60) DEF ReadyExact
  <2> QED BY <2>1, <2>2
<1> HIDE DEF next, rest
<1>4. status' \in [Pages -> {"RUNNING", "READY", "BLOCKED"}]
  BY <1>2, <1>3
<1>5. {t \in Pages : status'[t] = "READY"} \ {Idle} =
        {t \in Pages : stat[t] = "READY"} \ {Idle, next}
  BY <1>2, <1>3
<1>6. ReadyExact(status', ready_list')
  BY <1>2, <1>3, <1>5 DEF ReadyExact
<1>7. {t \in Pages : status'[t] = "RUNNING"} = {current'}
  BY <1>2, <1>3
<1>8. SchedInv'
  <2>1. 0 \in 0..(TIME_SLICE - 1)
    BY <1>1, SMTT(60)
  <2>2. /\ idle_thread' = Idle /\ current' \in Pages /\ thread_ticks' \in 0..(TIME_SLICE - 1)
    BY <1>2, <1>3, <2>1
  <2> QED BY <1>4, <1>6, <1>7, <2>2 DEF SchedInv, SchedTypeOK, Statuses, RunQueueExact,
            ReadyExact, Distinct
<1>9. ASSUME NEW t \in Threads PROVE Asleep(t)' <=> stat[t] = "BLOCKED"
  BY <1>2, <1>3 DEF Asleep, Threads
<1> QED BY <1>8, <1>9

LEMMA BlockInv ==
  ASSUME SchedInv, thread_block
  PROVE  /\ SchedInv'
         /\ \A t \in Threads : Asleep(t)' <=> Asleep(t) \/ t = current
<1> DEFINE stat == [status EXCEPT ![current] = "BLOCKED"]
<1>1. /\ status \in [Pages -> {"RUNNING", "READY", "BLOCKED"}] /\ current \in Pages
      /\ ReadyExact(status, ready_list) /\ {t \in Pages : status[t] = "RUNNING"} = {current}
  BY SchedFacts
<1>2. /\ stat \in [Pages -> {"RUNNING", "READY", "BLOCKED"}]
      /\ \A t \in Pages : stat[t] # "RUNNING"
  BY <1>1
<1>3. {t \in Pages : stat[t] = "READY"} = {t \in Pages : status[t] = "READY"}
  BY <1>1
<1>4. \A t \in Threads : stat[t] = "BLOCKED" <=> Asleep(t) \/ t = current
  BY <1>1 DEF Threads, Asleep
<1>5. schedule(stat, ready_list)
  BY DEF thread_block
<1> HIDE DEF stat
<1>6. ReadyExact(stat, ready_list)
  BY <1>1, <1>3 DEF ReadyExact
<1> QED BY <1>2, <1>4, <1>5, <1>6, ScheduleInv

LEMMA UnblockInv ==
  ASSUME SchedInv, NEW h \in Threads, Asleep(h), thread_unblock(<<h>>)
  PROVE  /\ SchedInv' /\ current' = current
         /\ \A t \in Threads : Asleep(t)' <=> Asleep(t) /\ t # h
<1>1. /\ status \in [Pages -> {"RUNNING", "READY", "BLOCKED"}] /\ current \in Pages
      /\ idle_thread = Idle /\ thread_ticks \in 0..(TIME_SLICE - 1)
      /\ ReadyExact(status, ready_list) /\ {t \in Pages : status[t] = "RUNNING"} = {current}
  BY SchedFacts
<1>2. h \in Pages /\ h # Idle /\ status[h] = "BLOCKED"
  BY DEF Threads, Asleep
<1>3. Range(<<h>>) = {h}
  BY AppendSet, EmptySet, SMTT(60) DEF Range
<1>4. status' = [t \in Pages |-> IF t = h THEN "READY" ELSE status[t]]
  BY <1>3 DEF thread_unblock, Woken
<1>5. ready_list' = Append(ready_list, h)
  BY <1>1, <1>2, ConcatOne DEF thread_unblock, ReadyExact
<1>6. current' = current /\ idle_thread' = idle_thread /\ thread_ticks' = thread_ticks
  BY DEF thread_unblock
<1>7. h \notin Range(ready_list)
  BY <1>1, <1>2 DEF ReadyExact
<1>8. ReadyExact(status', ready_list')
  <2>1. /\ ready_list' \in Seq(Pages) /\ Distinct(ready_list')
        /\ Range(ready_list') = Range(ready_list) \cup {h}
    BY <1>1, <1>2, <1>5, <1>7, AppendSet, SMTT(60) DEF ReadyExact
  <2>2. {t \in Pages : status'[t] = "READY"} = {t \in Pages : status[t] = "READY"} \cup {h}
    BY <1>1, <1>2, <1>4
  <2> QED BY <1>1, <1>2, <2>1, <2>2 DEF ReadyExact
<1>9. /\ status' \in [Pages -> {"RUNNING", "READY", "BLOCKED"}]
      /\ {t \in Pages : status'[t] = "RUNNING"} = {current'}
  <2>1. {t \in Pages : status'[t] = "RUNNING"} = {t \in Pages : status[t] = "RUNNING"}
    BY <1>1, <1>2, <1>4
  <2> QED BY <1>1, <1>4, <1>6, <2>1
<1>10. SchedInv'
  BY <1>1, <1>6, <1>8, <1>9 DEF SchedInv, SchedTypeOK, Statuses, RunQueueExact, ReadyExact,
       Distinct
<1>11. ASSUME NEW t \in Threads PROVE Asleep(t)' <=> Asleep(t) /\ t # h
  BY <1>4 DEF Asleep, Threads
<1> QED BY <1>6, <1>10, <1>11

(* A time slice may end; nobody wakes and nobody goes to sleep.            *)
LEMMA TickInv ==
  ASSUME SchedInv, ThreadTick(<<>>)
  PROVE  /\ SchedInv'
         /\ \A t \in Threads : Asleep(t)' <=> Asleep(t)
<1>1. /\ status \in [Pages -> {"RUNNING", "READY", "BLOCKED"}] /\ current \in Pages
      /\ idle_thread = Idle /\ thread_ticks \in 0..(TIME_SLICE - 1)
      /\ ReadyExact(status, ready_list) /\ {t \in Pages : status[t] = "RUNNING"} = {current}
      /\ TIME_SLICE \in Nat \ {0}
  BY SchedFacts, SchedulerAssumption
<1>2. Range(<<>>) = {}
  BY EmptySet
<1>3. Woken(<<>>) = status
  BY <1>1, <1>2 DEF Woken
<1>4. ready_list \o <<>> = ready_list
  BY <1>1, ConcatOne DEF ReadyExact
<1>5. CASE thread_ticks + 1 >= TIME_SLICE
  <2> DEFINE stat == [status EXCEPT ![current] = "READY"]
             queue == IF current = Idle THEN ready_list ELSE Append(ready_list, current)
  <2>1. schedule(stat, queue)
    BY <1>1, <1>3, <1>4, <1>5 DEF ThreadTick, thread_yield
  <2>2. /\ stat \in [Pages -> {"RUNNING", "READY", "BLOCKED"}]
        /\ \A t \in Pages : stat[t] # "RUNNING"
    BY <1>1
  <2>3. {t \in Pages : stat[t] = "READY"} = {t \in Pages : status[t] = "READY"} \cup {current}
    BY <1>1
  <2>4. \A t \in Threads : stat[t] = "BLOCKED" <=> Asleep(t)
    BY <1>1 DEF Threads, Asleep
  <2>5. current \notin Range(ready_list)
    BY <1>1 DEF ReadyExact
  <2>6. /\ queue \in Seq(Pages) /\ Distinct(queue)
        /\ Range(queue) = (Range(ready_list) \cup {current}) \ {Idle}
    <3>1. CASE current = Idle
      BY <1>1, <2>5, <3>1 DEF ReadyExact
    <3>2. CASE current # Idle
      <4>1. Idle \notin Range(ready_list)
        BY <1>1 DEF ReadyExact
      <4> QED BY <1>1, <2>5, <3>2, <4>1, AppendSet, SMTT(60) DEF ReadyExact
    <3> QED BY <3>1, <3>2
  <2> HIDE DEF stat, queue
  <2>7. ReadyExact(stat, queue)
    BY <1>1, <2>3, <2>6 DEF ReadyExact
  <2> QED BY <2>1, <2>2, <2>4, <2>7, ScheduleInv
<1>6. CASE ~(thread_ticks + 1 >= TIME_SLICE)
  <2>1. /\ ready_list' = ready_list /\ status' = status /\ thread_ticks' = thread_ticks + 1
        /\ current' = current /\ idle_thread' = idle_thread
    BY <1>3, <1>4, <1>6 DEF ThreadTick
  <2>2. thread_ticks' \in 0..(TIME_SLICE - 1)
    BY <1>1, <1>6, <2>1, SMTT(60)
  <2> QED BY <1>1, <2>1, <2>2 DEF SchedInv, SchedTypeOK, RunQueueExact, Asleep
<1> QED BY <1>5, <1>6

(* The current thread runs, so that it sleeps on nothing.                  *)
LEMMA CurrentRuns == SchedInv => ~Asleep(current)
BY DEF SchedInv, RunQueueExact, Asleep

(* A step that moves no thread to or from a list.                          *)

-----------------------------------------------------------------------------
(* Synch.                                                                  *)

Places == {"run", "down", "holder", "release", "cond_down", "relock", "broadcast", "loop", "hlt"}

Last(q) == q[Len(q)]

(* Which semaphore a thread downs, and where it goes from there; only      *)
(* sema_down blocks.                                                       *)
Placed(t) ==
  /\ pc[t] \notin {"loop", "hlt"}
  /\ Asleep(t) => pc[t] = "down"
  /\ pc[t] = "down" => \/ sema[t] \in Counters /\ after[t] = "run"
                       \/ sema[t] = Lock /\ after[t] = "holder"
                       \/ sema[t] = t /\ after[t] = "relock"
  /\ pc[t] = "release" => after[t] \in {"run", "cond_down"}
  /\ pc[t] = "broadcast" => after[t] \in Conds

PlaceInv == pc[Idle] \in {"loop", "hlt"} /\ \A t \in Threads : Placed(t)

Sleepers(s) == {t \in Threads : Asleep(t) /\ sema[t] = s}

(* The list of a semaphore holds the threads that sleep on it, once each.  *)
QueueInv ==
  \A s \in Semas : Distinct(waiters[s]) /\ Range(waiters[s]) = Sleepers(s)

(* Where the holder of the lock may be.                                    *)
HolderAt(t) == pc[t] \in {"run", "broadcast"} \/ (pc[t] = "down" /\ sema[t] \in Counters)

(* The lock has at most one owner, and none while its semaphore is up.     *)
LockInv ==
  /\ value[Lock] \in {0, 1}
  /\ \A t \in Threads : Owns(t) => value[Lock] = 0
  /\ \A t, u \in Threads : Owns(t) /\ Owns(u) => t = u
  /\ \A t \in Threads : holder = t => HolderAt(t)

(* Inside cond_wait, not signalled yet.                                    *)
InCondWait(t) ==
  /\ value[t] = 0
  /\ \/ pc[t] = "release" /\ after[t] = "cond_down"
     \/ pc[t] = "cond_down"
     \/ pc[t] = "down" /\ sema[t] = t

(* Inside cond_wait, with the lock still to be released.                   *)
Releasing(t) == pc[t] = "release" /\ after[t] = "cond_down"

(* The lists of the conditions are disjoint, and a thread that has not yet *)
(* released the lock is the last on its list.                              *)
CondInv ==
  /\ \A t \in Threads : value[t] \in {0, 1}
  /\ \A c \in Conds : Distinct(cond_waiters[c])
  /\ \A c \in Conds : \A t \in Range(cond_waiters[c]) : InCondWait(t)
  /\ \A c, d \in Conds : c # d => Range(cond_waiters[c]) \cap Range(cond_waiters[d]) = {}
  /\ \A t \in Threads : Releasing(t) =>
       \E c \in Conds : cond_waiters[c] # <<>> /\ Last(cond_waiters[c]) = t

IInv ==
  /\ TypeOK /\ SchedInv /\ PlaceInv /\ QueueInv /\ NoLostWakeup /\ LockInv /\ CondInv

-----------------------------------------------------------------------------
(* Semaphores: the lists stay exact and no wakeup is lost.                 *)

LEMMA SemaNames ==
  /\ Counters \subseteq Semas /\ Lock \in Semas /\ Threads \subseteq Semas
  /\ Threads \cap Counters = {} /\ Lock \notin Threads /\ Lock \notin Counters
  /\ Idle \notin Threads /\ Threads \subseteq Pages /\ Pages = Threads \cup {Idle}
BY SynchAssumption, SchedulerAssumption DEF Semas, Threads

LEMMA OccursOnce ==
  ASSUME NEW q, Distinct(q), NEW t
  PROVE  Occurrences(t, q) = IF t \in Range(q) THEN 1 ELSE 0
<1>1. ASSUME NEW i \in DOMAIN q, q[i] = t PROVE {j \in DOMAIN q : q[j] = t} = {i}
  BY <1>1 DEF Distinct
<1>2. CASE t \in Range(q)
  <2>1. PICK i \in DOMAIN q : q[i] = t
    BY <1>2 DEF Range
  <2> QED BY <1>1, <1>2, <2>1, FS_Singleton DEF Occurrences
<1>3. CASE t \notin Range(q)
  <2>1. {j \in DOMAIN q : q[j] = t} = {}
    BY <1>3 DEF Range
  <2> QED BY <1>3, <2>1, FS_EmptySet DEF Occurrences
<1> QED BY <1>2, <1>3

LEMMA WokenFinite ==
  ASSUME NEW s
  PROVE  /\ IsFiniteSet(WokenOn(s)) /\ Cardinality(WokenOn(s)) \in Nat
         /\ IsFiniteSet(WokenOn(s)') /\ Cardinality(WokenOn(s)') \in Nat
<1>1. IsFiniteSet(Threads)
  BY SynchAssumption, FS_Difference DEF Threads
<1>2. WokenOn(s) \in SUBSET Threads /\ WokenOn(s)' \in SUBSET Threads
  BY DEF WokenOn
<1>3. IsFiniteSet(WokenOn(s)) /\ IsFiniteSet(WokenOn(s)')
  BY <1>1, <1>2, FS_Subset
<1> QED BY <1>3, FS_CardinalityType

LEMMA SameQueues ==
  ASSUME QueueInv, NoLostWakeup, waiters' = waiters, sema' = sema,
         \A s \in Semas : waiters[s] # <<>> => value'[s] = value[s],
         \A t \in Threads : Asleep(t)' <=> Asleep(t),
         \A t \in Threads : pc'[t] = "down" <=> pc[t] = "down"
  PROVE  QueueInv' /\ NoLostWakeup'
<1>1. \A s \in Semas : Sleepers(s)' = Sleepers(s)
  BY DEF Sleepers
<1>2. QueueInv'
  BY <1>1 DEF QueueInv
<1>3. \A s \in Semas : WokenOn(s)' = WokenOn(s)
  BY DEF WokenOn, Asleep
<1>4. NoLostWakeup'
  BY <1>3 DEF NoLostWakeup
<1> QED BY <1>2, <1>4

(* sema_down finds the value at zero.                                      *)
LEMMA SleepQueues ==
  ASSUME SchedInv, QueueInv, NoLostWakeup, NEW s \in Semas, current \in Threads,
         waiters \in [Semas -> Seq(Threads)], sema \in [Threads -> Semas], pc \in [Pages -> Places],
         pc[current] = "down" => sema[current] = s,
         value[s] = 0, value' = value, thread_block,
         waiters' = [waiters EXCEPT ![s] = Append(@, current)],
         pc' = [pc EXCEPT ![current] = "down"], sema' = [sema EXCEPT ![current] = s]
  PROVE  SchedInv' /\ QueueInv' /\ NoLostWakeup'
<1>1. SchedInv' /\ \A t \in Threads : Asleep(t)' <=> Asleep(t) \/ t = current
  BY BlockInv
<1>2. ~Asleep(current)
  BY CurrentRuns
<1>3. Sleepers(s)' = Sleepers(s) \cup {current}
  BY <1>1 DEF Sleepers
<1>4. \A r \in Semas \ {s} : Sleepers(r)' = Sleepers(r)
  BY <1>1, <1>2 DEF Sleepers
<1>5. QueueInv'
  <2> SUFFICES ASSUME NEW r \in Semas
               PROVE  Distinct(waiters'[r]) /\ Range(waiters'[r]) = Sleepers(r)'
    BY DEF QueueInv
  <2>1. Distinct(waiters[r]) /\ Range(waiters[r]) = Sleepers(r) /\ waiters[r] \in Seq(Threads)
    BY DEF QueueInv
  <2>2. CASE r # s
    BY <1>4, <2>1, <2>2
  <2>3. CASE r = s
    <3>1. waiters'[r] = Append(waiters[r], current)
      BY <2>3
    <3>2. current \notin Range(waiters[r])
      BY <1>2, <2>1 DEF Sleepers
    <3>3. /\ Distinct(Append(waiters[r], current))
          /\ Range(Append(waiters[r], current)) = Range(waiters[r]) \cup {current}
      BY <2>1, <3>2, AppendSet, SMTT(60)
    <3> QED BY <1>3, <2>1, <2>3, <3>1, <3>3
  <2> QED BY <2>2, <2>3
<1>6. NoLostWakeup'
  <2> SUFFICES ASSUME NEW r \in Semas, waiters'[r] # <<>>
               PROVE  value'[r] <= Cardinality(WokenOn(r)')
    BY DEF NoLostWakeup
  <2>1. CASE r = s
    BY <2>1, WokenFinite, SMTT(60)
  <2>2. CASE r # s
    <3>1. waiters'[r] = waiters[r]
      BY <2>2
    <3>2. WokenOn(r)' = WokenOn(r)
      BY <1>1, <2>2 DEF WokenOn, Asleep, Threads
    <3> QED BY <3>1, <3>2 DEF NoLostWakeup
  <2> QED BY <2>1, <2>2
<1> QED BY <1>1, <1>5, <1>6

(* sema_down finds a positive value.                                       *)
LEMMA TakeQueues ==
  ASSUME SchedInv, QueueInv, NoLostWakeup, NEW s \in Semas, current \in Threads, NEW l, l # "down",
         value \in [Semas -> Nat], sema \in [Threads -> Semas], pc \in [Pages -> Places],
         pc[current] = "down" => sema[current] = s,
         value[s] # 0, value' = [value EXCEPT ![s] = @ - 1],
         pc' = [pc EXCEPT ![current] = l], UNCHANGED <<schedVars, waiters, sema>>
  PROVE  SchedInv' /\ QueueInv' /\ NoLostWakeup'
<1>0. /\ status' = status /\ ready_list' = ready_list /\ current' = current
      /\ idle_thread' = idle_thread /\ thread_ticks' = thread_ticks
      /\ waiters' = waiters /\ sema' = sema
  BY DEF schedVars
<1>1. SchedInv'
  BY <1>0 DEF SchedInv, SchedTypeOK, RunQueueExact
<1>2. QueueInv'
  BY <1>0, SMTT(60) DEF QueueInv, Sleepers, Asleep
<1>3. ~Asleep(current) /\ current \in Pages
  BY CurrentRuns DEF Threads
<1>4. NoLostWakeup'
  <2> SUFFICES ASSUME NEW r \in Semas, waiters[r] # <<>>
               PROVE  value'[r] <= Cardinality(WokenOn(r)')
    BY <1>0 DEF NoLostWakeup
  <2>0. value[r] <= Cardinality(WokenOn(r)) /\ value[r] \in Nat
    BY DEF NoLostWakeup
  <2>1. CASE r = s /\ pc[current] = "down"
    <3>1. WokenOn(r)' = WokenOn(r) \ {current}
      BY <1>0, <1>3, <2>1 DEF WokenOn, Threads
    <3>2. current \in WokenOn(r)
      BY <1>3, <2>1 DEF WokenOn, Asleep
    <3>3. Cardinality(WokenOn(r)') = Cardinality(WokenOn(r)) - 1
      BY <3>1, <3>2, WokenFinite, FS_RemoveElement
    <3>4. value'[r] = value[r] - 1
      BY <2>1
    <3> QED BY <2>0, <3>3, <3>4, WokenFinite, SMTT(60)
  <2>2. CASE ~(r = s /\ pc[current] = "down")
    <3>1. WokenOn(r)' = WokenOn(r)
      BY <1>0, <1>3, <2>2 DEF WokenOn, Threads
    <3>2. value'[r] <= value[r] /\ value'[r] \in Int
      BY <2>0, SMTT(60)
    <3> QED BY <2>0, <3>1, <3>2, WokenFinite, SMTT(60)
  <2> QED BY <2>1, <2>2
<1> QED BY <1>1, <1>2, <1>4

LEMMA UpQueues ==
  ASSUME SchedInv, PlaceInv, QueueInv, NoLostWakeup, NEW s \in Semas,
         value \in [Semas -> Nat], waiters \in [Semas -> Seq(Threads)],
         sema_up(s), sema' = sema,
         \A t \in Threads : pc'[t] = "down" <=> pc[t] = "down"
  PROVE  /\ SchedInv' /\ QueueInv' /\ NoLostWakeup'
         /\ current' = current /\ \A t \in Threads : Asleep(t)' => Asleep(t)
         /\ waiters' \in [Semas -> Seq(Threads)]
<1>0. /\ value' = [value EXCEPT ![s] = @ + 1]
      /\ Distinct(waiters[s]) /\ Range(waiters[s]) = Sleepers(s) /\ waiters[s] \in Seq(Threads)
  BY DEF sema_up, QueueInv
<1>1. CASE waiters[s] = <<>>
  <2>1. /\ status' = status /\ ready_list' = ready_list /\ current' = current
        /\ idle_thread' = idle_thread /\ thread_ticks' = thread_ticks /\ waiters' = waiters
    BY <1>1 DEF sema_up, schedVars
  <2>2. SchedInv'
    BY <2>1 DEF SchedInv, SchedTypeOK, RunQueueExact
  <2>3. \A r \in Semas : waiters[r] # <<>> => value'[r] = value[r]
    BY <1>0, <1>1
  <2>4. \A t \in Threads : Asleep(t)' <=> Asleep(t)
    BY <2>1 DEF Asleep
  <2>5. QueueInv' /\ NoLostWakeup'
    BY <2>1, <2>3, <2>4, SameQueues
  <2> QED BY <2>1, <2>2, <2>4, <2>5
<1>2. CASE waiters[s] # <<>>
  <2> DEFINE h == Head(waiters[s])
  <2>1. thread_unblock(<<h>>) /\ waiters' = [waiters EXCEPT ![s] = Tail(@)]
    BY <1>2 DEF sema_up
  <2>2. /\ h \in Threads /\ Tail(waiters[s]) \in Seq(Threads)
        /\ Range(waiters[s]) = Range(Tail(waiters[s])) \cup {h}
        /\ Distinct(Tail(waiters[s])) /\ h \notin Range(Tail(waiters[s]))
    BY <1>0, <1>2, TailSet
  <2> HIDE DEF h
  <2>3. Asleep(h) /\ sema[h] = s
    BY <1>0, <2>2 DEF Sleepers
  <2>4. /\ SchedInv' /\ current' = current
        /\ \A t \in Threads : Asleep(t)' <=> Asleep(t) /\ t # h
    BY <2>1, <2>2, <2>3, UnblockInv
  <2>5. waiters' \in [Semas -> Seq(Threads)]
    BY <2>1, <2>2
  <2>6. QueueInv'
    <3> SUFFICES ASSUME NEW r \in Semas
                 PROVE  Distinct(waiters'[r]) /\ Range(waiters'[r]) = Sleepers(r)'
      BY DEF QueueInv
    <3>1. Sleepers(r)' = Sleepers(r) \ {h}
      BY <2>4 DEF Sleepers
    <3>2. CASE r = s
      <4>1. waiters'[r] = Tail(waiters[s])
        BY <2>1, <3>2
      <4>2. Sleepers(r) \ {h} = Range(Tail(waiters[s]))
        BY <1>0, <2>2, <3>2
      <4> QED BY <2>2, <3>1, <4>1, <4>2
    <3>3. CASE r # s
      <4>1. waiters'[r] = waiters[r] /\ h \notin Sleepers(r)
        BY <2>1, <2>3, <3>3 DEF Sleepers
      <4> QED BY <3>1, <4>1 DEF QueueInv
    <3> QED BY <3>2, <3>3
  <2>7. NoLostWakeup'
    <3> SUFFICES ASSUME NEW r \in Semas, waiters'[r] # <<>>
                 PROVE  value'[r] <= Cardinality(WokenOn(r)')
      BY DEF NoLostWakeup
    <3>1. CASE r = s
      <4>1. WokenOn(r)' = WokenOn(r) \cup {h}
        BY <2>2, <2>3, <2>4, <3>1, SMTT(60) DEF WokenOn, Asleep, PlaceInv, Placed
      <4>2. h \notin WokenOn(r)
        BY <2>3 DEF WokenOn, Asleep
      <4>3. Cardinality(WokenOn(r)') = Cardinality(WokenOn(r)) + 1
        BY <4>1, <4>2, WokenFinite, FS_AddElement
      <4>4. value[r] <= Cardinality(WokenOn(r)) /\ value[r] \in Nat /\ value'[r] = value[r] + 1
        BY <1>0, <1>2, <3>1 DEF NoLostWakeup
      <4> QED BY <4>3, <4>4, WokenFinite, SMTT(60)
    <3>2. CASE r # s
      <4>1. waiters'[r] = waiters[r] /\ value'[r] = value[r]
        BY <1>0, <2>1, <3>2
      <4>2. WokenOn(r)' = WokenOn(r)
        BY <2>3, <2>4, <3>2 DEF WokenOn, Asleep
      <4> QED BY <4>1, <4>2 DEF NoLostWakeup
    <3> QED BY <3>1, <3>2
  <2> QED BY <2>4, <2>5, <2>6, <2>7
<1> QED BY <1>1, <1>2

-----------------------------------------------------------------------------
(* Steps that leave a part of the invariant alone.                         *)

LEMMA SamePlace ==
  ASSUME NEW t \in Threads, Placed(t), Asleep(t)' => Asleep(t),
         pc'[t] = pc[t], sema'[t] = sema[t], after'[t] = after[t]
  PROVE  Placed(t)'
BY DEF Placed

LEMMA SameLock ==
  ASSUME LockInv, value'[Lock] = value[Lock], \A t \in Threads : Owns(t)' <=> Owns(t),
         \A t \in Threads : holder' = t => HolderAt(t)'
  PROVE  LockInv'
BY DEF LockInv

LEMMA SameCond ==
  ASSUME CondInv, cond_waiters \in [Conds -> Seq(Threads)], cond_waiters' = cond_waiters,
         \A t \in Threads : value'[t] \in {0, 1},
         \A t \in Threads : InCondWait(t) => InCondWait(t)',
         \A t \in Threads : Releasing(t)' => Releasing(t)
  PROVE  CondInv'
<1>1. \A c \in Conds : \A t \in Range(cond_waiters[c]) : t \in Threads
  <2>1. ASSUME NEW c \in Conds, NEW t \in Range(cond_waiters[c]) PROVE t \in Threads
    <3>1. PICK i \in DOMAIN cond_waiters[c] : t = cond_waiters[c][i]
      BY <2>1 DEF Range
    <3>2. cond_waiters[c] \in Seq(Threads)
      OBVIOUS
    <3> QED BY <3>1, <3>2, SMTT(60)
  <2> QED BY <2>1
<1> QED BY <1>1 DEF CondInv

LEMMA TypeFacts ==
  ASSUME IInv
  PROVE  /\ value \in [Semas -> 0..(MaxValue + 1)] /\ value \in [Semas -> Nat]
         /\ waiters \in [Semas -> Seq(Threads)]
         /\ sema \in [Threads -> Semas] /\ pc \in [Pages -> Places]
         /\ cond_waiters \in [Conds -> Seq(Threads)]
<1>1. TypeOK /\ MaxValue \in Nat
  BY SynchAssumption DEF IInv
<1>2. value \in [Semas -> 0..(MaxValue + 1)]
  BY <1>1 DEF TypeOK
<1>3. value \in [Semas -> Nat]
  BY <1>1, <1>2, SMTT(60)
<1>4. pc \in [Pages -> Places]
  BY <1>1 DEF TypeOK, Places
<1> QED BY <1>1, <1>2, <1>3, <1>4 DEF TypeOK

(* The semaphore of a sema_down, and where the thread goes from there.     *)
MayDown(s, l) ==
  /\ current \in Threads
  /\ \/ s \in Counters /\ l = "run"
     \/ s = Lock /\ l = "holder"
     \/ s = current /\ l = "relock"
  /\ \/ pc[current] = "run" /\ (s \in Counters \/ (s = Lock /\ holder # current))
     \/ pc[current] = "cond_down" /\ s = current
     \/ pc[current] = "relock" /\ s = Lock
     \/ pc[current] = "down" /\ s = sema[current]

LEMMA DownIInv ==
  ASSUME IInv, NEW s, NEW l, MayDown(s, l), sema_down(s, l),
         UNCHANGED <<holder, cond_waiters>>
  PROVE  IInv'
<1>0. /\ s \in Semas /\ current \in Threads /\ current \in Pages
      /\ l \in {"run", "holder", "relock"} /\ (pc[current] = "down" => sema[current] = s)
  BY SemaNames DEF MayDown
<1>1. /\ SchedInv /\ PlaceInv /\ QueueInv /\ NoLostWakeup /\ LockInv /\ CondInv
      /\ value \in [Semas -> Nat] /\ value \in [Semas -> 0..(MaxValue + 1)]
      /\ waiters \in [Semas -> Seq(Threads)]
      /\ sema \in [Threads -> Semas] /\ pc \in [Pages -> Places]
      /\ cond_waiters \in [Conds -> Seq(Threads)] /\ MaxValue \in Nat
  BY TypeFacts, SynchAssumption DEF IInv
<1>a. holder' = holder /\ cond_waiters' = cond_waiters
  OBVIOUS
<1>b. holder = current => s \in Counters
  BY <1>0, <1>1, SemaNames DEF MayDown, LockInv, HolderAt
<1>c. \A t \in Threads \ {current} : t \in Pages /\ t # s
  BY SemaNames DEF MayDown
<1>2. CASE value[s] = 0
  <2>1. /\ waiters' = [waiters EXCEPT ![s] = Append(@, current)] /\ thread_block
        /\ pc' = [pc EXCEPT ![current] = "down"] /\ sema' = [sema EXCEPT ![current] = s]
        /\ after' = [after EXCEPT ![current] = l] /\ value' = value
    BY <1>2 DEF sema_down, Goto
  <2>2. SchedInv' /\ QueueInv' /\ NoLostWakeup'
    BY <1>0, <1>1, <1>2, <2>1, SleepQueues
  <2>3. \A t \in Threads : Asleep(t)' <=> Asleep(t) \/ t = current
    BY <1>1, <2>1, BlockInv
  <2>4. TypeOK'
    <3>1. waiters' \in [Semas -> Seq(Threads)]
      BY <1>0, <1>1, <2>1, SMTT(60)
    <3> QED BY <1>0, <1>a, <2>1, <2>2, <3>1 DEF IInv, TypeOK, SchedInv
  <2>5. /\ pc'[current] = "down" /\ sema'[current] = s /\ after'[current] = l
        /\ \A t \in Threads \ {current} :
             pc'[t] = pc[t] /\ sema'[t] = sema[t] /\ after'[t] = after[t]
        /\ pc'[Idle] = pc[Idle]
    BY <1>0, <1>1, <1>c, <2>1, SemaNames DEF IInv, TypeOK
  <2>6. PlaceInv'
    <3>1. ASSUME NEW t \in Threads, t = current PROVE Placed(t)'
      BY <1>0, <2>5, <3>1 DEF MayDown, Placed
    <3>2. \A t \in Threads \ {current} : Placed(t)'
      BY <1>1, <2>3, <2>5, SamePlace DEF PlaceInv
    <3> QED BY <1>1, <2>5, <3>1, <3>2 DEF PlaceInv
  <2>7. LockInv'
    <3>1. pc[current] \notin {"holder", "release"}
      BY DEF MayDown
    <3>2. \A t \in Threads : Owns(t)' <=> Owns(t)
      BY <1>a, <2>5, <3>1 DEF Owns
    <3>3. \A t \in Threads : holder' = t => HolderAt(t)'
      BY <1>1, <1>a, <1>b, <2>5 DEF LockInv, HolderAt
    <3> QED BY <1>1, <2>1, <3>2, <3>3, SameLock
  <2>8. CondInv'
    <3>1. \A t \in Threads : InCondWait(t) => InCondWait(t)'
      BY <1>0, <2>1, <2>5, SemaNames, SMTT(60) DEF InCondWait, MayDown
    <3>2. \A t \in Threads : Releasing(t)' => Releasing(t)
      BY <2>5 DEF Releasing
    <3>3. \A t \in Threads : value'[t] \in {0, 1}
      BY <1>1, <2>1 DEF CondInv
    <3> QED BY <1>1, <1>a, <3>1, <3>2, <3>3, SameCond
  <2> QED BY <2>2, <2>4, <2>6, <2>7, <2>8 DEF IInv
<1>3. CASE value[s] # 0
  <2>1. /\ value' = [value EXCEPT ![s] = @ - 1] /\ pc' = [pc EXCEPT ![current] = l]
        /\ UNCHANGED <<schedVars, waiters, sema>> /\ UNCHANGED <<schedVars, waiters, sema, after>>
    BY <1>3 DEF sema_down, Goto
  <2>2. SchedInv' /\ QueueInv' /\ NoLostWakeup'
    BY <1>0, <1>1, <1>3, <2>1, TakeQueues
  <2>3. sema' = sema /\ after' = after /\ waiters' = waiters /\ status' = status
    BY <2>1 DEF schedVars
  <2>4. TypeOK'
    <3>1. value' \in [Semas -> 0..(MaxValue + 1)]
      BY <1>0, <1>1, <1>3, <2>1, SMTT(60)
    <3> QED BY <1>0, <1>a, <2>1, <2>2, <2>3, <3>1 DEF IInv, TypeOK, SchedInv
  <2>5. /\ pc'[current] = l /\ \A t \in Threads \ {current} : pc'[t] = pc[t]
        /\ pc'[Idle] = pc[Idle]
    BY <1>0, <1>1, <1>c, <2>1, SemaNames
  <2>6. PlaceInv'
    <3>1. ASSUME NEW t \in Threads, t = current PROVE Placed(t)'
      <4>1. ~Asleep(t)'
        BY <1>1, <2>3, <3>1, CurrentRuns DEF Asleep
      <4> QED BY <1>0, <2>5, <3>1, <4>1 DEF Placed
    <3>2. \A t \in Threads \ {current} : Placed(t)'
      BY <1>1, <2>3, <2>5, SamePlace DEF PlaceInv, Asleep
    <3> QED BY <1>1, <2>5, <3>1, <3>2 DEF PlaceInv
  <2>7. LockInv'
    <3>1. CASE s # Lock
      <4>1. pc[current] \notin {"holder", "release"} /\ l \in {"run", "relock"}
        BY <3>1, SemaNames DEF MayDown
      <4>2. \A t \in Threads : Owns(t)' <=> Owns(t)
        BY <1>a, <2>5, <4>1 DEF Owns
      <4>3. \A t \in Threads : holder' = t => HolderAt(t)'
        <5>1. holder = current => l = "run"
          BY <1>b, SemaNames DEF MayDown
        <5> QED BY <1>1, <1>a, <2>3, <2>5, <5>1 DEF LockInv, HolderAt
      <4>4. value'[Lock] = value[Lock]
        BY <1>1, <2>1, <3>1, SemaNames
      <4> QED BY <1>1, <4>2, <4>3, <4>4, SameLock
    <3>2. CASE s = Lock
      <4>1. /\ value[Lock] = 1 /\ value'[Lock] = 0
        BY <1>1, <1>3, <2>1, <3>2, SemaNames, SMTT(60) DEF LockInv
      <4>2. \A t \in Threads : ~Owns(t)
        BY <1>1, <4>1, SMTT(60) DEF LockInv
      <4>3. \A t \in Threads : Owns(t)' => t = current
        BY <1>a, <2>5, <4>2 DEF Owns
      <4>4. \A t \in Threads : holder' # t
        BY <1>a, <4>2, SMTT(60) DEF Owns
      <4> QED BY <4>1, <4>3, <4>4 DEF LockInv
    <3> QED BY <3>1, <3>2
  <2>8. CondInv'
    <3>1. \A t \in Threads : InCondWait(t) => InCondWait(t)'
      <4>1. ~InCondWait(current)
        BY <1>0, <1>3, SemaNames DEF InCondWait, MayDown
      <4>2. \A t \in Threads \ {current} : value'[t] = value[t]
        BY <1>1, <1>c, <2>1, SemaNames
      <4> QED BY <2>3, <2>5, <4>1, <4>2 DEF InCondWait
    <3>2. \A t \in Threads : Releasing(t)' => Releasing(t)
      BY <1>0, <2>3, <2>5 DEF Releasing
    <3>3. \A t \in Threads : value'[t] \in {0, 1}
      BY <1>1, <1>3, <2>1, SemaNames, SMTT(60) DEF CondInv
    <3> QED BY <1>1, <1>a, <3>1, <3>2, <3>3, SameCond
  <2> QED BY <2>2, <2>4, <2>6, <2>7, <2>8 DEF IInv
<1> QED BY <1>2, <1>3

(* The interrupts: nothing happens to a thread but that it loses the       *)
(* processor, and the idle thread may leave its hlt.                       *)
IdleOnly ==
  /\ pc' \in [Pages -> Places] /\ pc'[Idle] \in {"loop", "hlt"}
  /\ \A t \in Threads : pc'[t] = pc[t]

LEMMA EndHltIdle == ASSUME IInv, EndHlt PROVE IdleOnly
<1>1. pc \in [Pages -> Places] /\ current \in Pages
  BY TypeFacts DEF IInv, SchedInv
<1>2. pc[Idle] \in {"loop", "hlt"} /\ \A t \in Threads : pc[t] # "hlt"
  BY DEF IInv, PlaceInv, Placed
<1>3. pc' = [pc EXCEPT ![current] = IF pc[current] = "hlt" THEN "loop" ELSE pc[current]]
  BY DEF EndHlt
<1>4. \A t \in Threads : pc'[t] = pc[t]
  BY <1>1, <1>2, <1>3, SemaNames
<1>5. pc' \in [Pages -> Places]
  BY <1>1, <1>3 DEF Places
<1>6. pc'[Idle] \in {"loop", "hlt"}
  BY <1>1, <1>2, <1>3, SemaNames
<1> QED BY <1>4, <1>5, <1>6 DEF IdleOnly

LEMMA SwitchIInv ==
  ASSUME IInv, SchedInv', \A t \in Threads : Asleep(t)' <=> Asleep(t), IdleOnly,
         UNCHANGED <<semaVars, holder, cond_waiters, sema, after>>
  PROVE  IInv'
<1>1. /\ value' = value /\ waiters' = waiters /\ holder' = holder
      /\ cond_waiters' = cond_waiters /\ sema' = sema /\ after' = after
  BY DEF semaVars
<1>2. TypeOK'
  BY <1>1 DEF IInv, TypeOK, SchedInv, IdleOnly, Places
<1>3. PlaceInv'
  BY <1>1, SamePlace DEF IInv, PlaceInv, IdleOnly
<1>4. QueueInv' /\ NoLostWakeup'
  <2>1. \A t \in Threads : pc'[t] = "down" <=> pc[t] = "down"
    BY DEF IdleOnly
  <2> QED BY <1>1, <2>1, SameQueues DEF IInv
<1>5. LockInv'
  <2>1. \A t \in Threads : Owns(t)' <=> Owns(t)
    BY <1>1 DEF Owns, IdleOnly
  <2>2. \A t \in Threads : holder' = t => HolderAt(t)'
    BY <1>1 DEF IInv, LockInv, HolderAt, IdleOnly
  <2> QED BY <1>1, <2>1, <2>2, SameLock DEF IInv
<1>6. CondInv'
  <2>1. \A t \in Threads : InCondWait(t) => InCondWait(t)'
    BY <1>1 DEF InCondWait, IdleOnly
  <2>2. \A t \in Threads : Releasing(t)' => Releasing(t)
    BY <1>1 DEF Releasing, IdleOnly
  <2>3. \A t \in Threads : value'[t] \in {0, 1}
    BY <1>1 DEF IInv, CondInv
  <2> QED BY <1>1, <2>1, <2>2, <2>3, SameCond, TypeFacts DEF IInv
<1> QED BY <1>2, <1>3, <1>4, <1>5, <1>6 DEF IInv

(* sema_up of a plain semaphore, by a thread or by an interrupt handler.   *)
LEMMA CounterUpIInv ==
  ASSUME IInv, NEW s \in Counters, value[s] < MaxValue, sema_up(s), IdleOnly,
         UNCHANGED <<holder, cond_waiters, sema, after>>
  PROVE  IInv'
<1>0. /\ s \in Semas /\ s # Lock /\ s \notin Threads /\ Threads \subseteq Semas /\ Lock \in Semas
  BY SemaNames
<1>1. /\ holder' = holder /\ cond_waiters' = cond_waiters /\ sema' = sema /\ after' = after
      /\ value' = [value EXCEPT ![s] = @ + 1]
  BY DEF sema_up
<1>2. \A r \in Threads \cup {Lock} : value'[r] = value[r]
  BY <1>0, <1>1, TypeFacts
<1>3. \A t \in Threads : pc'[t] = "down" <=> pc[t] = "down"
  BY DEF IdleOnly
<1>4. /\ SchedInv' /\ QueueInv' /\ NoLostWakeup' /\ waiters' \in [Semas -> Seq(Threads)]
      /\ \A t \in Threads : Asleep(t)' => Asleep(t)
  BY <1>0, <1>1, <1>3, UpQueues, TypeFacts DEF IInv
<1>5. TypeOK'
  <2>1. value' \in [Semas -> 0..(MaxValue + 1)]
    BY <1>0, <1>1, TypeFacts, SynchAssumption, SMTT(60)
  <2> QED BY <1>1, <1>4, <2>1 DEF IInv, TypeOK, SchedInv, IdleOnly, Places
<1>6. PlaceInv'
  BY <1>1, <1>4, SamePlace DEF IInv, PlaceInv, IdleOnly
<1>7. LockInv'
  <2>1. \A t \in Threads : Owns(t)' <=> Owns(t)
    BY <1>1 DEF Owns, IdleOnly
  <2>2. \A t \in Threads : holder' = t => HolderAt(t)'
    BY <1>1 DEF IInv, LockInv, HolderAt, IdleOnly
  <2>3. value'[Lock] = value[Lock]
    BY <1>2
  <2> QED BY <2>1, <2>2, <2>3, SameLock DEF IInv
<1>8. CondInv'
  <2>1. \A t \in Threads : InCondWait(t) => InCondWait(t)'
    BY <1>1, <1>2 DEF InCondWait, IdleOnly
  <2>2. \A t \in Threads : Releasing(t)' => Releasing(t)
    BY <1>1 DEF Releasing, IdleOnly
  <2>3. \A t \in Threads : value'[t] \in {0, 1}
    BY <1>2 DEF IInv, CondInv
  <2> QED BY <1>1, <2>1, <2>2, <2>3, SameCond, TypeFacts DEF IInv
<1> QED BY <1>4, <1>5, <1>6, <1>7, <1>8 DEF IInv

(* The end of lock_release.                                                *)
LEMMA ReleaseUpIInv == ASSUME IInv, ReleaseUp PROVE IInv'
<1> DEFINE l == after[current]
<1>0. /\ current \in Threads /\ pc[current] = "release" /\ l \in {"run", "cond_down"}
      /\ pc' = [pc EXCEPT ![current] = l]
      /\ holder' = holder /\ cond_waiters' = cond_waiters /\ sema' = sema /\ after' = after
      /\ sema_up(Lock) /\ value' = [value EXCEPT ![Lock] = @ + 1]
  <2>1. current \in Threads /\ pc[current] = "release"
    BY DEF ReleaseUp, At, IInv, SchedInv, Threads
  <2> QED BY <2>1 DEF ReleaseUp, Goto, sema_up, IInv, PlaceInv, Placed
<1> HIDE DEF l
<1>1. /\ pc'[current] = l /\ pc'[Idle] = pc[Idle]
      /\ \A t \in Threads \ {current} : pc'[t] = pc[t]
      /\ pc' \in [Pages -> Places]
  BY <1>0, TypeFacts, SemaNames DEF Places
<1>2. \A t \in Threads : value'[t] = value[t]
  BY <1>0, TypeFacts, SemaNames
<1>3. \A t \in Threads : pc'[t] = "down" <=> pc[t] = "down"
  BY <1>0, <1>1
<1>4. /\ SchedInv' /\ QueueInv' /\ NoLostWakeup' /\ waiters' \in [Semas -> Seq(Threads)]
      /\ \A t \in Threads : Asleep(t)' => Asleep(t)
  BY <1>0, <1>3, UpQueues, TypeFacts, SemaNames DEF IInv
<1>5. Owns(current) /\ value[Lock] = 0 /\ holder # current
  BY <1>0 DEF Owns, IInv, LockInv, HolderAt
<1>6. TypeOK'
  <2>1. value' \in [Semas -> 0..(MaxValue + 1)]
    BY <1>0, <1>5, TypeFacts, SynchAssumption, SemaNames, SMTT(60)
  <2> QED BY <1>0, <1>1, <1>4, <2>1 DEF IInv, TypeOK, SchedInv, Places
<1>7. PlaceInv'
  <2>1. ASSUME NEW t \in Threads, t = current PROVE Placed(t)'
    <3>1. ~Asleep(t)'
      BY <1>4, <2>1, CurrentRuns DEF IInv
    <3> QED BY <1>0, <1>1, <2>1, <3>1 DEF Placed
  <2>2. \A t \in Threads \ {current} : Placed(t)'
    BY <1>0, <1>1, <1>4, SamePlace DEF IInv, PlaceInv
  <2>3. pc'[Idle] \in {"loop", "hlt"}
    BY <1>1 DEF IInv, PlaceInv
  <2> QED BY <2>1, <2>2, <2>3 DEF PlaceInv
<1>8. LockInv'
  <2>1. \A t \in Threads : ~Owns(t)'
    <3>1. \A t \in Threads \ {current} : ~Owns(t)
      BY <1>0, <1>5 DEF IInv, LockInv
    <3> QED BY <1>0, <1>1, <1>5, <3>1 DEF Owns
  <2>2. value'[Lock] = 1
    BY <1>0, <1>5, TypeFacts, SemaNames, SMTT(60)
  <2>3. \A t \in Threads : holder' # t
    BY <2>1 DEF Owns
  <2> QED BY <2>1, <2>2, <2>3 DEF LockInv
<1>9. CondInv'
  <2>1. \A t \in Threads : InCondWait(t) => InCondWait(t)'
    BY <1>0, <1>1, <1>2 DEF InCondWait, l
  <2>2. \A t \in Threads : Releasing(t)' => Releasing(t)
    BY <1>0, <1>1 DEF Releasing
  <2>3. \A t \in Threads : value'[t] \in {0, 1}
    BY <1>2 DEF IInv, CondInv
  <2> QED BY <1>0, <2>1, <2>2, <2>3, SameCond, TypeFacts DEF IInv
<1> QED BY <1>4, <1>6, <1>7, <1>8, <1>9 DEF IInv

(* The current thread goes from one place to another, with interrupts on.  *)
Moves(l) ==
  /\ current \in Threads /\ pc[current] # "down" /\ l \in {"run", "release", "broadcast"}
  /\ pc' = [pc EXCEPT ![current] = l]

LEMMA MovesFacts ==
  ASSUME IInv, NEW l, Moves(l)
  PROVE  /\ pc'[current] = l /\ pc'[Idle] \in {"loop", "hlt"}
         /\ \A t \in Threads \ {current} : pc'[t] = pc[t]
         /\ pc' \in [Pages -> Places]
         /\ \A t \in Threads : pc'[t] = "down" <=> pc[t] = "down"
<1>1. pc[Idle] \in {"loop", "hlt"} /\ pc \in [Pages -> Places]
  BY TypeFacts DEF IInv, PlaceInv
<1>2. /\ pc'[current] = l /\ pc'[Idle] \in {"loop", "hlt"}
      /\ \A t \in Threads \ {current} : pc'[t] = pc[t]
  BY <1>1, SemaNames DEF Moves
<1>3. pc' \in [Pages -> Places]
  BY <1>1 DEF Moves, Places
<1>4. \A t \in Threads : pc'[t] = "down" <=> pc[t] = "down"
  BY <1>2 DEF Moves
<1> QED BY <1>2, <1>3, <1>4

LEMMA MovesPlaces ==
  ASSUME IInv, NEW l, Moves(l), sema' = sema,
         \A t \in Threads : Asleep(t)' => Asleep(t),
         \A t \in Threads \ {current} : after'[t] = after[t],
         l = "release" => after'[current] \in {"run", "cond_down"},
         l = "broadcast" => after'[current] \in Conds
  PROVE  PlaceInv'
<1>1. ASSUME NEW t \in Threads, t = current PROVE Placed(t)'
  <2>1. ~Asleep(t)'
    BY <1>1, CurrentRuns DEF IInv
  <2>2. pc'[t] = l /\ l \in {"run", "release", "broadcast"}
    BY <1>1, MovesFacts DEF Moves
  <2> QED BY <1>1, <2>1, <2>2 DEF Placed
<1>2. \A t \in Threads \ {current} : Placed(t)'
  BY MovesFacts, SamePlace DEF IInv, PlaceInv
<1> QED BY <1>1, <1>2, MovesFacts DEF PlaceInv

LEMMA SetHolderIInv == ASSUME IInv, SetHolder PROVE IInv'
<1>0. /\ current \in Threads /\ pc[current] = "holder" /\ Moves("run")
      /\ holder' = current /\ cond_waiters' = cond_waiters /\ sema' = sema /\ after' = after
      /\ value' = value /\ waiters' = waiters /\ status' = status /\ ready_list' = ready_list
      /\ current' = current /\ idle_thread' = idle_thread /\ thread_ticks' = thread_ticks
  BY DEF SetHolder, At, Goto, Moves, IInv, SchedInv, Threads, schedVars, semaVars
<1>1. SchedInv' /\ \A t \in Threads : Asleep(t)' <=> Asleep(t)
  BY <1>0 DEF IInv, SchedInv, SchedTypeOK, RunQueueExact, Asleep
<1>2. TypeOK'
  BY <1>0, <1>1, MovesFacts DEF IInv, TypeOK, SchedInv, Places
<1>3. PlaceInv'
  BY <1>0, <1>1, MovesPlaces
<1>4. QueueInv' /\ NoLostWakeup'
  BY <1>0, <1>1, MovesFacts, SameQueues DEF IInv
<1>5. LockInv'
  <2>1. Owns(current) /\ \A t \in Threads : Owns(t) => t = current
    BY <1>0 DEF Owns, IInv, LockInv
  <2>2. \A t \in Threads : Owns(t)' <=> Owns(t)
    BY <1>0, <2>1, MovesFacts DEF Owns
  <2>3. \A t \in Threads : holder' = t => HolderAt(t)'
    BY <1>0, MovesFacts DEF HolderAt
  <2> QED BY <1>0, <2>2, <2>3, SameLock DEF IInv
<1>6. CondInv'
  <2>1. \A t \in Threads : InCondWait(t) => InCondWait(t)'
    BY <1>0, MovesFacts DEF InCondWait
  <2>2. \A t \in Threads : Releasing(t)' => Releasing(t)
    BY <1>0, MovesFacts, SMTT(60) DEF Releasing
  <2>3. \A t \in Threads : value'[t] \in {0, 1}
    BY <1>0 DEF IInv, CondInv
  <2> QED BY <1>0, <2>1, <2>2, <2>3, SameCond, TypeFacts, SMTT(60) DEF IInv
<1> QED BY <1>1, <1>2, <1>3, <1>4, <1>5, <1>6 DEF IInv

LEMMA LockReleaseIInv == ASSUME IInv, LockRelease PROVE IInv'
<1>0. /\ current \in Threads /\ pc[current] = "run" /\ Moves("release") /\ holder = current
      /\ holder' = NULL /\ cond_waiters' = cond_waiters /\ sema' = sema
      /\ after' = [after EXCEPT ![current] = "run"]
      /\ value' = value /\ waiters' = waiters /\ status' = status /\ ready_list' = ready_list
      /\ current' = current /\ idle_thread' = idle_thread /\ thread_ticks' = thread_ticks
  BY DEF LockRelease, ClearHolder, lock_held_by_current_thread, At, Goto, Moves, IInv,
       SchedInv, Threads, schedVars, semaVars
<1>1. SchedInv' /\ \A t \in Threads : Asleep(t)' <=> Asleep(t)
  BY <1>0 DEF IInv, SchedInv, SchedTypeOK, RunQueueExact, Asleep
<1>2. /\ after'[current] = "run" /\ \A t \in Threads \ {current} : after'[t] = after[t]
      /\ after' \in [Threads -> {"run", "holder", "cond_down", "relock"} \cup Conds]
      /\ NULL \notin Threads
  BY <1>0, SchedulerAssumption DEF IInv, TypeOK, Threads
<1>3. TypeOK'
  BY <1>0, <1>1, <1>2, MovesFacts DEF IInv, TypeOK, SchedInv, Places
<1>4. PlaceInv'
  BY <1>0, <1>1, <1>2, MovesPlaces
<1>5. QueueInv' /\ NoLostWakeup'
  BY <1>0, <1>1, MovesFacts, SameQueues DEF IInv
<1>6. LockInv'
  <2>1. \A t \in Threads : Owns(t) => t = current
    BY <1>0 DEF Owns, IInv, LockInv
  <2>2. \A t \in Threads : Owns(t)' <=> Owns(t)
    BY <1>0, <1>2, <2>1, MovesFacts DEF Owns
  <2> QED BY <1>0, <1>2, <2>2, SameLock DEF IInv
<1>7. CondInv'
  <2>1. \A t \in Threads : InCondWait(t) => InCondWait(t)'
    BY <1>0, <1>2, MovesFacts DEF InCondWait
  <2>2. \A t \in Threads : Releasing(t)' => Releasing(t)
    BY <1>0, <1>2, MovesFacts DEF Releasing
  <2>3. \A t \in Threads : value'[t] \in {0, 1}
    BY <1>0 DEF IInv, CondInv
  <2> QED BY <1>0, <2>1, <2>2, <2>3, SameCond, TypeFacts, SMTT(60) DEF IInv
<1> QED BY <1>1, <1>3, <1>4, <1>5, <1>6, <1>7 DEF IInv

(* A sequence that grows or shrinks at its ends.                           *)
LEMMA LastAppend ==
  ASSUME NEW S, NEW q \in Seq(S), NEW e \in S
  PROVE  Append(q, e) # <<>> /\ Last(Append(q, e)) = e
BY AppendProperties, SMTT(60) DEF Last

LEMMA OnCondList ==
  ASSUME IInv, NEW c \in Conds, NEW t \in Range(cond_waiters[c])
  PROVE  t \in Threads /\ InCondWait(t)
<1>1. cond_waiters[c] \in Seq(Threads)
  BY TypeFacts
<1>2. PICK i \in DOMAIN cond_waiters[c] : t = cond_waiters[c][i]
  BY DEF Range
<1>3. t \in Threads
  BY <1>1, <1>2, SMTT(60)
<1> QED BY <1>3 DEF IInv, CondInv

(* Nobody waits on the semaphore of a thread that is not in cond_wait.     *)
LEMMA OwnSemaphore ==
  ASSUME IInv, NEW t \in Threads, ~Asleep(t)
  PROVE  waiters[t] = <<>>
<1>1. Sleepers(t) = {}
  BY SemaNames, SMTT(60) DEF Sleepers, IInv, PlaceInv, Placed
<1>2. Range(waiters[t]) = Sleepers(t) /\ waiters[t] \in Seq(Threads)
  BY TypeFacts, SemaNames DEF IInv, QueueInv
<1> QED BY <1>1, <1>2, EmptySet

LEMMA CondWaitIInv == ASSUME IInv, NEW c \in Conds, CondWait(c) PROVE IInv'
<1>0. /\ current \in Threads /\ pc[current] = "run" /\ Moves("release") /\ holder = current
      /\ holder' = NULL /\ sema' = sema /\ after' = [after EXCEPT ![current] = "cond_down"]
      /\ cond_waiters' = [cond_waiters EXCEPT ![c] = Append(@, current)]
      /\ value' = [value EXCEPT ![current] = 0] /\ waiters' = [waiters EXCEPT ![current] = <<>>]
      /\ status' = status /\ ready_list' = ready_list
      /\ current' = current /\ idle_thread' = idle_thread /\ thread_ticks' = thread_ticks
  BY DEF CondWait, ClearHolder, lock_held_by_current_thread, At, Goto, Moves, IInv,
       SchedInv, Threads, schedVars
<1>1. SchedInv' /\ \A t \in Threads : Asleep(t)' <=> Asleep(t)
  BY <1>0 DEF IInv, SchedInv, SchedTypeOK, RunQueueExact, Asleep
<1>2. /\ after'[current] = "cond_down" /\ \A t \in Threads \ {current} : after'[t] = after[t]
      /\ after' \in [Threads -> {"run", "holder", "cond_down", "relock"} \cup Conds]
      /\ NULL \notin Threads
  BY <1>0, SchedulerAssumption DEF IInv, TypeOK, Threads
<1>3. waiters' = waiters
  <2>1. waiters[current] = <<>>
    BY <1>0, OwnSemaphore, CurrentRuns DEF IInv
  <2>2. waiters = [s \in Semas |-> waiters[s]]
    BY TypeFacts
  <2> QED BY <1>0, <2>1, <2>2
<1>4. /\ value' \in [Semas -> 0..(MaxValue + 1)] /\ value'[current] = 0
      /\ \A s \in Semas \ {current} : value'[s] = value[s]
  BY <1>0, TypeFacts, SemaNames, SynchAssumption, SMTT(60)
<1>5. /\ cond_waiters' \in [Conds -> Seq(Threads)]
      /\ cond_waiters'[c] = Append(cond_waiters[c], current)
      /\ \A d \in Conds \ {c} : cond_waiters'[d] = cond_waiters[d]
  BY <1>0, TypeFacts, SMTT(60)
<1>6. TypeOK'
  <2>1. waiters' \in [Semas -> Seq(Threads)] /\ sema' \in [Threads -> Semas]
    BY <1>0, <1>3, TypeFacts
  <2>2. SchedTypeOK' /\ pc' \in [Pages -> Places] /\ holder' \in Threads \cup {NULL}
    BY <1>0, <1>1, MovesFacts DEF SchedInv
  <2> QED BY <1>2, <1>4, <1>5, <2>1, <2>2 DEF TypeOK, Places
<1>7. PlaceInv'
  BY <1>0, <1>1, <1>2, MovesPlaces
<1>8. QueueInv' /\ NoLostWakeup'
  <2>1. \A s \in Semas : waiters[s] # <<>> => value'[s] = value[s]
    BY <1>0, <1>4, OwnSemaphore, CurrentRuns DEF IInv
  <2> QED BY <1>0, <1>1, <1>3, <2>1, MovesFacts, SameQueues DEF IInv
<1>9. LockInv'
  <2>1. \A t \in Threads : Owns(t) => t = current
    BY <1>0 DEF Owns, IInv, LockInv
  <2>2. \A t \in Threads : Owns(t)' <=> Owns(t)
    BY <1>0, <1>2, <2>1, MovesFacts DEF Owns
  <2>3. value'[Lock] = value[Lock]
    BY <1>0, <1>4, SemaNames
  <2> QED BY <1>0, <1>2, <2>2, <2>3, SameLock DEF IInv
<1>10. CondInv'
  <2>1. \A t \in Threads : value'[t] \in {0, 1}
    BY <1>4, SemaNames DEF IInv, CondInv
  <2>2. \A d \in Conds : current \notin Range(cond_waiters[d])
    BY <1>0, OnCondList DEF InCondWait
  <2>3. cond_waiters[c] \in Seq(Threads) /\ Distinct(cond_waiters[c])
    BY TypeFacts DEF IInv, CondInv
  <2>4. /\ Range(cond_waiters'[c]) = Range(cond_waiters[c]) \cup {current}
        /\ Distinct(cond_waiters'[c])
        /\ cond_waiters'[c] # <<>> /\ Last(cond_waiters'[c]) = current
    BY <1>0, <1>5, <2>2, <2>3, AppendSet, LastAppend, SMTT(60)
  <2>5. \A d \in Conds : Distinct(cond_waiters'[d])
    BY <1>5, <2>4 DEF IInv, CondInv
  <2>6. ASSUME NEW d \in Conds, NEW t \in Range(cond_waiters'[d]) PROVE InCondWait(t)'
    <3>1. CASE t = current
      BY <1>0, <1>2, <1>4, <3>1, MovesFacts DEF InCondWait
    <3>2. CASE t # current
      <4>1. t \in Range(cond_waiters[d])
        BY <1>5, <2>4, <2>6, <3>2
      <4>2. t \in Threads /\ InCondWait(t)
        BY <4>1, OnCondList
      <4>3. /\ value'[t] = value[t] /\ pc'[t] = pc[t] /\ after'[t] = after[t]
        BY <1>2, <1>4, <3>2, <4>2, MovesFacts, <1>0, SemaNames
      <4> QED BY <1>0, <4>2, <4>3 DEF InCondWait
    <3> QED BY <3>1, <3>2
  <2>7. \A d, e \in Conds : d # e => Range(cond_waiters'[d]) \cap Range(cond_waiters'[e]) = {}
    <3>1. \A d, e \in Conds : d # e => Range(cond_waiters[d]) \cap Range(cond_waiters[e]) = {}
      BY DEF IInv, CondInv
    <3>2. \A d \in Conds : \A t \in Range(cond_waiters'[d]) :
            t \in Range(cond_waiters[d]) \/ (t = current /\ d = c)
      BY <1>5, <2>4
    <3>3. ASSUME NEW d \in Conds, NEW e \in Conds, d # e,
                 NEW t \in Range(cond_waiters'[d]), t \in Range(cond_waiters'[e])
          PROVE  FALSE
      <4>1. /\ t \in Range(cond_waiters[d]) \/ (t = current /\ d = c)
            /\ t \in Range(cond_waiters[e]) \/ (t = current /\ e = c)
        BY <3>2, <3>3
      <4>2. ~(t \in Range(cond_waiters[d]) /\ t \in Range(cond_waiters[e]))
        BY <3>1, <3>3
      <4> QED BY <2>2, <3>3, <4>1, <4>2
    <3> QED BY <3>3
  <2>8. ASSUME NEW t \in Threads, Releasing(t)' PROVE t = current
    <3>1. t # current => Owns(t)
      BY <1>0, <2>8, MovesFacts DEF Releasing, Owns
    <3> QED BY <1>0, <3>1 DEF Owns, IInv, LockInv
  <2>9. \A t \in Threads : Releasing(t)' =>
          \E d \in Conds : cond_waiters'[d] # <<>> /\ Last(cond_waiters'[d]) = t
    BY <2>4, <2>8
  <2> QED BY <2>1, <2>5, <2>6, <2>7, <2>9 DEF CondInv
<1> QED BY <1>1, <1>6, <1>7, <1>8, <1>9, <1>10 DEF IInv

(* cond_signal, alone or inside cond_broadcast.                            *)
LEMMA SignalIInv ==
  ASSUME IInv, NEW c \in Conds, cond_signal(c), NEW l, Moves(l),
         pc[current] \in {"run", "broadcast"}, l \in {"run", "broadcast"},
         after' \in [Threads -> {"run", "holder", "cond_down", "relock"} \cup Conds],
         \A t \in Threads \ {current} : after'[t] = after[t],
         l = "broadcast" => after'[current] \in Conds
  PROVE  IInv'
<1>0. current \in Threads /\ holder = current /\ holder' = holder /\ sema' = sema
  BY DEF cond_signal, lock_held_by_current_thread, Moves
<1>1. \A t \in Threads : Owns(t) => t = current
  BY <1>0 DEF Owns, IInv, LockInv
<1>2. \A t \in Threads : ~Releasing(t) /\ ~Releasing(t)'
  <2>1. \A t \in Threads : ~Releasing(t)
    BY <1>1 DEF Releasing, Owns
  <2> QED BY <2>1, MovesFacts, SMTT(60) DEF Releasing
<1>3. ~InCondWait(current)
  BY DEF InCondWait
<1>4. /\ \A t \in Threads : Owns(t)' <=> Owns(t)
      /\ \A t \in Threads : holder' = t => HolderAt(t)'
  BY <1>0, <1>1, MovesFacts DEF Owns, HolderAt
<1>5. SchedTypeOK' /\ waiters' \in [Semas -> Seq(Threads)] /\ cond_waiters' \in [Conds -> Seq(Threads)]
      /\ value' \in [Semas -> 0..(MaxValue + 1)] => TypeOK'
  <2>1. pc' \in [Pages -> Places] /\ holder' \in Threads \cup {NULL} /\ sema' \in [Threads -> Semas]
    BY <1>0, MovesFacts, TypeFacts
  <2> QED BY <2>1 DEF TypeOK, Places
<1>6. CASE cond_waiters[c] = <<>>
  <2>1. /\ value' = value /\ waiters' = waiters /\ cond_waiters' = cond_waiters
        /\ status' = status /\ ready_list' = ready_list
        /\ current' = current /\ idle_thread' = idle_thread /\ thread_ticks' = thread_ticks
    BY <1>6 DEF cond_signal, schedVars, semaVars
  <2>2. SchedInv' /\ \A t \in Threads : Asleep(t)' <=> Asleep(t)
    BY <2>1 DEF IInv, SchedInv, SchedTypeOK, RunQueueExact, Asleep
  <2>3. TypeOK'
    BY <1>5, <2>1, <2>2, TypeFacts DEF SchedInv
  <2>4. PlaceInv'
    BY <1>0, <2>2, MovesPlaces, SMTT(60)
  <2>5. QueueInv' /\ NoLostWakeup'
    BY <1>0, <2>1, <2>2, MovesFacts, SameQueues DEF IInv
  <2>6. LockInv'
    BY <1>4, <2>1, SameLock DEF IInv
  <2>7. CondInv'
    <3>1. \A t \in Threads : InCondWait(t) => InCondWait(t)'
      BY <1>0, <1>3, <2>1, MovesFacts DEF InCondWait
    <3>2. \A t \in Threads : value'[t] \in {0, 1}
      BY <2>1 DEF IInv, CondInv
    <3> QED BY <1>2, <2>1, <3>1, <3>2, SameCond, TypeFacts, SMTT(60) DEF IInv
  <2> QED BY <2>2, <2>3, <2>4, <2>5, <2>6, <2>7 DEF IInv
<1>7. CASE cond_waiters[c] # <<>>
  <2> DEFINE h == Head(cond_waiters[c])
             rest == Tail(cond_waiters[c])
  <2>1. /\ sema_up(h) /\ value' = [value EXCEPT ![h] = @ + 1]
        /\ cond_waiters' = [cond_waiters EXCEPT ![c] = rest]
    BY <1>7 DEF cond_signal, sema_up
  <2>2. cond_waiters[c] \in Seq(Threads) /\ Distinct(cond_waiters[c])
    BY TypeFacts DEF IInv, CondInv
  <2>3. /\ h \in Threads /\ rest \in Seq(Threads) /\ Distinct(rest)
        /\ Range(cond_waiters[c]) = Range(rest) \cup {h} /\ h \notin Range(rest)
    BY <1>7, <2>2, TailSet
  <2> HIDE DEF h, rest
  <2>4. InCondWait(h) /\ h \in Range(cond_waiters[c])
    BY <2>3, OnCondList
  <2>5. /\ value'[h] = 1 /\ \A s \in Semas \ {h} : value'[s] = value[s]
        /\ value' \in [Semas -> 0..(MaxValue + 1)]
    <3>1. value[h] = 0 /\ h \in Semas
      BY <2>3, <2>4, SemaNames DEF InCondWait
    <3> QED BY <2>1, <3>1, TypeFacts, SynchAssumption, SMTT(60)
  <2>6. /\ SchedInv' /\ QueueInv' /\ NoLostWakeup' /\ waiters' \in [Semas -> Seq(Threads)]
        /\ \A t \in Threads : Asleep(t)' => Asleep(t)
    BY <1>0, <2>1, <2>3, UpQueues, MovesFacts, TypeFacts, SemaNames DEF IInv
  <2>7. /\ cond_waiters' \in [Conds -> Seq(Threads)] /\ cond_waiters'[c] = rest
        /\ \A d \in Conds \ {c} : cond_waiters'[d] = cond_waiters[d]
    BY <2>1, <2>3, TypeFacts
  <2>8. TypeOK'
    BY <1>5, <2>5, <2>6, <2>7 DEF SchedInv
  <2>9. PlaceInv'
    BY <1>0, <2>6, MovesPlaces
  <2>10. LockInv'
    <3>1. value'[Lock] = value[Lock]
      BY <2>3, <2>5, SemaNames
    <3> QED BY <1>4, <3>1, SameLock DEF IInv
  <2>11. CondInv'
    <3>1. \A t \in Threads : value'[t] \in {0, 1}
      BY <2>5, SemaNames DEF IInv, CondInv
    <3>2. \A d \in Conds : Distinct(cond_waiters'[d])
      BY <2>3, <2>7 DEF IInv, CondInv
    <3>3. \A d, e \in Conds : d # e => Range(cond_waiters[d]) \cap Range(cond_waiters[e]) = {}
      BY DEF IInv, CondInv
    <3>4. ASSUME NEW d \in Conds, NEW t \in Range(cond_waiters'[d])
          PROVE  t \in Range(cond_waiters[d]) /\ t # h
      <4>1. CASE d = c
        BY <2>3, <2>7, <3>4, <4>1
      <4>2. CASE d # c
        <5>1. t \in Range(cond_waiters[d])
          BY <2>7, <3>4, <4>2
        <5> QED BY <2>4, <3>3, <4>2, <5>1
      <4> QED BY <4>1, <4>2
    <3>5. ASSUME NEW d \in Conds, NEW t \in Range(cond_waiters'[d]) PROVE InCondWait(t)'
      <4>1. t \in Threads /\ InCondWait(t) /\ t # h /\ t # current
        BY <1>3, <3>4, <3>5, OnCondList
      <4>2. value'[t] = value[t] /\ pc'[t] = pc[t] /\ after'[t] = after[t]
        BY <2>5, <4>1, MovesFacts, SemaNames
      <4> QED BY <1>0, <4>1, <4>2 DEF InCondWait
    <3>6. \A d, e \in Conds : d # e => Range(cond_waiters'[d]) \cap Range(cond_waiters'[e]) = {}
      <4>1. ASSUME NEW d \in Conds, NEW e \in Conds, d # e,
                   NEW t \in Range(cond_waiters'[d]), t \in Range(cond_waiters'[e])
            PROVE  FALSE
        BY <3>3, <3>4, <4>1
      <4> QED BY <4>1
    <3> QED BY <1>2, <3>1, <3>2, <3>5, <3>6 DEF CondInv
  <2> QED BY <2>6, <2>8, <2>9, <2>10, <2>11 DEF IInv
<1> QED BY <1>6, <1>7

LEMMA CondSignalIInv == ASSUME IInv, NEW c \in Conds, CondSignal(c) PROVE IInv'
<1>1. current \in Threads /\ pc[current] = "run" /\ pc' = pc /\ after' = after /\ cond_signal(c)
  BY DEF CondSignal, At, IInv, SchedInv, Threads
<1>2. Moves("run")
  <2>1. pc' = [pc EXCEPT ![current] = "run"]
    BY <1>1, TypeFacts DEF Threads
  <2> QED BY <1>1, <2>1 DEF Moves
<1>3. after' \in [Threads -> {"run", "holder", "cond_down", "relock"} \cup Conds]
  BY <1>1 DEF IInv, TypeOK
<1> QED BY <1>1, <1>2, <1>3, SignalIInv

LEMMA CondBroadcastIInv == ASSUME IInv, NEW c \in Conds, CondBroadcast(c) PROVE IInv'
<1> DEFINE l == IF cond_waiters'[c] = <<>> THEN "run" ELSE "broadcast"
           a == IF cond_waiters'[c] = <<>> THEN "run" ELSE c
<1>1. /\ current \in Threads /\ pc[current] \in {"run", "broadcast"} /\ cond_signal(c)
      /\ pc' = [pc EXCEPT ![current] = l] /\ after' = [after EXCEPT ![current] = a]
  BY DEF CondBroadcast, At, Goto, IInv, SchedInv, Threads
<1>2. l \in {"run", "broadcast"} /\ a \in {"run"} \cup Conds /\ (l = "broadcast" => a \in Conds)
  OBVIOUS
<1> HIDE DEF l, a
<1>3. Moves(l)
  BY <1>1, <1>2 DEF Moves
<1>4. after \in [Threads -> {"run", "holder", "cond_down", "relock"} \cup Conds]
  BY DEF IInv, TypeOK
<1>5. /\ after' \in [Threads -> {"run", "holder", "cond_down", "relock"} \cup Conds]
      /\ after'[current] = a /\ \A t \in Threads \ {current} : after'[t] = after[t]
  BY <1>1, <1>2, <1>4
<1> QED BY <1>1, <1>2, <1>3, <1>5, SignalIInv

LEMMA TryDown ==
  ASSUME IInv, NEW s \in Semas, NEW l, sema_try_down(s, l) PROVE sema_down(s, l)
<1>1. value[s] # 0
  BY TypeFacts, SMTT(60) DEF sema_try_down
<1> QED BY <1>1 DEF sema_try_down, sema_down

LEMMA DownStep ==
  ASSUME IInv, NEW s, NEW l, MayDown(s, l), sema_down(s, l) \/ sema_try_down(s, l),
         UNCHANGED <<holder, cond_waiters>>
  PROVE  IInv'
<1>1. s \in Semas
  BY SemaNames DEF MayDown
<1> QED BY <1>1, TryDown, DownIInv

(* Every action keeps the invariant.                                       *)
LEMMA NextIInv == IInv /\ [Next]_vars => IInv'
<1> SUFFICES ASSUME IInv, [Next]_vars PROVE IInv'
  OBVIOUS
<1>0. ASSUME NEW l, At(l) PROVE current \in Threads /\ pc[current] = l
  BY <1>0 DEF At, IInv, SchedInv, Threads
<1>1. CASE DownAgain
  <2>1. MayDown(sema[current], after[current])
    <3>1. current \in Threads /\ pc[current] = "down" /\ Placed(current)
      BY <1>0, <1>1 DEF DownAgain, IInv, PlaceInv
    <3> QED BY <3>1 DEF MayDown, Placed
  <2> QED BY <1>1, <2>1, DownStep DEF DownAgain
<1>2. CASE SetHolder
  BY <1>2, SetHolderIInv
<1>3. CASE ReleaseUp
  BY <1>3, ReleaseUpIInv
<1>4. CASE CondDown
  <2>1. MayDown(current, "relock")
    BY <1>0, <1>4 DEF CondDown, MayDown
  <2> QED BY <1>4, <2>1, DownStep DEF CondDown
<1>5. CASE CondRelock
  <2>1. MayDown(Lock, "holder")
    BY <1>0, <1>5 DEF CondRelock, MayDown
  <2> QED BY <1>5, <2>1, DownStep DEF CondRelock
<1>6. CASE IdleBlock
  <2>1. current = Idle /\ thread_block /\ pc' = [pc EXCEPT ![current] = "hlt"] /\ SchedInv
    BY <1>6 DEF IdleBlock, Goto, IInv
  <2>2. SchedInv' /\ \A t \in Threads : Asleep(t)' <=> Asleep(t)
    BY <2>1, BlockInv DEF Threads
  <2>3. IdleOnly
    BY <2>1, TypeFacts, SemaNames DEF IdleOnly, Places
  <2> QED BY <1>6, <2>2, <2>3, SwitchIInv DEF IdleBlock
<1>7. CASE TimerInterrupt
  <2>1. SchedInv' /\ \A t \in Threads : Asleep(t)' <=> Asleep(t)
    BY <1>7, TickInv DEF TimerInterrupt, IInv
  <2>2. IdleOnly
    BY <1>7, EndHltIdle DEF TimerInterrupt
  <2> QED BY <1>7, <2>1, <2>2, SwitchIInv DEF TimerInterrupt
<1>8. CASE LockAcquire \/ LockTryAcquire
  <2>1. MayDown(Lock, "holder")
    BY <1>0, <1>8 DEF LockAcquire, LockTryAcquire, lock_held_by_current_thread, MayDown
  <2> QED BY <1>8, <2>1, DownStep DEF LockAcquire, LockTryAcquire
<1>9. CASE LockRelease
  BY <1>9, LockReleaseIInv
<1>10. ASSUME NEW s \in Counters, SemaDown(s) \/ SemaTryDown(s) PROVE IInv'
  <2>1. MayDown(s, "run")
    BY <1>0, <1>10 DEF SemaDown, SemaTryDown, MayDown
  <2> QED BY <1>10, <2>1, DownStep DEF SemaDown, SemaTryDown
<1>11. ASSUME NEW s \in Counters, SemaUp(s) PROVE IInv'
  <2>1. pc' = pc /\ sema_up(s) /\ value[s] < MaxValue
    BY <1>11 DEF SemaUp
  <2>2. IdleOnly
    BY <2>1, TypeFacts DEF IdleOnly, IInv, PlaceInv
  <2> QED BY <1>11, <2>1, <2>2, CounterUpIInv DEF SemaUp
<1>12. ASSUME NEW s \in Counters, InterruptUp(s) PROVE IInv'
  <2>1. IdleOnly
    BY <1>12, EndHltIdle DEF InterruptUp
  <2> QED BY <1>12, <2>1, CounterUpIInv DEF InterruptUp
<1>13. ASSUME NEW c \in Conds, CondWait(c) \/ CondSignal(c) \/ CondBroadcast(c) PROVE IInv'
  BY <1>13, CondWaitIInv, CondSignalIInv, CondBroadcastIInv
<1>14. CASE UNCHANGED vars
  <2>1. /\ UNCHANGED schedVars /\ UNCHANGED <<semaVars, holder, cond_waiters, sema, after>> /\ pc' = pc
    BY <1>14 DEF vars, semaVars
  <2>2. SchedInv' /\ \A t \in Threads : Asleep(t)' <=> Asleep(t)
    BY <2>1 DEF IInv, SchedInv, SchedTypeOK, RunQueueExact, Asleep, schedVars
  <2>3. IdleOnly
    BY <2>1, TypeFacts DEF IdleOnly, IInv, PlaceInv
  <2> QED BY <2>1, <2>2, <2>3, SwitchIInv
<1> QED BY <1>1, <1>2, <1>3, <1>4, <1>5, <1>6, <1>7, <1>8, <1>9, <1>10, <1>11, <1>12, <1>13,
           <1>14, SMTT(60) DEF Next, Proceed

-----------------------------------------------------------------------------
LEMMA InitIInv == Init => IInv
<1> SUFFICES ASSUME Init PROVE IInv
  OBVIOUS
<1> USE SchedulerAssumption, SynchAssumption
<1>1. /\ current \in Threads /\ current \in Pages /\ current # Idle /\ Idle \in Pages
      /\ Threads \subseteq Semas /\ Lock \in Semas /\ Lock \notin Threads
  BY SemaNames DEF Init, Threads
<1>2. ready_list \in Seq(Threads \ {current}) /\ Distinct(ready_list)
      /\ Range(ready_list) = Threads \ {current}
  <2>1. IsFiniteSet(Threads)
    BY FS_RemoveElement DEF Threads
  <2>2. IsFiniteSet(Threads \ {current}) /\ Cardinality(Threads \ {current}) = Cardinality(Threads) - 1
    BY <1>1, <2>1, FS_RemoveElement
  <2>3. /\ ready_list \in [1..(Cardinality(Threads) - 1) -> Threads \ {current}]
        /\ Range(ready_list) = Threads \ {current}
    BY DEF Init
  <2> QED BY <2>2, <2>3, FullDistinct
<1>3. /\ status \in [Pages -> {"RUNNING", "READY", "BLOCKED"}]
      /\ status[current] = "RUNNING" /\ status[Idle] = "BLOCKED"
      /\ \A t \in Threads \ {current} : status[t] = "READY"
  <2>1. status = [t \in Pages |-> CASE t = current -> "RUNNING"
                                    [] t = Idle -> "BLOCKED"
                                    [] OTHER -> "READY"]
    BY DEF Init
  <2> QED BY <1>1, <2>1 DEF Threads
<1>4. SchedInv
  <2>1. ready_list \in Seq(Pages)
    BY <1>2, SeqDef, SMTT(60) DEF Threads
  <2>2. ReadyExact(status, ready_list)
    BY <1>1, <1>2, <1>3, <2>1 DEF ReadyExact, Threads
  <2>3. {t \in Pages : status[t] = "RUNNING"} = {current}
    BY <1>1, <1>3 DEF Threads
  <2>4. idle_thread = Idle /\ thread_ticks \in 0..(TIME_SLICE - 1)
    BY SMTT(60) DEF Init
  <2> QED BY <1>1, <1>3, <2>2, <2>3, <2>4, SchedFacts
<1>5. /\ \A s \in Semas : waiters[s] = <<>> /\ value[s] = IF s = Lock THEN 1 ELSE 0
      /\ \A c \in Conds : cond_waiters[c] = <<>>
      /\ \A t \in Threads : pc[t] = "run" /\ ~Asleep(t)
      /\ pc[Idle] = "hlt" /\ holder = NULL
  <2>1. \A t \in Threads : ~Asleep(t)
    BY <1>3 DEF Asleep
  <2> QED BY <1>1, <2>1 DEF Init, Threads
<1>6. TypeOK
  <2>1. value \in [Semas -> 0..(MaxValue + 1)] /\ waiters \in [Semas -> Seq(Threads)]
    BY SMTT(60) DEF Init
  <2>2. cond_waiters \in [Conds -> Seq(Threads)] /\ sema \in [Threads -> Semas]
        /\ after \in [Threads -> {"run", "holder", "cond_down", "relock"} \cup Conds]
    BY <1>1, SMTT(60) DEF Init
  <2>3. pc \in [Pages -> Places] /\ holder \in Threads \cup {NULL}
    BY <1>5 DEF Init, Places
  <2> QED BY <1>4, <2>1, <2>2, <2>3 DEF TypeOK, Places, SchedInv
<1>7. PlaceInv
  BY <1>5 DEF PlaceInv, Placed
<1>8. QueueInv
  BY <1>5, EmptySet DEF QueueInv, Sleepers
<1>9. NoLostWakeup
  BY <1>5 DEF NoLostWakeup
<1>10. LockInv
  <2>1. \A t \in Threads : ~Owns(t) /\ holder # t
    BY <1>5 DEF Owns, Threads
  <2> QED BY <1>1, <1>5, <2>1 DEF LockInv
<1>11. CondInv
  BY <1>1, <1>5, EmptySet DEF CondInv, Releasing
<1> QED BY <1>4, <1>6, <1>7, <1>8, <1>9, <1>10, <1>11 DEF IInv

(* The inductive invariant holds in every reachable state.                 *)
THEOREM SpecIInv == Spec => []IInv
BY InitIInv, NextIInv, PTL DEF Spec

(* Type correctness of synch.c's state, whatever the threads do.           *)
THEOREM SpecTypeOK == Spec => []TypeOK
<1>1. IInv => TypeOK
  BY DEF IInv
<1> QED BY <1>1, SpecIInv, PTL

(* sema_up wakes as many threads as it leaves units for: threads never     *)
(* sleep on a semaphore whose value no woken thread is about to take.      *)
THEOREM SpecNoLostWakeup == Spec => []NoLostWakeup
<1>1. IInv => NoLostWakeup
  BY DEF IInv
<1> QED BY <1>1, SpecIInv, PTL

(* The elem of a struct thread is on one list at a time: the run queue     *)
(* while the thread is ready, the list of the semaphore it downs while it  *)
(* is blocked, and there once.                                             *)
THEOREM SpecElemOnOneList == Spec => []ElemOnOneList
<1>1. ASSUME IInv PROVE ElemOnOneList
  <2>1. RunQueueExact
    BY <1>1 DEF IInv, SchedInv
  <2>2. ASSUME NEW t \in Threads, NEW s \in Semas
        PROVE  Occurrences(t, waiters[s]) = IF status[t] = "BLOCKED" /\ sema[t] = s THEN 1 ELSE 0
    <3>1. Distinct(waiters[s]) /\ (t \in Range(waiters[s]) <=> status[t] = "BLOCKED" /\ sema[t] = s)
      BY <1>1 DEF IInv, QueueInv, Sleepers, Asleep
    <3> QED BY <3>1, OccursOnce
  <2> QED BY <2>1, <2>2 DEF ElemOnOneList
<1> QED BY <1>1, SpecIInv, PTL

(* The list of a condition points only to frames of cond_wait that are     *)
(* still live and not yet signalled, each from one list and once.          *)
THEOREM SpecCondListsLive == Spec => []CondListsLive
<1>1. ASSUME IInv PROVE CondListsLive
  <2>1. ASSUME NEW c \in Conds, NEW i \in DOMAIN cond_waiters[c], NEW t, t = cond_waiters[c][i]
        PROVE  /\ InCondWait(t)
               /\ \A d \in Conds : Occurrences(t, cond_waiters[d]) = IF c = d THEN 1 ELSE 0
    <3>1. t \in Range(cond_waiters[c])
      BY <2>1 DEF Range
    <3>2. \A d \in Conds : t \in Range(cond_waiters[d]) <=> c = d
      BY <1>1, <3>1 DEF IInv, CondInv
    <3>3. \A d \in Conds : Distinct(cond_waiters[d])
      BY <1>1 DEF IInv, CondInv
    <3>4. \A d \in Conds : Occurrences(t, cond_waiters[d]) = IF t \in Range(cond_waiters[d]) THEN 1 ELSE 0
      BY <3>3, OccursOnce
    <3> QED BY <1>1, <3>1, <3>2, <3>4 DEF IInv, CondInv
  <2> QED BY <2>1, SMTT(60) DEF CondListsLive, InCondWait
<1> QED BY <1>1, SpecIInv, PTL

-----------------------------------------------------------------------------
(* The monitor: who is in it and who waits, before and after a step.       *)

Stutters == owner' = owner /\ waiting' = waiting

LEMMA WaitingAt ==
  ASSUME NEW c \in Conds
  PROVE  /\ waiting[c] = LET list == cond_waiters[c]
                             n == Len(list)
                         IN IF n > 0 /\ pc[list[n]] = "release" THEN SubSeq(list, 1, n - 1) ELSE list
         /\ waiting'[c] = LET list == cond_waiters'[c]
                              n == Len(list)
                          IN IF n > 0 /\ pc'[list[n]] = "release" THEN SubSeq(list, 1, n - 1) ELSE list
BY DEF waiting

LEMMA AppendFront ==
  ASSUME NEW S, NEW q \in Seq(S), NEW e \in S
  PROVE  SubSeq(Append(q, e), 1, Len(q)) = q
<1> DEFINE r == Append(q, e)
           f == SubSeq(r, 1, Len(q))
<1>1. /\ r \in Seq(S) /\ Len(r) = Len(q) + 1 /\ Len(q) \in Nat /\ \A i \in 1..Len(q) : r[i] = q[i]
  BY AppendProperties, LenProperties, SMTT(60)
<1> HIDE DEF r
<1>2. f \in Seq(S) /\ Len(f) = Len(q) /\ \A i \in 1..Len(q) : f[i] = r[i]
  BY <1>1, SMTT(60)
<1> HIDE DEF f
<1>3. f = q
  BY <1>1, <1>2, SeqEqual
<1> QED BY <1>3 DEF f, r

LEMMA OwnerIs == ASSUME IInv, NEW t \in Threads, Owns(t) PROVE owner = t
BY DEF owner, IInv, LockInv

LEMMA OwnerBecomes == ASSUME IInv', NEW t \in Threads, Owns(t)' PROVE owner' = t
<1>1. \A u \in Threads : Owns(u)' => u = t
  BY DEF IInv, LockInv
<1>2. owner' = CHOOSE u \in Threads : Owns(u)'
  BY DEF owner
<1> QED BY <1>1, <1>2

LEMMA NoOwner ==
  /\ (\A t \in Threads : ~Owns(t)) => owner = NULL
  /\ (\A t \in Threads : ~Owns(t)') => owner' = NULL
BY DEF owner

LEMMA SameOwner ==
  ASSUME IInv, IInv', \A t \in Threads : Owns(t)' <=> Owns(t) PROVE owner' = owner
<1>1. CASE \E t \in Threads : Owns(t)
  <2>1. PICK t \in Threads : Owns(t)
    BY <1>1
  <2> QED BY <2>1, OwnerIs, OwnerBecomes
<1>2. CASE \A t \in Threads : ~Owns(t)
  BY <1>2, NoOwner
<1> QED BY <1>1, <1>2

LEMMA LastOnList ==
  ASSUME IInv, NEW c \in Conds
  PROVE  /\ cond_waiters[c] \in Seq(Threads) /\ Len(cond_waiters[c]) \in Nat
         /\ Len(cond_waiters[c]) > 0 => Last(cond_waiters[c]) \in Range(cond_waiters[c])
<1>1. cond_waiters[c] \in Seq(Threads)
  BY TypeFacts
<1> QED BY <1>1, LenProperties, SMTT(60) DEF Last, Range

LEMMA SameWaiting ==
  ASSUME IInv, cond_waiters' = cond_waiters,
         \A c \in Conds : \A t \in Range(cond_waiters[c]) : pc'[t] = "release" <=> pc[t] = "release"
  PROVE  waiting' = waiting
<1>1. ASSUME NEW c \in Conds PROVE waiting'[c] = waiting[c]
  BY LastOnList, WaitingAt DEF Last
<1>2. waiting = [c \in Conds |-> waiting[c]] /\ waiting' = [c \in Conds |-> waiting'[c]]
  BY DEF waiting
<1> QED BY <1>1, <1>2

(* While nobody is between the list and the release of the lock, exactly   *)
(* the threads on the list wait.                                           *)
LEMMA AllWait ==
  ASSUME IInv, \A t \in Threads : ~Releasing(t), NEW c \in Conds
  PROVE  waiting[c] = cond_waiters[c]
<1>1. \A t \in Range(cond_waiters[c]) : pc[t] # "release"
  BY OnCondList DEF InCondWait, Releasing
<1> QED BY <1>1, LastOnList, WaitingAt DEF Last

LEMMA MonitorStutters ==
  ASSUME IInv, IInv', cond_waiters' = cond_waiters, holder' = holder,
         \A t \in Threads : /\ pc'[t] = "release" <=> pc[t] = "release"
                            /\ pc'[t] = "holder" <=> pc[t] = "holder"
  PROVE  Stutters
<1>1. \A t \in Threads : Owns(t)' <=> Owns(t)
  BY DEF Owns
<1>2. \A c \in Conds : \A t \in Range(cond_waiters[c]) : t \in Threads
  BY OnCondList
<1> QED BY <1>1, <1>2, SameOwner, SameWaiting DEF Stutters

(* sema_down: taking the lock's semaphore is entering the monitor.         *)
LEMMA DownMonitor ==
  ASSUME IInv, IInv', NEW s, NEW l, MayDown(s, l), sema_down(s, l) \/ sema_try_down(s, l),
         UNCHANGED <<holder, cond_waiters>>
  PROVE  M!MonitorNext \/ Stutters
<1>0. /\ s \in Semas /\ current \in Threads /\ current \in Pages /\ pc \in [Pages -> Places]
      /\ holder' = holder /\ cond_waiters' = cond_waiters /\ Threads \subseteq Pages
      /\ pc[current] \in {"run", "cond_down", "relock", "down"}
  BY SemaNames, TypeFacts DEF MayDown
<1>1. CASE value[s] # 0 /\ s = Lock
  <2>1. pc' = [pc EXCEPT ![current] = "holder"]
    BY <1>0, <1>1, SemaNames DEF MayDown, sema_down, sema_try_down, Goto
  <2>2. \A t \in Threads : ~Owns(t)
    BY <1>1 DEF IInv, LockInv
  <2>3. owner = NULL
    BY <2>2, NoOwner
  <2>4. owner' = current
    <3>1. ASSUME NEW t \in Threads, t = current PROVE Owns(t)'
      BY <1>0, <2>1, <3>1 DEF Owns
    <3> QED BY <1>0, <3>1, OwnerBecomes
  <2>5. \A c \in Conds : current \notin Range(cond_waiters[c])
    <3>1. ~InCondWait(current)
      BY <1>0, <1>1, SemaNames DEF InCondWait, MayDown
    <3> QED BY <3>1, OnCondList
  <2>6. waiting' = waiting
    <3>1. ASSUME NEW c \in Conds, NEW t \in Range(cond_waiters[c])
          PROVE  pc'[t] = "release" <=> pc[t] = "release"
      <4>1. t # current /\ t \in Pages
        BY <1>0, <2>5, OnCondList
      <4> QED BY <1>0, <2>1, <4>1
    <3> QED BY <1>0, <3>1, SameWaiting
  <2>7. M!NotWaiting(current)
    <3>1. ASSUME NEW c \in Conds, NEW i \in DOMAIN waiting[c] PROVE waiting[c][i] # current
      <4>1. waiting[c][i] \in Range(cond_waiters[c])
        <5> DEFINE list == cond_waiters[c]
                   n == Len(list)
        <5>1. list \in Seq(Threads) /\ n \in Nat /\ DOMAIN list = 1..n
          BY LastOnList, LenProperties
        <5>2. CASE n > 0 /\ pc[list[n]] = "release"
          <6>1. waiting[c] = SubSeq(list, 1, n - 1)
            BY <5>2, WaitingAt
          <6>2. i \in 1..(n - 1) /\ waiting[c][i] = list[i]
            BY <3>1, <5>1, <5>2, <6>1, SMTT(60)
          <6> QED BY <5>1, <6>2, SMTT(60) DEF Range
        <5>3. CASE ~(n > 0 /\ pc[list[n]] = "release")
          <6>1. waiting[c] = list
            BY <5>3, WaitingAt
          <6> QED BY <3>1, <6>1 DEF Range
        <5> QED BY <5>2, <5>3
      <4> QED BY <2>5, <4>1
    <3> QED BY <3>1 DEF M!NotWaiting
  <2> QED BY <1>0, <2>3, <2>4, <2>6, <2>7 DEF M!MonitorNext, M!Acquire
<1>2. CASE ~(value[s] # 0 /\ s = Lock)
  <2>1. PICK m : pc' = [pc EXCEPT ![current] = m] /\ m \in {"down", "run", "relock"}
    <3>1. CASE value[s] = 0
      BY <1>0, <3>1, TypeFacts, SMTT(60) DEF sema_down, sema_try_down, Goto
    <3>2. CASE value[s] # 0
      <4>1. pc' = [pc EXCEPT ![current] = l]
        BY <3>2 DEF sema_down, sema_try_down, Goto
      <4>2. l \in {"run", "relock"}
        BY <1>2, <3>2 DEF MayDown
      <4> QED BY <4>1, <4>2
    <3> QED BY <3>1, <3>2
  <2>2. \A t \in Threads : /\ pc'[t] = "release" <=> pc[t] = "release"
                           /\ pc'[t] = "holder" <=> pc[t] = "holder"
    BY <1>0, <2>1
  <2> QED BY <1>0, <2>2, MonitorStutters
<1> QED BY <1>1, <1>2

(* lock->holder follows the semaphore: nothing happens in the monitor.     *)
LEMMA HolderStutters ==
  ASSUME IInv, IInv', SetHolder \/ LockRelease PROVE Stutters
<1>0. /\ current \in Threads /\ current \in Pages /\ pc \in [Pages -> Places]
      /\ cond_waiters' = cond_waiters /\ Threads \subseteq Pages /\ NULL \notin Threads
  BY SemaNames, TypeFacts, SchedulerAssumption DEF SetHolder, LockRelease, At, IInv, SchedInv,
     Threads
<1>1. /\ \A t \in Threads \ {current} : pc'[t] = pc[t] /\ (holder' = t <=> holder = t)
      /\ Owns(current) /\ pc[current] \in {"holder", "run"}
      /\ holder' = current \/ pc'[current] = "release"
  <2>1. CASE SetHolder
    <3>1. /\ pc[current] = "holder" /\ holder' = current /\ pc' = [pc EXCEPT ![current] = "run"]
      BY <2>1 DEF SetHolder, At, Goto
    <3>2. \A t \in Threads : holder # t
      BY <1>0, <3>1 DEF IInv, LockInv, Owns, HolderAt
    <3> QED BY <1>0, <3>1, <3>2 DEF Owns
  <2>2. CASE LockRelease
    <3>1. /\ pc[current] = "run" /\ holder = current /\ holder' = NULL
          /\ pc' = [pc EXCEPT ![current] = "release"]
      BY <2>2 DEF LockRelease, At, ClearHolder, lock_held_by_current_thread, Goto
    <3> QED BY <1>0, <3>1 DEF Owns
  <2> QED BY <2>1, <2>2
<1>2. \A t \in Threads : Owns(t)' <=> Owns(t)
  <2>1. ASSUME NEW t \in Threads, t = current PROVE Owns(t)'
    BY <1>1, <2>1 DEF Owns
  <2> QED BY <1>1, <2>1 DEF Owns
<1>3. \A c \in Conds : \A t \in Range(cond_waiters[c]) : t # current /\ t \in Threads
  BY <1>1, OnCondList DEF InCondWait
<1> QED BY <1>0, <1>1, <1>2, <1>3, SameOwner, SameWaiting DEF Stutters

(* The lock_release of cond_wait begins, with the thread on the list but   *)
(* not waiting yet.                                                        *)
LEMMA CondWaitStutters ==
  ASSUME IInv, IInv', NEW c \in Conds, CondWait(c) PROVE Stutters
<1>0. /\ current \in Threads /\ current \in Pages /\ pc[current] = "run" /\ holder = current
      /\ pc' = [pc EXCEPT ![current] = "release"] /\ holder' = NULL
      /\ cond_waiters' = [cond_waiters EXCEPT ![c] = Append(@, current)]
      /\ pc \in [Pages -> Places] /\ Threads \subseteq Pages /\ NULL \notin Threads
      /\ cond_waiters \in [Conds -> Seq(Threads)]
  BY SemaNames, TypeFacts, SchedulerAssumption DEF CondWait, ClearHolder,
     lock_held_by_current_thread, Goto, At, IInv, SchedInv, Threads
<1>1. /\ pc'[current] = "release" /\ \A t \in Threads \ {current} : pc'[t] = pc[t]
  BY <1>0
<1>2. \A t \in Threads : Owns(t) => t = current
  BY <1>0 DEF Owns, IInv, LockInv
<1>3. owner' = owner
  <2>1. ASSUME NEW t \in Threads, t = current PROVE Owns(t)'
    BY <1>1, <2>1 DEF Owns
  <2>2. owner' = current
    BY <1>0, <2>1, OwnerBecomes
  <2>3. owner = current
    BY <1>0, OwnerIs DEF Owns
  <2> QED BY <2>2, <2>3
<1>4. \A t \in Threads : ~Releasing(t)
  BY <1>0, <1>2 DEF Releasing, Owns
<1>5. ASSUME NEW d \in Conds PROVE waiting'[d] = waiting[d]
  <2>1. waiting[d] = cond_waiters[d]
    BY <1>4, AllWait
  <2>2. CASE d = c
    <3> DEFINE list == cond_waiters[c]
    <3>1. list \in Seq(Threads) /\ cond_waiters'[d] = Append(list, current)
      BY <1>0, <2>2
    <3> HIDE DEF list
    <3>2. /\ Len(Append(list, current)) = Len(list) + 1 /\ Len(list) \in Nat
          /\ Append(list, current)[Len(list) + 1] = current
      BY <1>0, <3>1, AppendProperties, LenProperties, SMTT(60)
    <3>3. waiting'[d] = SubSeq(Append(list, current), 1, Len(list))
      <4> DEFINE longer == Append(list, current)
                 n == Len(longer)
      <4>1. waiting'[d] = IF n > 0 /\ pc'[longer[n]] = "release" THEN SubSeq(longer, 1, n - 1) ELSE longer
        BY <3>1, WaitingAt
      <4>2. n > 0 /\ longer[n] = current /\ n - 1 = Len(list)
        BY <3>2, SMTT(60)
      <4> HIDE DEF longer, n
      <4> QED BY <1>1, <4>1, <4>2 DEF longer
    <3>4. SubSeq(Append(list, current), 1, Len(list)) = list
      BY <1>0, <3>1, AppendFront
    <3> QED BY <2>1, <2>2, <3>3, <3>4 DEF list
  <2>3. CASE d # c
    <3>1. cond_waiters'[d] = cond_waiters[d]
      BY <1>0, <2>3
    <3>2. \A t \in Range(cond_waiters[d]) : t \in Threads /\ t # current
      BY <1>0, OnCondList DEF InCondWait
    <3> QED BY <1>1, <3>1, <3>2, LastOnList, WaitingAt, SMTT(60) DEF Last
  <2> QED BY <2>2, <2>3
<1>6. waiting = [d \in Conds |-> waiting[d]] /\ waiting' = [d \in Conds |-> waiting'[d]]
  BY DEF waiting
<1> QED BY <1>3, <1>5, <1>6 DEF Stutters

(* The sema_up of lock_release leaves the monitor and, inside cond_wait,   *)
(* begins to wait in the same step.                                        *)
LEMMA ReleaseMonitor == ASSUME IInv, IInv', ReleaseUp PROVE M!MonitorNext
<1>0. /\ current \in Threads /\ current \in Pages /\ pc[current] = "release"
      /\ pc' = [pc EXCEPT ![current] = after[current]] /\ holder' = holder
      /\ after[current] \in {"run", "cond_down"}
      /\ cond_waiters' = cond_waiters
      /\ pc \in [Pages -> Places] /\ Threads \subseteq Pages
  <2>1. current \in Threads /\ pc[current] = "release"
    BY DEF ReleaseUp, At, IInv, SchedInv, Threads
  <2> QED BY <2>1, SemaNames, TypeFacts DEF ReleaseUp, Goto, IInv, PlaceInv, Placed
<1>1. pc'[current] = after[current] /\ \A t \in Threads \ {current} : pc'[t] = pc[t]
  BY <1>0
<1>2. owner = current
  BY <1>0, OwnerIs DEF Owns
<1>3. owner' = NULL
  <2>1. \A t \in Threads \ {current} : ~Owns(t)
    BY <1>0 DEF IInv, LockInv, Owns
  <2>2. holder # current
    BY <1>0 DEF IInv, LockInv, HolderAt
  <2>3. \A t \in Threads : ~Owns(t)'
    BY <1>0, <1>1, <2>1, <2>2 DEF Owns
  <2> QED BY <2>3, NoOwner
<1>4. CASE after[current] = "run"
  <2>1. \A c \in Conds : \A t \in Range(cond_waiters[c]) : t \in Threads /\ t # current
    BY <1>0, <1>4, OnCondList DEF InCondWait
  <2>2. waiting' = waiting
    BY <1>0, <1>1, <2>1, SameWaiting
  <2> QED BY <1>0, <1>2, <1>3, <2>2 DEF M!MonitorNext, M!Release
<1>5. CASE after[current] = "cond_down"
  <2>1. PICK c \in Conds : cond_waiters[c] # <<>> /\ Last(cond_waiters[c]) = current
    BY <1>0, <1>5 DEF IInv, CondInv, Releasing
  <2>2. waiting'[c] = Append(waiting[c], current)
    <3> DEFINE list == cond_waiters[c]
               n == Len(list)
    <3>1. list \in Seq(Threads) /\ n \in Nat /\ n > 0 /\ list[n] = current
      <4>1. list \in Seq(Threads) /\ n \in Nat
        BY LastOnList
      <4> QED BY <2>1, <4>1, EmptySeq, SMTT(60) DEF Last
    <3>2. waiting[c] = SubSeq(list, 1, n - 1)
      BY <1>0, <3>1, WaitingAt
    <3>3. waiting'[c] = list
      BY <1>0, <1>1, <1>5, <3>1, WaitingAt
    <3> HIDE DEF list, n
    <3>4. list = Append(SubSeq(list, 1, n - 1), list[n])
      BY <3>1, SMTT(60) DEF n
    <3> QED BY <3>1, <3>2, <3>3, <3>4
  <2>3. ASSUME NEW d \in Conds \ {c} PROVE waiting'[d] = waiting[d]
    <3>1. current \notin Range(cond_waiters[d])
      <4>1. current \in Range(cond_waiters[c])
        BY <2>1, LastOnList, EmptySeq, SMTT(60)
      <4> QED BY <4>1 DEF IInv, CondInv
    <3>2. \A t \in Range(cond_waiters[d]) : t \in Threads /\ t # current
      BY <3>1, OnCondList
    <3> QED BY <1>0, <1>1, <3>2, LastOnList, WaitingAt, SMTT(60) DEF Last
  <2>4. waiting' = [waiting EXCEPT ![c] = Append(@, current)]
    <3>1. waiting = [d \in Conds |-> waiting[d]] /\ waiting' = [d \in Conds |-> waiting'[d]]
      BY DEF waiting
    <3> QED BY <2>2, <2>3, <3>1
  <2> QED BY <1>0, <1>2, <1>3, <2>4 DEF M!MonitorNext, M!Wait
<1> QED BY <1>0, <1>4, <1>5

(* cond_signal takes the thread that has waited longest off its list.      *)
LEMMA SignalMonitor ==
  ASSUME IInv, IInv', NEW c \in Conds, CondSignal(c) \/ CondBroadcast(c)
  PROVE  M!MonitorNext \/ Stutters
<1>0. /\ current \in Threads /\ current \in Pages /\ pc[current] \in {"run", "broadcast"}
      /\ cond_signal(c) /\ holder = current /\ holder' = holder
      /\ pc \in [Pages -> Places] /\ Threads \subseteq Pages /\ NULL \notin Threads
  BY SemaNames, TypeFacts, SchedulerAssumption DEF CondSignal, CondBroadcast, cond_signal,
     lock_held_by_current_thread, At, IInv, SchedInv, Threads
<1>1. PICK m \in {"run", "broadcast"} : pc' = [pc EXCEPT ![current] = m]
  <2>1. CASE CondSignal(c)
    BY <1>0, <2>1 DEF CondSignal
  <2>2. CASE CondBroadcast(c)
    BY <2>2 DEF CondBroadcast, Goto
  <2> QED BY <2>1, <2>2
<1>2. \A t \in Threads : /\ pc'[t] = "release" <=> pc[t] = "release"
                         /\ pc'[t] = "holder" <=> pc[t] = "holder"
  BY <1>0, <1>1
<1>3. CASE cond_waiters[c] = <<>>
  <2>1. cond_waiters' = cond_waiters
    BY <1>0, <1>3 DEF cond_signal
  <2> QED BY <1>0, <1>2, <2>1, MonitorStutters
<1>4. CASE cond_waiters[c] # <<>>
  <2>1. cond_waiters' = [cond_waiters EXCEPT ![c] = Tail(@)] /\ cond_waiters \in [Conds -> Seq(Threads)]
    BY <1>0, <1>4, TypeFacts DEF cond_signal
  <2>2. owner = current /\ owner' = owner
    <3>1. \A t \in Threads : Owns(t)' <=> Owns(t)
      BY <1>0, <1>2 DEF Owns
    <3> QED BY <1>0, <3>1, OwnerIs, SameOwner DEF Owns
  <2>3. \A t \in Threads : pc[t] # "release" /\ pc'[t] # "release"
    BY <1>0, <1>2 DEF Owns, IInv, LockInv
  <2>4. ASSUME NEW d \in Conds PROVE waiting[d] = cond_waiters[d] /\ waiting'[d] = cond_waiters'[d]
    <3>1. waiting[d] = cond_waiters[d]
      BY <2>3, AllWait DEF Releasing
    <3>2. cond_waiters'[d] \in Seq(Threads)
      BY <1>4, <2>1, HeadTailProperties
    <3> DEFINE list == cond_waiters'[d]
               n == Len(list)
    <3>3. n \in Nat /\ (n > 0 => list[n] \in Threads)
      BY <3>2, LenProperties, ElementOfSeq, SMTT(60)
    <3>4. waiting'[d] = IF n > 0 /\ pc'[list[n]] = "release" THEN SubSeq(list, 1, n - 1) ELSE list
      BY WaitingAt
    <3> HIDE DEF list, n
    <3>5. waiting'[d] = list
      BY <2>3, <3>3, <3>4
    <3> QED BY <3>1, <3>5 DEF list
  <2>5. waiting' = [waiting EXCEPT ![c] = Tail(@)]
    <3>1. waiting = [d \in Conds |-> waiting[d]] /\ waiting' = [d \in Conds |-> waiting'[d]]
      BY DEF waiting
    <3> QED BY <2>1, <2>4, <3>1
  <2>6. owner # NULL /\ waiting[c] # <<>>
    BY <1>0, <1>4, <2>2, <2>4
  <2> QED BY <2>2, <2>5, <2>6 DEF M!MonitorNext, M!Signal
<1> QED BY <1>3, <1>4

(* Every step of synch.c is a step of the monitor, or none.                *)
LEMMA NextMonitor == ASSUME IInv, IInv', [Next]_vars PROVE M!MonitorNext \/ Stutters
<1>0. ASSUME NEW l, At(l) PROVE current \in Threads /\ pc[current] = l
  BY <1>0 DEF At, IInv, SchedInv, Threads
<1>1. ASSUME IdleOnly, cond_waiters' = cond_waiters, holder' = holder PROVE Stutters
  <2>1. \A t \in Threads : pc'[t] = pc[t]
    BY <1>1 DEF IdleOnly
  <2> QED BY <1>1, <2>1, MonitorStutters
<1>2. CASE DownAgain
  <2>1. MayDown(sema[current], after[current])
    <3>1. current \in Threads /\ pc[current] = "down" /\ Placed(current)
      BY <1>0, <1>2 DEF DownAgain, IInv, PlaceInv
    <3> QED BY <3>1 DEF MayDown, Placed
  <2> QED BY <1>2, <2>1, DownMonitor DEF DownAgain
<1>3. CASE SetHolder \/ LockRelease
  BY <1>3, HolderStutters
<1>4. CASE ReleaseUp
  BY <1>4, ReleaseMonitor
<1>5. CASE CondDown
  <2>1. MayDown(current, "relock")
    BY <1>0, <1>5 DEF CondDown, MayDown
  <2> QED BY <1>5, <2>1, DownMonitor DEF CondDown
<1>6. CASE CondRelock
  <2>1. MayDown(Lock, "holder")
    BY <1>0, <1>6 DEF CondRelock, MayDown
  <2> QED BY <1>6, <2>1, DownMonitor DEF CondRelock
<1>7. CASE IdleBlock
  <2>1. IdleOnly
    <3>1. pc' = [pc EXCEPT ![Idle] = "hlt"]
      BY <1>7 DEF IdleBlock, Goto
    <3> QED BY <3>1, TypeFacts, SemaNames DEF IdleOnly, Places
  <2> QED BY <1>1, <1>7, <2>1 DEF IdleBlock
<1>8. CASE TimerInterrupt
  BY <1>1, <1>8, EndHltIdle DEF TimerInterrupt
<1>9. CASE LockAcquire \/ LockTryAcquire
  <2>1. MayDown(Lock, "holder")
    BY <1>0, <1>9 DEF LockAcquire, LockTryAcquire, lock_held_by_current_thread, MayDown
  <2> QED BY <1>9, <2>1, DownMonitor DEF LockAcquire, LockTryAcquire
<1>10. ASSUME NEW s \in Counters, SemaDown(s) \/ SemaTryDown(s) PROVE M!MonitorNext \/ Stutters
  <2>1. MayDown(s, "run")
    BY <1>0, <1>10 DEF SemaDown, SemaTryDown, MayDown
  <2> QED BY <1>10, <2>1, DownMonitor DEF SemaDown, SemaTryDown
<1>11. ASSUME NEW s \in Counters, InterruptUp(s) PROVE Stutters
  BY <1>1, <1>11, EndHltIdle DEF InterruptUp
<1>12. ASSUME NEW s \in Counters, SemaUp(s) PROVE Stutters
  BY <1>12, MonitorStutters DEF SemaUp
<1>13. ASSUME NEW c \in Conds, CondWait(c) PROVE Stutters
  BY <1>13, CondWaitStutters
<1>14. ASSUME NEW c \in Conds, CondSignal(c) \/ CondBroadcast(c) PROVE M!MonitorNext \/ Stutters
  BY <1>14, SignalMonitor
<1>15. CASE UNCHANGED vars
  BY <1>15, MonitorStutters DEF vars
<1> QED BY <1>2, <1>3, <1>4, <1>5, <1>6, <1>7, <1>8, <1>9, <1>10, <1>11, <1>12, <1>13, <1>14,
           <1>15, SMTT(60) DEF Next, Proceed

LEMMA InitMonitor == Init => M!MonitorInit
<1> SUFFICES ASSUME Init PROVE M!MonitorInit
  OBVIOUS
<1>1. \A t \in Threads : ~Owns(t)
  <2>1. \A t \in Threads : pc[t] = "run" /\ holder = NULL /\ t # NULL
    BY SchedulerAssumption DEF Init, Threads
  <2> QED BY <2>1 DEF Owns
<1>2. \A c \in Conds : waiting[c] = <<>>
  <2>1. \A c \in Conds : cond_waiters[c] = <<>>
    BY DEF Init
  <2>2. ~(Len(<<>>) > 0)
    BY SMTT(60)
  <2> QED BY <2>1, <2>2, WaitingAt
<1>3. waiting = [c \in Conds |-> <<>>]
  <2>1. waiting = [c \in Conds |-> waiting[c]]
    BY DEF waiting
  <2> QED BY <1>2, <2>1
<1> QED BY <1>1, <1>3, NoOwner DEF M!MonitorInit

(* The lock and the condition variables implement a monitor: although      *)
(* cond_wait joins the list, releases the lock and sleeps in three steps   *)
(* that interrupts separate, no signal falls between them.                 *)
THEOREM SpecImplementsMonitor == Spec => ImplementsMonitor
<1>1. IInv /\ IInv' /\ [Next]_vars => [M!MonitorNext]_<<owner, waiting>>
  BY NextMonitor DEF Stutters
<1> QED BY <1>1, InitMonitor, SpecIInv, PTL DEF Spec, ImplementsMonitor, M!MonitorSpec

=============================================================================
