------------------------------ MODULE Monitor ------------------------------
(***************************************************************************)
(* What threads/synch.c promises of a lock and its condition variables: a  *)
(* Mesa monitor in which cond_wait releases the lock and begins to wait in *)
(* one atomic step.                                                        *)
(***************************************************************************)
EXTENDS Sequences

CONSTANTS Threads, Conds, NULL

VARIABLES
  owner,     \* the thread in the monitor, or NULL
  waiting    \* for each condition, the threads that wait to be signalled

NotWaiting(t) == \A c \in Conds : \A i \in DOMAIN waiting[c] : waiting[c][i] # t

MonitorInit == owner = NULL /\ waiting = [c \in Conds |-> <<>>]

Acquire(t) == owner = NULL /\ NotWaiting(t) /\ owner' = t /\ UNCHANGED waiting

Release(t) == owner = t /\ owner' = NULL /\ UNCHANGED waiting

Wait(t, c) ==
  /\ owner = t
  /\ owner' = NULL
  /\ waiting' = [waiting EXCEPT ![c] = Append(@, t)]

Signal(c) ==
  /\ owner # NULL
  /\ waiting[c] # <<>>
  /\ waiting' = [waiting EXCEPT ![c] = Tail(@)]
  /\ UNCHANGED owner

MonitorNext ==
  \/ \E t \in Threads : Acquire(t) \/ Release(t)
  \/ \E t \in Threads, c \in Conds : Wait(t, c)
  \/ \E c \in Conds : Signal(c)

MonitorSpec == MonitorInit /\ [][MonitorNext]_<<owner, waiting>>
=============================================================================
