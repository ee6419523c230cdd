------------------------------- MODULE Process -------------------------------
(***************************************************************************)
(* The life cycle of user processes in userprog/process.c: exec, the       *)
(* loading of the child, wait, exit, and the struct shared_mem that a      *)
(* parent and a child share.                                               *)
(*                                                                         *)
(* Each thread runs its own kernel code and may be preempted between any   *)
(* two steps.  A step is a stretch of code that touches shared state once: *)
(* a semaphore operation, a critical section of alive_count_lock, or code  *)
(* that only this thread can observe.  Semaphores are counters here; that  *)
(* synch.c implements them is the subject of module Synch.                 *)
(*                                                                         *)
(* Thread ids are never reused, so a tid is the process itself, and a      *)
(* shared_mem is named by the child it was allocated for.                  *)
(***************************************************************************)
EXTENDS Integers, FiniteSets

CONSTANTS
  Procs,          \* all threads that may ever run a process, and Main
  Main,           \* the initial thread, which runs the command-line actions
  TID_ERROR,      \* the tid of no thread
  Statuses,       \* the values programs pass to exit()
  LoadOutcomes,   \* the results load() may have, a subset of BOOLEAN
  WaitedGarbage,  \* what malloc leaves in shared_mem.waited, ditto
  MallocFails     \* whether malloc() and palloc_get_page() may fail

ASSUME ProcessAssumption ==
  /\ Main \in Procs
  /\ TID_ERROR \notin Procs
  /\ Statuses \subseteq Int
  /\ LoadOutcomes \subseteq BOOLEAN
  /\ WaitedGarbage \subseteq BOOLEAN
  /\ WaitedGarbage # {}
  /\ MallocFails \in BOOLEAN

VARIABLES
  machine,          \* "up", "off" or "panic"
  pc,               \* where each thread is
  target,           \* the child a thread is executing or waiting for
  ret,              \* what the last exec or wait of a thread returned
  child_relations,  \* thread.child_relations, as the set of children
  todo,             \* the children process_exit has not visited yet
  pagedir,          \* whether thread.pagedir is set
  cmd_line,         \* the page shared_mem.cmd_line: "none", "live", "freed"
  alive_count,      \* shared_mem.alive_count
  exit_status,      \* shared_mem.exit_status
  waited,           \* shared_mem.waited
  sema_exec,        \* shared_mem.sema_exec.value
  sema_wait,        \* shared_mem.sema_wait.value
  loaded,           \* history: the result of load(): "none", "ok", "failed"
  released,         \* history: children whose parent gave up its share
  reaped            \* history: how often a child's status was returned, up to 2

threadVars == <<pc, target, ret, child_relations, todo, pagedir>>
sharedVars == <<cmd_line, alive_count, exit_status, waited, sema_exec, sema_wait>>
history == <<loaded, released, reaped>>
vars == <<machine, threadVars, sharedVars, history>>

PCs == {"unborn", "user",
        "exec_down", "exec_check", "wait_down",
        "load", "load_failed", "incr", "push_args", "start_up",
        "exit_dec", "exit_up", "exit_children", "exit_pagedir", "dead"}

NoReturn == [call |-> "none", child |-> TID_ERROR, val |-> TID_ERROR]

(* A child no longer counts itself in alive_count.                         *)
Exited(c) == pc[c] \in {"exit_up", "exit_children", "exit_pagedir", "dead"}

Goto(p, l) == pc' = [pc EXCEPT ![p] = l]

(* The system call of p returns val, about child.                          *)
Return(p, call, child, val) ==
  /\ Goto(p, "user")
  /\ target' = [target EXCEPT ![p] = TID_ERROR]
  /\ ret' = [ret EXCEPT ![p] = [call |-> call, child |-> child, val |-> val]]

sema_up(sema, c) == [sema EXCEPT ![c] = @ + 1]

Init ==
  /\ machine = "up"
  /\ pc = [p \in Procs |-> IF p = Main THEN "user" ELSE "unborn"]
  /\ target = [p \in Procs |-> TID_ERROR]
  /\ ret = [p \in Procs |-> NoReturn]
  /\ child_relations = [p \in Procs |-> {}]
  /\ todo = [p \in Procs |-> {}]
  /\ pagedir = [p \in Procs |-> FALSE]
  /\ cmd_line = [p \in Procs |-> "none"]
  /\ alive_count = [p \in Procs |-> 0]
  /\ exit_status = [p \in Procs |-> -1]
  /\ waited = [p \in Procs |-> FALSE]
  /\ sema_exec = [p \in Procs |-> 0]
  /\ sema_wait = [p \in Procs |-> 0]
  /\ loaded = [p \in Procs |-> "none"]
  /\ released = {}
  /\ reaped = [p \in Procs |-> 0]

-----------------------------------------------------------------------------
(* process_execute.                                                        *)

(* run_task waits for each program before it starts the next one.          *)
MayExec(p) == pc[p] = "user" /\ (p = Main => ret[p].call # "exec")

(* A null sm is dereferenced by sema_init: a page fault in the kernel.     *)
ExecNoSharedMem(p) ==
  /\ MallocFails
  /\ MayExec(p)
  /\ machine' = "panic"
  /\ UNCHANGED <<threadVars, sharedVars, history>>

(* No page for the copy of the command line, or no thread.                 *)
ExecNoThread(p) ==
  /\ MallocFails
  /\ MayExec(p)
  /\ Return(p, "exec", TID_ERROR, TID_ERROR)
  /\ UNCHANGED <<machine, child_relations, todo, pagedir, sharedVars, history>>

(* Up to and including thread_create: the child can run from here on.      *)
ExecCreate(p, c) ==
  /\ MayExec(p)
  /\ pc[c] = "unborn"
  /\ pc' = [pc EXCEPT ![p] = "exec_down", ![c] = "load"]
  /\ target' = [target EXCEPT ![p] = c]
  /\ sema_exec' = [sema_exec EXCEPT ![c] = 0]
  /\ sema_wait' = [sema_wait EXCEPT ![c] = 0]
  /\ exit_status' = [exit_status EXCEPT ![c] = -1]
  /\ alive_count' = [alive_count EXCEPT ![c] = 1]
  /\ \E garbage \in WaitedGarbage : waited' = [waited EXCEPT ![c] = garbage]
  /\ cmd_line' = [cmd_line EXCEPT ![c] = "live"]
  /\ UNCHANGED <<machine, ret, child_relations, todo, pagedir, history>>

(* Fault: sema_down does not wait.                                         *)
ExecDownNoWait(p) ==
  /\ pc[p] = "exec_down"
  /\ sema_exec' = [sema_exec EXCEPT ![target[p]] = @ - 1]
  /\ Goto(p, "exec_check")
  /\ UNCHANGED <<machine, target, ret, child_relations, todo, pagedir, cmd_line,
                 alive_count, exit_status, waited, sema_wait, history>>

ExecDown(p) ==
  /\ pc[p] = "exec_down"
  /\ sema_exec[target[p]] > 0
  /\ sema_exec' = [sema_exec EXCEPT ![target[p]] = @ - 1]
  /\ Goto(p, "exec_check")
  /\ UNCHANGED <<machine, target, ret, child_relations, todo, pagedir, cmd_line,
                 alive_count, exit_status, waited, sema_wait, history>>

(* The parent takes alive_count = 1 to mean that loading failed.           *)
ExecCheck(p) ==
  LET c == target[p]
      failed == alive_count[c] = 1
  IN /\ pc[p] = "exec_check"
     /\ Return(p, "exec", c, IF failed THEN TID_ERROR ELSE c)
     /\ child_relations' =
          IF failed THEN child_relations ELSE [child_relations EXCEPT ![p] = @ \cup {c}]
     /\ cmd_line' = [cmd_line EXCEPT ![c] = "freed"]
     /\ UNCHANGED <<machine, todo, pagedir, alive_count, exit_status, waited,
                    sema_exec, sema_wait, history>>

-----------------------------------------------------------------------------
(* start_process.                                                          *)

(* A null argv is written by the tokenizer: a page fault in the kernel.    *)
StartNoArgv(c) ==
  /\ MallocFails
  /\ pc[c] = "load"
  /\ machine' = "panic"
  /\ UNCHANGED <<threadVars, sharedVars, history>>

(* load() creates the page directory first, so a failed load may leave one. *)
StartLoad(c) ==
  /\ pc[c] = "load"
  /\ \E success \in LoadOutcomes, pd \in BOOLEAN :
       /\ success => pd
       /\ Goto(c, IF success THEN "incr" ELSE "load_failed")
       /\ pagedir' = [pagedir EXCEPT ![c] = pd]
       /\ loaded' = [loaded EXCEPT ![c] = IF success THEN "ok" ELSE "failed"]
  /\ UNCHANGED <<machine, target, ret, child_relations, todo, sharedVars, released, reaped>>

(* Fault: the parent is woken before push_args.                            *)
StartAliveUps(c) ==
  /\ pc[c] = "incr"
  /\ alive_count' = [alive_count EXCEPT ![c] = @ + 1]
  /\ sema_exec' = sema_up(sema_exec, c)
  /\ Goto(c, "push_args")
  /\ UNCHANGED <<machine, target, ret, child_relations, todo, pagedir, cmd_line,
                 exit_status, waited, sema_wait, history>>

StartAlive(c) ==
  /\ pc[c] = "incr"
  /\ alive_count' = [alive_count EXCEPT ![c] = @ + 1]
  /\ Goto(c, "push_args")
  /\ UNCHANGED <<machine, target, ret, child_relations, todo, pagedir, cmd_line,
                 exit_status, waited, sema_exec, sema_wait, history>>

(* push_args copies the words of the command line from its page.           *)
StartPushArgs(c) ==
  /\ pc[c] = "push_args"
  /\ Goto(c, "start_up")
  /\ UNCHANGED <<machine, target, ret, child_relations, todo, pagedir, sharedVars,
                 history>>

StartUp(c) ==
  /\ pc[c] = "start_up"
  /\ sema_exec' = sema_up(sema_exec, c)
  /\ Goto(c, "user")
  /\ UNCHANGED <<machine, target, ret, child_relations, todo, pagedir, cmd_line,
                 alive_count, exit_status, waited, sema_wait, history>>

StartFailed(c) ==
  /\ pc[c] = "load_failed"
  /\ exit_status' = [exit_status EXCEPT ![c] = -1]
  /\ sema_exec' = sema_up(sema_exec, c)
  /\ Goto(c, "exit_dec")
  /\ UNCHANGED <<machine, target, ret, child_relations, todo, pagedir, cmd_line,
                 alive_count, waited, sema_wait, history>>

-----------------------------------------------------------------------------
(* process_exit, reached through thread_exit.                              *)

(* The exit system call.                                                   *)
Exit(p, status) ==
  /\ pc[p] = "user"
  /\ p # Main
  /\ exit_status' = [exit_status EXCEPT ![p] = status]
  /\ Goto(p, "exit_dec")
  /\ UNCHANGED <<machine, target, ret, child_relations, todo, pagedir, cmd_line,
                 alive_count, waited, sema_exec, sema_wait, history>>

(* An exception in user code: the exit status stays as it is.              *)
Kill(p) ==
  /\ pc[p] = "user"
  /\ p # Main
  /\ Goto(p, "exit_dec")
  /\ UNCHANGED <<machine, target, ret, child_relations, todo, pagedir, sharedVars,
                 history>>

(* Whoever finds the other side gone has nobody to wake.                   *)
ExitDec(p) ==
  /\ pc[p] = "exit_dec"
  /\ alive_count' = [alive_count EXCEPT ![p] = @ - 1]
  /\ IF alive_count'[p] = 0
     THEN /\ Goto(p, "exit_children")
          /\ todo' = [todo EXCEPT ![p] = child_relations[p]]
     ELSE /\ Goto(p, "exit_up")
          /\ UNCHANGED todo
  /\ UNCHANGED <<machine, target, ret, child_relations, pagedir, cmd_line,
                 exit_status, waited, sema_exec, sema_wait, history>>

ExitUp(p) ==
  /\ pc[p] = "exit_up"
  /\ sema_wait' = sema_up(sema_wait, p)
  /\ Goto(p, "exit_children")
  /\ todo' = [todo EXCEPT ![p] = child_relations[p]]
  /\ UNCHANGED <<machine, target, ret, child_relations, pagedir, cmd_line,
                 alive_count, exit_status, waited, sema_exec, history>>

(* Fault: the parent keeps its share of a child.                           *)
ExitChildKeeps(p, c) ==
  /\ pc[p] = "exit_children"
  /\ c \in todo[p]
  /\ todo' = [todo EXCEPT ![p] = @ \ {c}]
  /\ alive_count' = [alive_count EXCEPT ![c] = @]
  /\ child_relations' =
       IF alive_count'[c] = 0 THEN [child_relations EXCEPT ![p] = @ \ {c}] ELSE child_relations
  /\ released' = released \cup {c}
  /\ UNCHANGED <<machine, pc, target, ret, pagedir, cmd_line, exit_status, waited,
                 sema_exec, sema_wait, loaded, reaped>>

(* One turn of the loop over child_relations.                              *)
ExitChild(p, c) ==
  /\ pc[p] = "exit_children"
  /\ c \in todo[p]
  /\ todo' = [todo EXCEPT ![p] = @ \ {c}]
  /\ alive_count' = [alive_count EXCEPT ![c] = @ - 1]
  /\ child_relations' =
       IF alive_count'[c] = 0 THEN [child_relations EXCEPT ![p] = @ \ {c}] ELSE child_relations
  /\ released' = released \cup {c}
  /\ UNCHANGED <<machine, pc, target, ret, pagedir, cmd_line, exit_status, waited,
                 sema_exec, sema_wait, loaded, reaped>>

ExitChildrenDone(p) ==
  /\ pc[p] = "exit_children"
  /\ todo[p] = {}
  /\ Goto(p, "exit_pagedir")
  /\ UNCHANGED <<machine, target, ret, child_relations, todo, pagedir, sharedVars,
                 history>>

ExitPagedir(p) ==
  /\ pc[p] = "exit_pagedir"
  /\ pagedir' = [pagedir EXCEPT ![p] = FALSE]
  /\ Goto(p, "dead")
  /\ UNCHANGED <<machine, target, ret, child_relations, todo, sharedVars, history>>

-----------------------------------------------------------------------------
(* process_wait.                                                           *)

(* run_task passes on what process_execute returned.                       *)
MayWait(p, tid) ==
  /\ pc[p] = "user"
  /\ p = Main => ret[p].call = "exec" /\ tid = ret[p].val

ReturnStatus(p, c) ==
  /\ Return(p, "status", c, exit_status[c])
  /\ reaped' = [reaped EXCEPT ![c] = IF @ < 2 THEN @ + 1 ELSE @]
  /\ UNCHANGED <<loaded, released>>

(* Not a child, or a child that is marked as waited for.                   *)
WaitRefused(p, tid) ==
  /\ MayWait(p, tid)
  /\ tid \in child_relations[p] => waited[tid]
  /\ Return(p, "refused", IF tid \in child_relations[p] THEN tid ELSE TID_ERROR, -1)
  /\ UNCHANGED <<machine, child_relations, todo, pagedir, sharedVars, history>>

(* Fault: the status of a living child is returned.                        *)
WaitAnyway(p, c) ==
  /\ MayWait(p, c)
  /\ c \in child_relations[p]
  /\ ~waited[c]
  /\ ReturnStatus(p, c)
  /\ UNCHANGED <<machine, child_relations, todo, pagedir, sharedVars>>

(* The child is dead: its status is returned without marking it.           *)
WaitDead(p, c) ==
  /\ MayWait(p, c)
  /\ c \in child_relations[p]
  /\ ~waited[c]
  /\ alive_count[c] = 1
  /\ ReturnStatus(p, c)
  /\ UNCHANGED <<machine, child_relations, todo, pagedir, sharedVars>>

(* Fault: nobody checks that TID is a child.                               *)
WaitStranger(p, c) ==
  /\ MayWait(p, c)
  /\ ~waited[c]
  /\ alive_count[c] # 1
  /\ waited' = [waited EXCEPT ![c] = TRUE]
  /\ target' = [target EXCEPT ![p] = c]
  /\ Goto(p, "wait_down")
  /\ UNCHANGED <<machine, ret, child_relations, todo, pagedir, cmd_line, alive_count,
                 exit_status, sema_exec, sema_wait, history>>

WaitBlock(p, c) ==
  /\ MayWait(p, c)
  /\ c \in child_relations[p]
  /\ ~waited[c]
  /\ alive_count[c] # 1
  /\ waited' = [waited EXCEPT ![c] = TRUE]
  /\ target' = [target EXCEPT ![p] = c]
  /\ Goto(p, "wait_down")
  /\ UNCHANGED <<machine, ret, child_relations, todo, pagedir, cmd_line, alive_count,
                 exit_status, sema_exec, sema_wait, history>>

WaitDown(p) ==
  LET c == target[p]
  IN /\ pc[p] = "wait_down"
     /\ sema_wait[c] > 0
     /\ sema_wait' = [sema_wait EXCEPT ![c] = @ - 1]
     /\ ReturnStatus(p, c)
     /\ UNCHANGED <<machine, child_relations, todo, pagedir, cmd_line, alive_count,
                    exit_status, waited, sema_exec>>

-----------------------------------------------------------------------------
(* The end of the machine.                                                 *)

(* The halt system call.                                                   *)
Halt(p) ==
  /\ pc[p] = "user"
  /\ p # Main
  /\ machine' = "off"
  /\ UNCHANGED <<threadVars, sharedVars, history>>

(* main() shuts down as configured; when nothing was configured it calls   *)
(* thread_exit, and process_exit dereferences its null parent_relation.    *)
MainDone ==
  /\ pc[Main] = "user"
  /\ ret[Main].call # "exec"
  /\ machine' \in {"off", "panic"}
  /\ UNCHANGED <<threadVars, sharedVars, history>>

KernelStep(p) ==
  \/ ExecDown(p) \/ ExecCheck(p)
  \/ StartLoad(p) \/ StartAlive(p) \/ StartPushArgs(p) \/ StartUp(p) \/ StartFailed(p)
  \/ ExitDec(p) \/ ExitUp(p) \/ ExitChildrenDone(p) \/ ExitPagedir(p)
  \/ \E c \in Procs : ExitChild(p, c)
  \/ WaitDown(p)

UserStep(p) ==
  \/ ExecNoSharedMem(p) \/ ExecNoThread(p) \/ StartNoArgv(p)
  \/ \E c \in Procs : ExecCreate(p, c)
  \/ \E status \in Statuses : Exit(p, status)
  \/ Kill(p) \/ Halt(p)
  \/ \E tid \in Procs \cup {TID_ERROR} : WaitRefused(p, tid)
  \/ \E c \in Procs : WaitDead(p, c) \/ WaitBlock(p, c)

Next ==
  \/ machine = "up" /\ \E p \in Procs : KernelStep(p) \/ UserStep(p)
  \/ machine = "up" /\ MainDone
  \/ machine # "up" /\ UNCHANGED vars

Spec == Init /\ [][Next]_vars

(* The round-robin scheduler runs every ready thread again and again, so a *)
(* thread inside the kernel proceeds; what programs do is up to them.      *)
FairSpec == Spec /\ \A p \in Procs : WF_vars(machine = "up" /\ KernelStep(p))

-----------------------------------------------------------------------------
TypeOK ==
  /\ machine \in {"up", "off", "panic"}
  /\ pc \in [Procs -> PCs]
  /\ target \in [Procs -> Procs \cup {TID_ERROR}]
  /\ ret \in [Procs -> [call : {"none", "exec", "refused", "status"},
                        child : Procs \cup {TID_ERROR},
                        val : Procs \cup {TID_ERROR} \cup Int]]
  /\ child_relations \in [Procs -> SUBSET Procs]
  /\ todo \in [Procs -> SUBSET Procs]
  /\ pagedir \in [Procs -> BOOLEAN]
  /\ cmd_line \in [Procs -> {"none", "live", "freed"}]
  /\ alive_count \in [Procs -> Int]
  /\ exit_status \in [Procs -> Int]
  /\ waited \in [Procs -> BOOLEAN]
  /\ sema_exec \in [Procs -> Nat]
  /\ sema_wait \in [Procs -> Nat]
  /\ loaded \in [Procs -> {"none", "ok", "failed"}]
  /\ released \subseteq Procs
  /\ reaped \in [Procs -> 0..2]

-----------------------------------------------------------------------------
(* The child never reads the page of its command line after process_execute *)
(* has freed it: start_process ups sema_exec only after push_args.         *)
CmdLineOutlivesLoading ==
  \A c \in Procs : pc[c] \in {"load", "incr", "push_args"} => cmd_line[c] = "live"

(* alive_count is one share for the parent until it exits, and one for the *)
(* child from the end of a successful load() until it exits.  The share of *)
(* the parent counts even when process_execute did not adopt the child.    *)
AliveCountExact ==
  \A c \in Procs \ {Main} : pc[c] # "unborn" =>
    alive_count[c] = 1 + (IF loaded[c] = "ok" /\ pc[c] # "incr" THEN 1 ELSE 0)
                       - (IF Exited(c) THEN 1 ELSE 0)
                       - (IF c \in released THEN 1 ELSE 0)

(* Every status process_wait returns, whether it found the child dead or   *)
(* slept until it died, is the child's last word.                          *)
StatusIsFinal ==
  \A p \in Procs : ret[p].call = "status" =>
    /\ Exited(ret[p].child)
    /\ ret[p].val = exit_status[ret[p].child]

(* A process is told to wake its waiter at most once, only after it left   *)
(* alive_count, and never when its parent gave up its share before it.     *)
WakeupOnlyByExit ==
  \A c \in Procs :
    /\ sema_wait[c] + (IF waited[c] /\ reaped[c] > 0 THEN 1 ELSE 0) <= 1
    /\ sema_wait[c] > 0 => Exited(c) /\ pc[c] # "exit_up"

(* A parent that sleeps in sema_down (&sema_wait) holds on to the child:   *)
(* nobody else may be asleep on the same child, and it is not released.    *)
SleeperOwnsChild ==
  \A p \in Procs : pc[p] = "wait_down" =>
    /\ target[p] \in child_relations[p] \ released
    /\ \A q \in Procs \ {p} : target[q] # target[p]

(* process.c process_wait and process_exit: who sleeps for a child, and    *)
(* when the child may wake it; the semaphores never fall below zero.       *)
WaitProtocol == TypeOK /\ SleeperOwnsChild /\ WakeupOnlyByExit

(* The test of alive_count tells whether load() succeeded, as long as the  *)
(* child has not exited before its parent looks.                           *)
ExecVerdict ==
  [][\A p \in Procs : LET c == target[p] IN
       pc[p] = "exec_check" /\ pc'[p] = "user" /\ ~Exited(c) =>
         (ret'[p].val = c <=> loaded[c] = "ok")]_vars

-----------------------------------------------------------------------------
(* What the comments and the tests of the repository say and the code does *)
(* not do.                                                                 *)

(* process.c, process_execute, and tests/userprog/exec-missing.c: exec     *)
(* returns the tid of a program that was loaded, even of one that has      *)
(* exited by then, and -1 for one that cannot be loaded.                   *)
ExecReportsLoad ==
  \A p \in Procs : ret[p].call = "exec" /\ ret[p].child # TID_ERROR =>
    (ret[p].val = ret[p].child <=> loaded[ret[p].child] = "ok")
=============================================================================
