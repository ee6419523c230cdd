--------------------------- MODULE ProcessProofs ---------------------------
(***************************************************************************)
(* Proofs about the process life cycle, for any number of processes, any   *)
(* exit codes and any outcome of load() and malloc().                      *)
(***************************************************************************)
EXTENDS Process, TLAPS

(* Zenon proves a leaf unless the leaf names another prover.               *)
USE ZenonT(60)

(* The child has not yet upped sema_exec.                                  *)
Loading(c) == pc[c] \in {"load", "load_failed", "incr", "push_args", "start_up"}

InExec(p) == pc[p] \in {"exec_down", "exec_check"}

(* Main is never created by process_execute and never exits.               *)
MainInv == pc[Main] \in {"user", "exec_down", "exec_check", "wait_down"}

(* What is true of a shared_mem before and while its child is loading.     *)
LoadingInv ==
  \A c \in Procs :
    /\ Loading(c) => /\ cmd_line[c] = "live"
                     /\ sema_exec[c] = 0
                     /\ \A p \in Procs : ~(pc[p] = "exec_check" /\ target[p] = c)
    /\ pc[c] \in {"unborn", "load"} => loaded[c] = "none"
    /\ pc[c] = "load_failed" => loaded[c] = "failed"
    /\ pc[c] \in {"incr", "push_args", "start_up"} => loaded[c] = "ok"
    /\ pc[c] = "unborn" => c \notin released /\ sema_wait[c] = 0

(* The child of a parent inside process_execute is nobody's child yet.     *)
ExecInv ==
  \A p \in Procs : InExec(p) =>
    /\ target[p] \in Procs \ {Main}
    /\ pc[target[p]] # "unborn"
    /\ target[p] \notin released
    /\ \A q \in Procs : target[p] \notin child_relations[q]
    /\ \A q \in Procs : InExec(q) /\ target[q] = target[p] => q = p

(* A child that process_execute adopted has one parent, has finished       *)
(* loading, and has either loaded or already exited.                       *)
ChildInv ==
  \A p \in Procs : \A c \in child_relations[p] :
    /\ c # Main
    /\ pc[c] # "unborn"
    /\ ~Loading(c)
    /\ loaded[c] = "ok" \/ Exited(c)
    /\ \A q \in Procs : c \in child_relations[q] => q = p

(* The loop of process_exit gives up each child once.                      *)
ReleaseInv ==
  \A p \in Procs :
    /\ todo[p] \subseteq child_relations[p]
    /\ todo[p] \cap released = {}
    /\ pc[p] \notin {"exit_children", "exit_pagedir", "dead"} =>
         child_relations[p] \cap released = {}

(* A sleeping parent waits for a child of its own, and target is used by   *)
(* process_execute and process_wait only.                                  *)
WaitInv ==
  /\ \A p \in Procs : pc[p] = "wait_down" => target[p] \in child_relations[p]
  /\ \A p \in Procs : ~InExec(p) /\ pc[p] # "wait_down" => target[p] = TID_ERROR
  /\ \A c \in Procs : sema_wait[c] > 0 => Exited(c)

ReturnInv ==
  \A p \in Procs : ret[p].call = "status" =>
    /\ ret[p].child \in Procs
    /\ Exited(ret[p].child)
    /\ ret[p].val = exit_status[ret[p].child]

IInv ==
  /\ TypeOK /\ MainInv /\ LoadingInv /\ ExecInv /\ ChildInv
  /\ ReleaseInv /\ WaitInv /\ ReturnInv /\ AliveCountExact

-----------------------------------------------------------------------------
(* The machine starts in the invariant, and a step that only stops it      *)
(* stays there.                                                            *)

LEMMA InitIInv == Init => IInv
<1> SUFFICES ASSUME Init PROVE IInv
  OBVIOUS
<1>1. TypeOK
  BY ProcessAssumption, SMTT(60) DEF Init, TypeOK, PCs, NoReturn
<1>2. MainInv /\ LoadingInv /\ ExecInv /\ ChildInv
  BY ProcessAssumption DEF Init, MainInv, LoadingInv, Loading, ExecInv, InExec, ChildInv
<1>3. ReleaseInv /\ WaitInv /\ ReturnInv /\ AliveCountExact
  BY ProcessAssumption, SMTT(60) DEF Init, ReleaseInv, WaitInv, InExec, ReturnInv, NoReturn,
       AliveCountExact
<1> QED BY <1>1, <1>2, <1>3 DEF IInv

LEMMA StoppedIInv ==
  ASSUME IInv, machine' \in {"up", "off", "panic"},
         UNCHANGED <<threadVars, sharedVars, history>>
  PROVE  IInv'
<1>1. TypeOK'
  BY DEF IInv, TypeOK, threadVars, sharedVars, history
<1>2. /\ MainInv' /\ LoadingInv' /\ ExecInv' /\ ChildInv'
      /\ ReleaseInv' /\ WaitInv' /\ ReturnInv' /\ AliveCountExact'
  BY SMTT(60) DEF IInv, MainInv, LoadingInv, Loading, ExecInv, InExec, ChildInv, Exited,
       ReleaseInv, WaitInv, ReturnInv, AliveCountExact, threadVars, sharedVars, history
<1> QED BY <1>1, <1>2 DEF IInv

-----------------------------------------------------------------------------
(* process_execute keeps the invariant.                                    *)

LEMMA ExecNoThreadIInv ==
  ASSUME IInv, NEW p \in Procs, ExecNoThread(p)
  PROVE  IInv'
<1>1. TypeOK'
  BY DEF IInv, ExecNoThread, Return, MayExec, sharedVars, history, Goto, TypeOK, PCs
<1>2. /\ MainInv' /\ LoadingInv' /\ ExecInv' /\ ChildInv'
      /\ ReleaseInv' /\ WaitInv' /\ ReturnInv' /\ AliveCountExact'
  BY SMTT(60) DEF IInv, ExecNoThread, Return, MayExec, sharedVars, history, Goto, MainInv,
       LoadingInv, Loading, ExecInv, InExec, ChildInv, Exited, ReleaseInv, WaitInv,
       ReturnInv, AliveCountExact, TypeOK, PCs
<1> QED BY <1>1, <1>2 DEF IInv

LEMMA ExecCreateIInv ==
  ASSUME IInv, NEW p \in Procs, NEW c \in Procs, ExecCreate(p, c)
  PROVE  IInv'
<1>1. TypeOK'
  BY ProcessAssumption, SMTT(60) DEF IInv, ExecCreate, MayExec, history, TypeOK, PCs
<1>2. MainInv'
  BY ProcessAssumption DEF IInv, ExecCreate, MayExec, history, MainInv, TypeOK, PCs
<1>3. WaitInv'
  <2>1. \A q \in Procs : pc'[q] = "wait_down" => target'[q] \in child_relations'[q]
    BY DEF IInv, ExecCreate, MayExec, WaitInv, TypeOK
  <2>2. \A q \in Procs :
          pc'[q] \notin {"exec_down", "exec_check", "wait_down"} => target'[q] = TID_ERROR
    BY SMTT(60) DEF IInv, ExecCreate, MayExec, WaitInv, InExec, TypeOK
  <2>3. \A q \in Procs : sema_wait'[q] > 0 => Exited(q)'
    BY SMTT(60) DEF IInv, ExecCreate, MayExec, WaitInv, Exited, TypeOK
  <2> QED BY <2>1, <2>2, <2>3 DEF WaitInv, InExec
<1>4. ReturnInv'
  BY DEF IInv, ExecCreate, MayExec, history, ReturnInv, Exited, TypeOK, PCs
<1>5. LoadingInv'
  BY SMTT(60) DEF IInv, ExecCreate, MayExec, history, LoadingInv, Loading, TypeOK, PCs,
       ExecInv, InExec
<1>6. ExecInv'
  BY SMTT(60) DEF IInv, ExecCreate, MayExec, history, ExecInv, InExec, TypeOK, PCs, MainInv,
       LoadingInv, Loading, ChildInv, Exited
<1>7. ChildInv'
  BY ProcessAssumption, SMTT(60) DEF IInv, ExecCreate, MayExec, history, ChildInv, Loading,
       Exited, TypeOK, PCs, LoadingInv, ReleaseInv
<1>8. ReleaseInv'
  BY ProcessAssumption, SMTT(60) DEF IInv, ExecCreate, MayExec, history, ReleaseInv, TypeOK,
       PCs, LoadingInv, Loading
<1>9. AliveCountExact'
  BY SMTT(60) DEF IInv, ExecCreate, MayExec, history, AliveCountExact, Exited, TypeOK, PCs,
       LoadingInv, Loading
<1> QED BY <1>1, <1>2, <1>3, <1>4, <1>5, <1>6, <1>7, <1>8, <1>9 DEF IInv

LEMMA ExecDownIInv ==
  ASSUME IInv, NEW p \in Procs, ExecDown(p)
  PROVE  IInv'
<1>1. TypeOK'
  BY SMTT(60) DEF IInv, ExecDown, Goto, history, TypeOK, PCs, ExecInv, InExec
<1>2. /\ MainInv' /\ LoadingInv' /\ ExecInv' /\ ChildInv'
      /\ ReleaseInv' /\ WaitInv' /\ ReturnInv' /\ AliveCountExact'
  BY SMTT(60) DEF IInv, ExecDown, Goto, history, MainInv, LoadingInv, Loading, ExecInv,
       InExec, ChildInv, Exited, ReleaseInv, WaitInv, ReturnInv, AliveCountExact,
       TypeOK, PCs
<1> QED BY <1>1, <1>2 DEF IInv

LEMMA ExecCheckIInv ==
  ASSUME IInv, NEW p \in Procs, ExecCheck(p)
  PROVE  IInv'
<1>1. TypeOK'
  BY SMTT(60) DEF IInv, ExecCheck, Return, history, Goto, TypeOK, PCs, ExecInv, InExec
<1>2. /\ MainInv' /\ LoadingInv' /\ ExecInv'
      /\ WaitInv' /\ ReturnInv' /\ AliveCountExact'
  BY SMTT(60) DEF IInv, ExecCheck, Return, history, Goto, MainInv, LoadingInv, Loading,
       ExecInv, InExec, WaitInv, Exited, ReturnInv, AliveCountExact, TypeOK, PCs
<1>3. ChildInv'
  BY SMTT(60) DEF IInv, ExecCheck, Return, history, Goto, ChildInv, Loading, Exited, TypeOK,
       PCs, LoadingInv, ExecInv, InExec, AliveCountExact
<1>4. ReleaseInv'
  BY SMTT(60) DEF IInv, ExecCheck, Return, history, Goto, ReleaseInv, TypeOK, PCs, ExecInv,
       InExec
<1> QED BY <1>1, <1>2, <1>3, <1>4 DEF IInv

-----------------------------------------------------------------------------
(* start_process keeps the invariant.                                      *)

LEMMA StartLoadIInv ==
  ASSUME IInv, NEW p \in Procs, StartLoad(p)
  PROVE  IInv'
<1>1. TypeOK'
  BY SMTT(60) DEF IInv, StartLoad, Goto, sharedVars, TypeOK, PCs
<1>2. /\ MainInv' /\ LoadingInv' /\ ExecInv' /\ ChildInv'
      /\ ReleaseInv' /\ WaitInv' /\ ReturnInv'
  BY SMTT(60) DEF IInv, StartLoad, Goto, sharedVars, MainInv, LoadingInv, Loading, ExecInv,
       InExec, ChildInv, Exited, ReleaseInv, WaitInv, ReturnInv, TypeOK, PCs
<1>3. AliveCountExact'
  BY SMTT(60) DEF IInv, StartLoad, Goto, sharedVars, AliveCountExact, Exited, TypeOK, PCs,
       LoadingInv, Loading
<1> QED BY <1>1, <1>2, <1>3 DEF IInv

LEMMA StartAliveIInv ==
  ASSUME IInv, NEW p \in Procs, StartAlive(p)
  PROVE  IInv'
<1>1. TypeOK'
  BY SMTT(60) DEF IInv, StartAlive, Goto, history, TypeOK, PCs
<1>2. /\ MainInv' /\ LoadingInv' /\ ExecInv' /\ ChildInv'
      /\ ReleaseInv' /\ WaitInv' /\ ReturnInv'
  BY SMTT(60) DEF IInv, StartAlive, Goto, history, MainInv, LoadingInv, Loading, ExecInv,
       InExec, ChildInv, Exited, ReleaseInv, WaitInv, ReturnInv, TypeOK, PCs
<1>3. AliveCountExact'
  BY SMTT(60) DEF IInv, StartAlive, Goto, history, AliveCountExact, Exited, TypeOK, PCs,
       LoadingInv, Loading
<1> QED BY <1>1, <1>2, <1>3 DEF IInv

LEMMA StartPushArgsIInv ==
  ASSUME IInv, NEW p \in Procs, StartPushArgs(p)
  PROVE  IInv'
<1>1. TypeOK'
  BY DEF IInv, StartPushArgs, Goto, sharedVars, history, TypeOK, PCs
<1>2. /\ MainInv' /\ LoadingInv' /\ ExecInv' /\ ChildInv'
      /\ ReleaseInv' /\ WaitInv' /\ ReturnInv' /\ AliveCountExact'
  BY SMTT(60) DEF IInv, StartPushArgs, Goto, sharedVars, history, MainInv, LoadingInv,
       Loading, ExecInv, InExec, ChildInv, Exited, ReleaseInv, WaitInv, ReturnInv,
       AliveCountExact, TypeOK, PCs
<1> QED BY <1>1, <1>2 DEF IInv

LEMMA StartUpIInv ==
  ASSUME IInv, NEW p \in Procs, StartUp(p)
  PROVE  IInv'
<1>1. TypeOK'
  BY SMTT(60) DEF IInv, StartUp, Goto, sema_up, history, TypeOK, PCs
<1>2. /\ MainInv' /\ LoadingInv' /\ ExecInv' /\ ChildInv'
      /\ ReleaseInv' /\ WaitInv' /\ ReturnInv' /\ AliveCountExact'
  BY SMTT(60) DEF IInv, StartUp, Goto, sema_up, history, MainInv, LoadingInv, Loading,
       ExecInv, InExec, ChildInv, Exited, ReleaseInv, WaitInv, ReturnInv,
       AliveCountExact, TypeOK, PCs
<1> QED BY <1>1, <1>2 DEF IInv

LEMMA StartFailedIInv ==
  ASSUME IInv, NEW p \in Procs, StartFailed(p)
  PROVE  IInv'
<1>1. TypeOK'
  BY SMTT(60) DEF IInv, StartFailed, Goto, sema_up, history, TypeOK, PCs
<1>2. /\ MainInv' /\ LoadingInv' /\ ExecInv' /\ ChildInv'
      /\ ReleaseInv' /\ WaitInv' /\ ReturnInv' /\ AliveCountExact'
  BY SMTT(60) DEF IInv, StartFailed, Goto, sema_up, history, MainInv, LoadingInv, Loading,
       ExecInv, InExec, ChildInv, Exited, ReleaseInv, WaitInv, ReturnInv,
       AliveCountExact, TypeOK, PCs
<1> QED BY <1>1, <1>2 DEF IInv

-----------------------------------------------------------------------------
(* exit, kill and process_exit keep the invariant.                         *)

LEMMA ExitIInv ==
  ASSUME IInv, NEW p \in Procs, NEW s \in Statuses, Exit(p, s)
  PROVE  IInv'
<1>1. TypeOK'
  BY ProcessAssumption DEF IInv, Exit, Goto, history, TypeOK, PCs
<1>2. /\ MainInv' /\ LoadingInv' /\ ExecInv' /\ ChildInv'
      /\ ReleaseInv' /\ WaitInv' /\ ReturnInv' /\ AliveCountExact'
  BY SMTT(60) DEF IInv, Exit, Goto, history, MainInv, LoadingInv, Loading, ExecInv, InExec,
       ChildInv, Exited, ReleaseInv, WaitInv, ReturnInv, AliveCountExact, TypeOK,
       PCs
<1> QED BY <1>1, <1>2 DEF IInv

LEMMA KillIInv ==
  ASSUME IInv, NEW p \in Procs, Kill(p)
  PROVE  IInv'
<1>1. TypeOK'
  BY DEF IInv, Kill, Goto, sharedVars, history, TypeOK, PCs
<1>2. /\ MainInv' /\ LoadingInv' /\ ExecInv' /\ ChildInv'
      /\ ReleaseInv' /\ WaitInv' /\ ReturnInv' /\ AliveCountExact'
  BY SMTT(60) DEF IInv, Kill, Goto, sharedVars, history, MainInv, LoadingInv, Loading,
       ExecInv, InExec, ChildInv, Exited, ReleaseInv, WaitInv, ReturnInv,
       AliveCountExact, TypeOK, PCs
<1> QED BY <1>1, <1>2 DEF IInv

LEMMA ExitDecIInv ==
  ASSUME IInv, NEW p \in Procs, ExitDec(p)
  PROVE  IInv'
<1>1. /\ pc[p] = "exit_dec"
      /\ alive_count' = [alive_count EXCEPT ![p] = @ - 1]
      /\ \/ /\ pc' = [pc EXCEPT ![p] = "exit_children"]
            /\ todo' = [todo EXCEPT ![p] = child_relations[p]]
         \/ pc' = [pc EXCEPT ![p] = "exit_up"] /\ todo' = todo
      /\ UNCHANGED <<machine, target, ret, child_relations, pagedir, cmd_line,
                     exit_status, waited, sema_exec, sema_wait, history>>
  BY DEF ExitDec, Goto
<1>2. TypeOK'
  <2>1. pc' \in [Procs -> PCs]
    BY <1>1, SMTT(60) DEF IInv, TypeOK, PCs
  <2>2. todo' \in [Procs -> SUBSET Procs]
    BY <1>1, SMTT(60) DEF IInv, TypeOK
  <2>3. alive_count' \in [Procs -> Int]
    BY <1>1, SMTT(60) DEF IInv, TypeOK
  <2> QED BY <1>1, <2>1, <2>2, <2>3 DEF IInv, TypeOK, history
<1>3. MainInv'
  BY <1>1, ProcessAssumption DEF IInv, MainInv, TypeOK
<1>4. LoadingInv'
  BY <1>1, SMTT(60) DEF IInv, TypeOK, history, LoadingInv, Loading
<1>5. ExecInv'
  BY <1>1, SMTT(60) DEF IInv, TypeOK, history, ExecInv, InExec
<1>6. ChildInv'
  BY <1>1, SMTT(60) DEF IInv, TypeOK, history, ChildInv, Loading, Exited
<1>7. ReleaseInv'
  BY <1>1, SMTT(60) DEF IInv, TypeOK, history, ReleaseInv
<1>8. WaitInv'
  BY <1>1, SMTT(60) DEF IInv, TypeOK, history, WaitInv, InExec, Exited
<1>9. ReturnInv'
  BY <1>1, SMTT(60) DEF IInv, TypeOK, history, ReturnInv, Exited
<1>10. AliveCountExact'
  BY <1>1, SMTT(60) DEF IInv, TypeOK, history, AliveCountExact, Exited
<1> QED BY <1>2, <1>3, <1>4, <1>5, <1>6, <1>7, <1>8, <1>9, <1>10 DEF IInv

LEMMA ExitUpIInv ==
  ASSUME IInv, NEW p \in Procs, ExitUp(p)
  PROVE  IInv'
<1>1. TypeOK'
  BY SMTT(60) DEF IInv, ExitUp, Goto, sema_up, history, TypeOK, PCs
<1>2. /\ MainInv' /\ LoadingInv' /\ ExecInv' /\ ChildInv'
      /\ ReleaseInv' /\ WaitInv' /\ ReturnInv' /\ AliveCountExact'
  BY SMTT(60) DEF IInv, ExitUp, Goto, sema_up, history, MainInv, LoadingInv, Loading,
       ExecInv, InExec, ChildInv, Exited, ReleaseInv, WaitInv, ReturnInv,
       AliveCountExact, TypeOK, PCs
<1> QED BY <1>1, <1>2 DEF IInv

LEMMA ExitChildIInv ==
  ASSUME IInv, NEW p \in Procs, NEW c \in Procs, ExitChild(p, c)
  PROVE  IInv'
<1>1. TypeOK'
  BY SMTT(60) DEF IInv, ExitChild, TypeOK, PCs
<1>2. MainInv' /\ ChildInv' /\ WaitInv' /\ ReturnInv'
  BY SMTT(60) DEF IInv, ExitChild, MainInv, ChildInv, Loading, Exited, WaitInv, InExec,
       ReturnInv, TypeOK, PCs
<1>3. LoadingInv'
  BY SMTT(60) DEF IInv, ExitChild, LoadingInv, Loading, TypeOK, PCs, ChildInv, Exited,
       ReleaseInv
<1>4. ExecInv'
  BY SMTT(60) DEF IInv, ExitChild, ExecInv, InExec, TypeOK, PCs, ReleaseInv
<1>5. ReleaseInv'
  BY SMTT(60) DEF IInv, ExitChild, ReleaseInv, TypeOK, PCs, ChildInv, Loading, Exited
<1>6. AliveCountExact'
  BY SMTT(60) DEF IInv, ExitChild, AliveCountExact, Exited, TypeOK, PCs, ReleaseInv
<1> QED BY <1>1, <1>2, <1>3, <1>4, <1>5, <1>6 DEF IInv

LEMMA ExitChildrenDoneIInv ==
  ASSUME IInv, NEW p \in Procs, ExitChildrenDone(p)
  PROVE  IInv'
<1>1. TypeOK'
  BY DEF IInv, ExitChildrenDone, Goto, sharedVars, history, TypeOK, PCs
<1>2. /\ MainInv' /\ LoadingInv' /\ ExecInv' /\ ChildInv'
      /\ ReleaseInv' /\ WaitInv' /\ ReturnInv' /\ AliveCountExact'
  BY SMTT(60) DEF IInv, ExitChildrenDone, Goto, sharedVars, history, MainInv, LoadingInv,
       Loading, ExecInv, InExec, ChildInv, Exited, ReleaseInv, WaitInv, ReturnInv,
       AliveCountExact, TypeOK, PCs
<1> QED BY <1>1, <1>2 DEF IInv

LEMMA ExitPagedirIInv ==
  ASSUME IInv, NEW p \in Procs, ExitPagedir(p)
  PROVE  IInv'
<1>1. TypeOK'
  BY DEF IInv, ExitPagedir, Goto, sharedVars, history, TypeOK, PCs
<1>2. /\ MainInv' /\ LoadingInv' /\ ExecInv' /\ ChildInv'
      /\ ReleaseInv' /\ WaitInv' /\ ReturnInv' /\ AliveCountExact'
  BY SMTT(60) DEF IInv, ExitPagedir, Goto, sharedVars, history, MainInv, LoadingInv, Loading,
       ExecInv, InExec, ChildInv, Exited, ReleaseInv, WaitInv, ReturnInv,
       AliveCountExact, TypeOK, PCs
<1> QED BY <1>1, <1>2 DEF IInv

-----------------------------------------------------------------------------
(* process_wait keeps the invariant.                                       *)

LEMMA WaitRefusedIInv ==
  ASSUME IInv, NEW p \in Procs, NEW t \in Procs \cup {TID_ERROR}, WaitRefused(p, t)
  PROVE  IInv'
<1>1. TypeOK'
  BY SMTT(60) DEF IInv, WaitRefused, Return, MayWait, sharedVars, history, Goto, TypeOK, PCs
<1>2. /\ MainInv' /\ LoadingInv' /\ ExecInv' /\ ChildInv'
      /\ ReleaseInv' /\ WaitInv' /\ ReturnInv' /\ AliveCountExact'
  BY SMTT(60) DEF IInv, WaitRefused, Return, MayWait, sharedVars, history, Goto, MainInv,
       LoadingInv, Loading, ExecInv, InExec, ChildInv, Exited, ReleaseInv, WaitInv,
       ReturnInv, AliveCountExact, TypeOK, PCs
<1> QED BY <1>1, <1>2 DEF IInv

LEMMA WaitDeadIInv ==
  ASSUME IInv, NEW p \in Procs, NEW c \in Procs, WaitDead(p, c)
  PROVE  IInv'
<1>1. TypeOK'
  BY SMTT(60) DEF IInv, WaitDead, ReturnStatus, MayWait, sharedVars, Return, Goto, TypeOK,
       PCs
<1>2. /\ MainInv' /\ LoadingInv' /\ ExecInv' /\ ChildInv'
      /\ ReleaseInv' /\ WaitInv' /\ AliveCountExact'
  BY SMTT(60) DEF IInv, WaitDead, ReturnStatus, MayWait, sharedVars, Return, Goto, MainInv,
       LoadingInv, Loading, ExecInv, InExec, ChildInv, Exited, ReleaseInv, WaitInv,
       AliveCountExact, TypeOK, PCs
<1>3. ReturnInv'
  BY ProcessAssumption, SMTT(60) DEF IInv, WaitDead, ReturnStatus, MayWait, sharedVars,
       Return, Goto, ReturnInv, Exited, TypeOK, PCs, ChildInv, Loading, ReleaseInv,
       AliveCountExact
<1> QED BY <1>1, <1>2, <1>3 DEF IInv

LEMMA WaitBlockIInv ==
  ASSUME IInv, NEW p \in Procs, NEW c \in Procs, WaitBlock(p, c)
  PROVE  IInv'
<1>1. TypeOK'
  BY DEF IInv, WaitBlock, Goto, MayWait, history, TypeOK, PCs
<1>2. /\ MainInv' /\ LoadingInv' /\ ExecInv' /\ ChildInv'
      /\ ReleaseInv' /\ WaitInv' /\ ReturnInv' /\ AliveCountExact'
  BY SMTT(60) DEF IInv, WaitBlock, Goto, MayWait, history, MainInv, LoadingInv, Loading,
       ExecInv, InExec, ChildInv, Exited, ReleaseInv, WaitInv, ReturnInv,
       AliveCountExact, TypeOK, PCs
<1> QED BY <1>1, <1>2 DEF IInv

LEMMA WaitDownIInv ==
  ASSUME IInv, NEW p \in Procs, WaitDown(p)
  PROVE  IInv'
<1>1. TypeOK'
  BY SMTT(60) DEF IInv, WaitDown, ReturnStatus, Return, Goto, TypeOK, PCs, WaitInv, InExec,
       Exited
<1>2. /\ MainInv' /\ LoadingInv' /\ ExecInv' /\ ChildInv'
      /\ ReleaseInv' /\ WaitInv' /\ AliveCountExact'
  BY SMTT(60) DEF IInv, WaitDown, ReturnStatus, Return, Goto, MainInv, LoadingInv, Loading,
       ExecInv, InExec, ChildInv, Exited, ReleaseInv, WaitInv, AliveCountExact,
       TypeOK, PCs
<1>3. ReturnInv'
  BY SMTT(60) DEF IInv, WaitDown, ReturnStatus, Return, Goto, ReturnInv, Exited, TypeOK, PCs,
       WaitInv, InExec
<1> QED BY <1>1, <1>2, <1>3 DEF IInv

-----------------------------------------------------------------------------
LEMMA NextIInv == IInv /\ [Next]_vars => IInv'
<1> SUFFICES ASSUME IInv, [Next]_vars PROVE IInv'
  OBVIOUS
<1>1. ASSUME NEW p \in Procs, KernelStep(p) PROVE IInv'
  BY <1>1, ExecDownIInv, ExecCheckIInv, StartLoadIInv, StartAliveIInv,
     StartPushArgsIInv, StartUpIInv, StartFailedIInv, ExitDecIInv, ExitUpIInv, ExitChildIInv,
     ExitChildrenDoneIInv, ExitPagedirIInv, WaitDownIInv
     DEF KernelStep
<1>2. ASSUME NEW p \in Procs, UserStep(p) PROVE IInv'
  <2>1. CASE ExecNoSharedMem(p) \/ StartNoArgv(p) \/ Halt(p)
    BY <2>1, StoppedIInv DEF ExecNoSharedMem, StartNoArgv, Halt
  <2>2. CASE ~(ExecNoSharedMem(p) \/ StartNoArgv(p) \/ Halt(p))
    BY <1>2, <2>2, ExecNoThreadIInv, ExecCreateIInv, ExitIInv, KillIInv,
       WaitRefusedIInv, WaitDeadIInv, WaitBlockIInv
       DEF UserStep
  <2> QED BY <2>1, <2>2
<1>3. CASE MainDone
  BY <1>3, StoppedIInv DEF MainDone
<1>4. CASE UNCHANGED vars
  BY <1>4, StoppedIInv DEF vars, IInv, TypeOK
<1> QED BY <1>1, <1>2, <1>3, <1>4 DEF Next

(* Every reachable state satisfies the inductive invariant.                *)
LEMMA SpecIInv == Spec => []IInv
BY InitIInv, NextIInv, PTL DEF Spec

(* Types: in particular no semaphore of a shared_mem falls below zero, and *)
(* exec and wait only ever act on a child that exists.                     *)
THEOREM SpecTypeOK == Spec => []TypeOK
<1>1. IInv => TypeOK
  BY DEF IInv
<1> QED BY <1>1, SpecIInv, PTL

(* A child never reads its command line after the parent has freed it.     *)
THEOREM SpecCmdLine == Spec => []CmdLineOutlivesLoading
<1>1. IInv => CmdLineOutlivesLoading
  BY DEF IInv, LoadingInv, Loading, CmdLineOutlivesLoading
<1> QED BY <1>1, SpecIInv, PTL

(* alive_count counts exactly the shares that parent and child still hold. *)
THEOREM SpecAliveCount == Spec => []AliveCountExact
<1>1. IInv => AliveCountExact
  BY DEF IInv
<1> QED BY <1>1, SpecIInv, PTL

(* process_wait returns only the final status of a child that has exited.  *)
THEOREM SpecStatusIsFinal == Spec => []StatusIsFinal
<1>1. IInv => StatusIsFinal
  BY DEF IInv, ReturnInv, StatusIsFinal
<1> QED BY <1>1, SpecIInv, PTL

(* A sleeping parent has a child of its own that nobody else waits for and *)
(* that it has not released.                                               *)
THEOREM SpecSleeperOwnsChild == Spec => []SleeperOwnsChild
<1>1. IInv => SleeperOwnsChild
  <2> SUFFICES ASSUME IInv, NEW p \in Procs, pc[p] = "wait_down"
               PROVE  /\ target[p] \in child_relations[p] \ released
                      /\ \A q \in Procs \ {p} : target[q] # target[p]
    BY DEF SleeperOwnsChild
  <2>1. target[p] \in child_relations[p] \ released
    BY DEF IInv, WaitInv, ReleaseInv
  <2>2. target[p] \in Procs
    BY <2>1 DEF IInv, TypeOK
  <2>3. ASSUME NEW q \in Procs \ {p}, target[q] = target[p] PROVE FALSE
    BY <2>1, <2>2, <2>3, ProcessAssumption, SMTT(60) DEF IInv, WaitInv, ExecInv, ChildInv
  <2> QED BY <2>1, <2>3
<1> QED BY <1>1, SpecIInv, PTL

-----------------------------------------------------------------------------
(* Waking the waiter.                                                      *)

(* Only a child that was loaded and found its parent still there wakes it, *)
(* once, and a status is returned only for such a child.                   *)
Woken(c) ==
  /\ sema_wait[c] <= 1
  /\ sema_wait[c] > 0 => Exited(c) /\ pc[c] # "exit_up"
  /\ c \in released => loaded[c] = "ok" \/ Exited(c)
  /\ pc[c] = "exit_up" \/ sema_wait[c] > 0 \/ reaped[c] > 0 =>
       Exited(c) /\ loaded[c] = "ok"
  /\ waited[c] /\ reaped[c] > 0 => pc[c] # "exit_up" /\ sema_wait[c] = 0

WakeInv == \A c \in Procs : Woken(c)

(* What Woken reads, when a step leaves it alone.                          *)
SameShare(c) ==
  /\ sema_wait'[c] = sema_wait[c] /\ loaded'[c] = loaded[c] /\ waited'[c] = waited[c]
  /\ reaped'[c] = reaped[c] /\ (c \in released' <=> c \in released)

LEMMA SameWoken ==
  ASSUME NEW c \in Procs, Woken(c), SameShare(c),
         Exited(c)' <=> Exited(c), pc'[c] = "exit_up" <=> pc[c] = "exit_up"
  PROVE  Woken(c)'
BY DEF Woken, SameShare

(* The child that process_wait looks at, when its parent is still there.   *)
LEMMA ChildShare ==
  ASSUME IInv, NEW p \in Procs, NEW c \in child_relations[p], pc[p] \in {"user", "wait_down"}
  PROVE  /\ c \in Procs /\ c \notin released
         /\ Exited(c) /\ loaded[c] = "ok" => alive_count[c] = 1
         /\ alive_count[c] = 1 => Exited(c) /\ loaded[c] = "ok"
<1>1. c \in Procs \ {Main} /\ pc[c] # "unborn" /\ ~Loading(c) /\ c \notin released
  BY DEF IInv, TypeOK, ChildInv, ReleaseInv
<1>2. loaded[c] = "ok" \/ Exited(c)
  BY DEF IInv, ChildInv
<1>3. pc[c] # "incr"
  BY <1>1 DEF Loading
<1> QED BY <1>1, <1>2, <1>3, SMTT(60) DEF IInv, AliveCountExact

LEMMA InitWakeInv == Init => WakeInv
BY SMTT(60) DEF Init, WakeInv, Woken, Exited

LEMMA ExecWakeInv ==
  ASSUME IInv, WakeInv, NEW p \in Procs,
         \/ ExecNoThread(p) \/ ExecDown(p) \/ ExecCheck(p)
         \/ \E c \in Procs : ExecCreate(p, c)
  PROVE  WakeInv'
<1> SUFFICES ASSUME NEW d \in Procs PROVE Woken(d)'
  BY DEF WakeInv
<1>0. Woken(d) /\ pc \in [Procs -> PCs]
  BY DEF WakeInv, IInv, TypeOK
<1>1. CASE ExecNoThread(p)
  BY <1>0, <1>1, SameWoken DEF ExecNoThread, MayExec, Return, Goto, sharedVars, history,
       SameShare, Exited
<1>2. CASE ExecDown(p)
  BY <1>0, <1>2, SameWoken DEF ExecDown, Goto, history, SameShare, Exited
<1>3. CASE ExecCheck(p)
  BY <1>0, <1>3, SameWoken DEF ExecCheck, Return, Goto, history, SameShare, Exited
<1>4. ASSUME NEW c \in Procs, ExecCreate(p, c) PROVE Woken(d)'
  <2>1. CASE d # c
    <3>1. SameShare(d)
      BY <1>4, <2>1, SMTT(60) DEF ExecCreate, history, SameShare, IInv, TypeOK
    <3> QED BY <1>0, <1>4, <2>1, <3>1, SameWoken DEF ExecCreate, MayExec, Exited
  <2>2. CASE d = c
    <3>1. reaped'[c] = 0 /\ c \notin released' /\ sema_wait'[c] = 0 /\ pc'[c] = "load"
      <4>1. reaped[c] = 0 /\ c \notin released
        BY <1>0, <1>4, <2>2, SMTT(60) DEF ExecCreate, Woken, Exited, IInv, TypeOK, LoadingInv
      <4> QED BY <1>0, <1>4, <4>1, SMTT(60) DEF ExecCreate, MayExec, history, IInv, TypeOK
    <3> QED BY <2>2, <3>1, SMTT(60) DEF Woken, Exited
  <2> QED BY <2>1, <2>2
<1> QED BY <1>1, <1>2, <1>3, <1>4

LEMMA StartWakeInv ==
  ASSUME IInv, WakeInv, NEW p \in Procs,
         \/ StartLoad(p) \/ StartAlive(p) \/ StartPushArgs(p) \/ StartUp(p) \/ StartFailed(p)
         \/ Kill(p) \/ \E status \in Statuses : Exit(p, status)
  PROVE  WakeInv'
<1> SUFFICES ASSUME NEW d \in Procs PROVE Woken(d)'
  BY DEF WakeInv
<1>0. Woken(d) /\ pc \in [Procs -> PCs]
  BY DEF WakeInv, IInv, TypeOK
<1>1. CASE StartLoad(p)
  <2>1. CASE d # p
    <3>1. SameShare(d)
      BY <1>1, <2>1, SMTT(60) DEF StartLoad, sharedVars, SameShare, IInv, TypeOK
    <3> QED BY <1>0, <1>1, <2>1, <3>1, SameWoken DEF StartLoad, Goto, Exited
  <2>2. CASE d = p
    <3>1. /\ sema_wait'[p] = 0 /\ reaped'[p] = 0 /\ p \notin released'
          /\ pc'[p] \in {"incr", "load_failed"}
      <4>1. p \notin released /\ ~(sema_wait[p] > 0) /\ ~(reaped[p] > 0)
        <5>1. pc[p] = "load" /\ loaded[p] = "none" /\ ~Exited(p)
          BY <1>1 DEF StartLoad, Exited, IInv, LoadingInv
        <5> QED BY <1>0, <2>2, <5>1 DEF Woken
      <4>2. sema_wait[p] = 0 /\ reaped[p] = 0
        BY <4>1, SMTT(60) DEF IInv, TypeOK
      <4> QED BY <1>0, <1>1, <4>1, <4>2 DEF StartLoad, Goto, sharedVars
    <3> QED BY <2>2, <3>1, SMTT(60) DEF Woken, Exited
  <2> QED BY <2>1, <2>2
<1>2. CASE StartAlive(p) \/ StartPushArgs(p) \/ StartUp(p) \/ StartFailed(p)
  BY <1>0, <1>2, SameWoken DEF StartAlive, StartPushArgs, StartUp, StartFailed, Goto,
       sharedVars, history, SameShare, Exited
<1>3. CASE Kill(p) \/ \E status \in Statuses : Exit(p, status)
  BY <1>0, <1>3, SameWoken DEF Kill, Exit, Goto, sharedVars, history, SameShare, Exited
<1> QED BY <1>1, <1>2, <1>3

LEMMA ExitWakeInv ==
  ASSUME IInv, WakeInv, NEW p \in Procs,
         \/ ExitDec(p) \/ ExitUp(p) \/ ExitChildrenDone(p) \/ ExitPagedir(p)
         \/ \E c \in Procs : ExitChild(p, c)
  PROVE  WakeInv'
<1> SUFFICES ASSUME NEW d \in Procs PROVE Woken(d)'
  BY DEF WakeInv
<1>0. Woken(d) /\ pc \in [Procs -> PCs]
  BY DEF WakeInv, IInv, TypeOK
<1>1. CASE ExitDec(p)
  <2>0. SameShare(d)
    BY <1>1 DEF ExitDec, history, SameShare
  <2>1. CASE d # p
    BY <1>0, <1>1, <2>0, <2>1, SameWoken DEF ExitDec, Goto, Exited
  <2>2. CASE d = p
    <3>1. p # Main /\ pc[p] = "exit_dec" /\ ~Exited(p)
      BY <1>1 DEF ExitDec, Exited, IInv, MainInv
    <3>2. ~(sema_wait[p] > 0) /\ ~(reaped[p] > 0) /\ (p \in released => loaded[p] = "ok")
      BY <1>0, <2>2, <3>1 DEF Woken
    <3>3. sema_wait'[p] = 0 /\ reaped'[p] = 0 /\ loaded'[p] = loaded[p]
      BY <2>0, <2>2, <3>2, SMTT(60) DEF SameShare, IInv, TypeOK
    <3>4. Exited(p)'
      BY <1>0, <1>1 DEF ExitDec, Goto, Exited
    <3>5. pc'[p] = "exit_up" => loaded[p] = "ok"
      <4>1. alive_count[p] \in Int /\ loaded[p] \in {"none", "ok", "failed"}
        BY DEF IInv, TypeOK
      <4>2. pc'[p] = "exit_up" => alive_count[p] - 1 # 0
        BY <1>0, <1>1 DEF ExitDec, Goto, IInv, TypeOK
      <4>3. loaded[p] # "ok" => alive_count[p] = 1
        BY <3>1, <3>2, SMTT(60) DEF IInv, AliveCountExact
      <4> QED BY <4>1, <4>2, <4>3, SMTT(60)
    <3> QED BY <2>2, <3>3, <3>4, <3>5, SMTT(60) DEF Woken
  <2> QED BY <2>1, <2>2
<1>2. CASE ExitUp(p)
  <2>1. CASE d # p
    <3>1. SameShare(d)
      BY <1>2, <2>1 DEF ExitUp, sema_up, history, SameShare, IInv, TypeOK
    <3> QED BY <1>0, <1>2, <2>1, <3>1, SameWoken DEF ExitUp, Goto, Exited
  <2>2. CASE d = p
    <3>1. pc[p] = "exit_up" /\ Exited(p)
      BY <1>2 DEF ExitUp, Exited
    <3>2. /\ ~(sema_wait[p] > 0) /\ loaded[p] = "ok" /\ ~(waited[p] /\ reaped[p] > 0)
      BY <1>0, <2>2, <3>1 DEF Woken
    <3>3. sema_wait'[p] = 1
      BY <1>2, <3>2, SMTT(60) DEF ExitUp, sema_up, IInv, TypeOK
    <3>4. Exited(p)' /\ pc'[p] # "exit_up"
      BY <1>0, <1>2 DEF ExitUp, Goto, Exited
    <3>5. loaded' = loaded /\ waited' = waited /\ reaped' = reaped
      BY <1>2 DEF ExitUp, history
    <3> QED BY <2>2, <3>2, <3>3, <3>4, <3>5, SMTT(60) DEF Woken
  <2> QED BY <2>1, <2>2
<1>3. CASE ExitChildrenDone(p) \/ ExitPagedir(p)
  BY <1>0, <1>3, SameWoken DEF ExitChildrenDone, ExitPagedir, Goto, sharedVars, history,
       SameShare, Exited
<1>4. ASSUME NEW c \in Procs, ExitChild(p, c) PROVE Woken(d)'
  <2>1. CASE d # c
    <3>1. SameShare(d)
      BY <1>4, <2>1 DEF ExitChild, SameShare
    <3> QED BY <1>0, <1>4, <3>1, SameWoken DEF ExitChild, Exited
  <2>2. CASE d = c
    <3>1. loaded[c] = "ok" \/ Exited(c)
      BY <1>4 DEF ExitChild, IInv, ReleaseInv, ChildInv
    <3>2. /\ pc' = pc /\ sema_wait' = sema_wait /\ loaded' = loaded
          /\ waited' = waited /\ reaped' = reaped
      BY <1>4 DEF ExitChild
    <3> QED BY <1>0, <2>2, <3>1, <3>2 DEF Woken, Exited
  <2> QED BY <2>1, <2>2
<1> QED BY <1>1, <1>2, <1>3, <1>4

LEMMA WaitWakeInv ==
  ASSUME IInv, WakeInv, NEW p \in Procs,
         \/ \E tid \in Procs \cup {TID_ERROR} : WaitRefused(p, tid)
         \/ \E c \in Procs : WaitDead(p, c) \/ WaitBlock(p, c)
         \/ WaitDown(p)
  PROVE  WakeInv'
<1> SUFFICES ASSUME NEW d \in Procs PROVE Woken(d)'
  BY DEF WakeInv
<1>0. Woken(d) /\ pc \in [Procs -> PCs]
  BY DEF WakeInv, IInv, TypeOK
<1>1. ASSUME NEW tid \in Procs \cup {TID_ERROR}, WaitRefused(p, tid) PROVE Woken(d)'
  BY <1>0, <1>1, SameWoken DEF WaitRefused, MayWait, Return, Goto, sharedVars, history,
       SameShare, Exited
<1>2. ASSUME NEW c \in Procs, WaitDead(p, c) PROVE Woken(d)'
  <2>1. /\ c \in child_relations[p] /\ pc[p] = "user" /\ alive_count[c] = 1 /\ ~waited[c]
        /\ pc' = [pc EXCEPT ![p] = "user"]
        /\ reaped' = [reaped EXCEPT ![c] = IF @ < 2 THEN @ + 1 ELSE @]
        /\ sema_wait' = sema_wait /\ waited' = waited /\ loaded' = loaded /\ released' = released
    BY <1>2 DEF WaitDead, MayWait, ReturnStatus, Return, Goto, sharedVars
  <2>2. Exited(d)' <=> Exited(d)
    BY <1>0, <2>1 DEF Exited
  <2>3. pc'[d] = "exit_up" <=> pc[d] = "exit_up"
    BY <1>0, <2>1
  <2>4. CASE d # c
    <3>1. SameShare(d)
      BY <2>1, <2>4 DEF SameShare, IInv, TypeOK
    <3> QED BY <1>0, <2>2, <2>3, <3>1, SameWoken
  <2>5. CASE d = c
    <3>1. Exited(c) /\ loaded[c] = "ok"
      BY <2>1, ChildShare
    <3> QED BY <1>0, <2>1, <2>2, <2>3, <2>5, <3>1 DEF Woken
  <2> QED BY <2>4, <2>5
<1>3. ASSUME NEW c \in Procs, WaitBlock(p, c) PROVE Woken(d)'
  <2>1. /\ c \in child_relations[p] /\ pc[p] = "user" /\ alive_count[c] # 1
        /\ pc' = [pc EXCEPT ![p] = "wait_down"]
        /\ waited' = [waited EXCEPT ![c] = TRUE]
        /\ sema_wait' = sema_wait /\ reaped' = reaped /\ loaded' = loaded /\ released' = released
    BY <1>3 DEF WaitBlock, MayWait, Goto, history
  <2>2. Exited(d)' <=> Exited(d)
    BY <1>0, <2>1 DEF Exited
  <2>3. pc'[d] = "exit_up" <=> pc[d] = "exit_up"
    BY <1>0, <2>1
  <2>4. CASE d # c
    <3>1. SameShare(d)
      BY <2>1, <2>4 DEF SameShare, IInv, TypeOK
    <3> QED BY <1>0, <2>2, <2>3, <3>1, SameWoken
  <2>5. CASE d = c
    <3>1. ~(Exited(c) /\ loaded[c] = "ok")
      BY <2>1, ChildShare
    <3>2. ~(reaped[d] > 0)
      BY <1>0, <2>5, <3>1 DEF Woken
    <3> QED BY <1>0, <2>1, <2>2, <2>3, <3>2 DEF Woken
  <2> QED BY <2>4, <2>5
<1>4. CASE WaitDown(p)
  <2> DEFINE c == target[p]
  <2>1. /\ pc[p] = "wait_down" /\ sema_wait[c] > 0
        /\ pc' = [pc EXCEPT ![p] = "user"]
        /\ sema_wait' = [sema_wait EXCEPT ![c] = @ - 1]
        /\ reaped' = [reaped EXCEPT ![c] = IF @ < 2 THEN @ + 1 ELSE @]
        /\ waited' = waited /\ loaded' = loaded /\ released' = released
    BY <1>4 DEF WaitDown, ReturnStatus, Return, Goto
  <2>2. Exited(d)' <=> Exited(d)
    BY <1>0, <2>1 DEF Exited
  <2>3. pc'[d] = "exit_up" <=> pc[d] = "exit_up"
    BY <1>0, <2>1
  <2>4. CASE d # c
    <3>1. SameShare(d)
      BY <2>1, <2>4 DEF SameShare, IInv, TypeOK
    <3> QED BY <1>0, <2>2, <2>3, <3>1, SameWoken
  <2>5. CASE d = c
    <3>1. /\ Exited(d) /\ loaded[d] = "ok" /\ pc[d] # "exit_up" /\ sema_wait[d] <= 1
      BY <1>0, <2>1, <2>5 DEF Woken
    <3>2. sema_wait'[d] = 0
      BY <2>1, <2>5, <3>1, SMTT(60) DEF IInv, TypeOK
    <3> QED BY <2>1, <2>2, <2>3, <3>1, <3>2, SMTT(60) DEF Woken
  <2> QED BY <2>4, <2>5
<1> QED BY <1>1, <1>2, <1>3, <1>4

LEMMA NextWakeInv == IInv /\ WakeInv /\ [Next]_vars => WakeInv'
<1> SUFFICES ASSUME IInv, WakeInv, [Next]_vars PROVE WakeInv'
  OBVIOUS
<1>0. ASSUME UNCHANGED <<threadVars, sharedVars, history>> PROVE WakeInv'
  BY <1>0 DEF WakeInv, Woken, Exited, threadVars, sharedVars, history
<1>1. ASSUME NEW p \in Procs, KernelStep(p) PROVE WakeInv'
  BY <1>1, ExecWakeInv, StartWakeInv, ExitWakeInv, WaitWakeInv DEF KernelStep
<1>2. ASSUME NEW p \in Procs, UserStep(p) PROVE WakeInv'
  <2>1. CASE ExecNoSharedMem(p) \/ StartNoArgv(p) \/ Halt(p)
    BY <1>0, <2>1 DEF ExecNoSharedMem, StartNoArgv, Halt
  <2>2. CASE ~(ExecNoSharedMem(p) \/ StartNoArgv(p) \/ Halt(p))
    BY <1>2, <2>2, ExecWakeInv, StartWakeInv, WaitWakeInv DEF UserStep
  <2> QED BY <2>1, <2>2
<1>3. CASE MainDone
  BY <1>0, <1>3 DEF MainDone
<1>4. CASE UNCHANGED vars
  BY <1>0, <1>4 DEF vars
<1> QED BY <1>1, <1>2, <1>3, <1>4 DEF Next

(* A process wakes its waiter at most once, only after it has left         *)
(* alive_count, and not when its parent gave up its share before: the      *)
(* sema_up (&sema_wait) of process_exit.                                   *)
THEOREM SpecWakeupOnlyByExit == Spec => []WakeupOnlyByExit
<1>1. IInv /\ WakeInv => WakeupOnlyByExit
  <2> SUFFICES ASSUME IInv, WakeInv, NEW c \in Procs
               PROVE  /\ sema_wait[c] + (IF waited[c] /\ reaped[c] > 0 THEN 1 ELSE 0) <= 1
                      /\ sema_wait[c] > 0 => Exited(c) /\ pc[c] # "exit_up"
    BY DEF WakeupOnlyByExit
  <2>1. Woken(c) /\ sema_wait[c] \in Nat
    BY DEF WakeInv, IInv, TypeOK
  <2> QED BY <2>1, SMTT(60) DEF Woken
<1>2. Init => IInv /\ WakeInv
  BY InitIInv, InitWakeInv
<1>3. IInv /\ WakeInv /\ [Next]_vars => (IInv /\ WakeInv)'
  BY NextIInv, NextWakeInv
<1> QED BY <1>1, <1>2, <1>3, PTL DEF Spec

(* The protocol of process_wait and process_exit as a whole.               *)
THEOREM SpecWaitProtocol == Spec => []WaitProtocol
BY SpecTypeOK, SpecSleeperOwnsChild, SpecWakeupOnlyByExit, PTL DEF WaitProtocol

-----------------------------------------------------------------------------
(* Only process_execute itself ends the check of alive_count.              *)
LEMMA OnlyExecCheck ==
  ASSUME IInv, Next, NEW p \in Procs, pc[p] = "exec_check", pc'[p] = "user"
  PROVE  ExecCheck(p)
<1>0. pc \in [Procs -> PCs]
  BY DEF IInv, TypeOK
<1>1. ASSUME NEW q \in Procs, KernelStep(q), ~ExecCheck(p) PROVE FALSE
  <2>1. CASE ExecCheck(q)
    BY <1>0, <1>1, <2>1 DEF ExecCheck, Return, Goto
  <2>2. CASE ExecDown(q) \/ StartLoad(q) \/ StartAlive(q) \/ StartPushArgs(q) \/ StartUp(q)
             \/ StartFailed(q)
    BY <1>0, <2>2 DEF ExecDown, StartLoad, StartAlive, StartPushArgs, StartUp, StartFailed, Goto
  <2>3. CASE ExitDec(q) \/ ExitUp(q) \/ ExitChildrenDone(q) \/ ExitPagedir(q)
             \/ \E c \in Procs : ExitChild(q, c)
    BY <1>0, <2>3 DEF ExitDec, ExitUp, ExitChildrenDone, ExitPagedir, ExitChild, Goto
  <2>4. CASE WaitDown(q)
    BY <1>0, <2>4 DEF WaitDown, ReturnStatus, Return, Goto
  <2> QED BY <1>1, <2>1, <2>2, <2>3, <2>4 DEF KernelStep
<1>2. ASSUME NEW q \in Procs, UserStep(q) PROVE FALSE
  <2>1. CASE ExecNoSharedMem(q) \/ StartNoArgv(q) \/ Halt(q)
    BY <2>1 DEF ExecNoSharedMem, StartNoArgv, Halt, threadVars
  <2>2. CASE ExecNoThread(q) \/ Kill(q) \/ \E status \in Statuses : Exit(q, status)
    BY <1>0, <2>2 DEF ExecNoThread, Kill, Exit, MayExec, Return, Goto
  <2>3. ASSUME NEW c \in Procs, ExecCreate(q, c) PROVE FALSE
    BY <1>0, <2>3 DEF ExecCreate, MayExec
  <2>4. ASSUME NEW tid \in Procs \cup {TID_ERROR}, WaitRefused(q, tid) PROVE FALSE
    BY <1>0, <2>4 DEF WaitRefused, MayWait, Return, Goto
  <2>5. ASSUME NEW c \in Procs, WaitDead(q, c) \/ WaitBlock(q, c) PROVE FALSE
    BY <1>0, <2>5 DEF WaitDead, WaitBlock, MayWait, ReturnStatus, Return, Goto
  <2> QED BY <1>2, <2>1, <2>2, <2>3, <2>4, <2>5 DEF UserStep
<1>3. CASE MainDone
  BY <1>3 DEF MainDone, threadVars
<1> QED BY <1>1, <1>2, <1>3 DEF Next, vars, threadVars

(* exec returns the tid exactly of a program that was loaded, as long as   *)
(* the child has not exited before its parent looks at alive_count.        *)
THEOREM SpecExecVerdict == Spec => ExecVerdict
<1>1. ASSUME IInv, [Next]_vars, NEW p \in Procs, pc[p] = "exec_check", pc'[p] = "user",
             ~Exited(target[p])
      PROVE  ret'[p].val = target[p] <=> loaded[target[p]] = "ok"
  <2> DEFINE c == target[p]
  <2>1. Next
    BY <1>1 DEF vars, threadVars
  <2>2. ExecCheck(p)
    BY <1>1, <2>1, OnlyExecCheck
  <2>3. /\ c \in Procs \ {Main} /\ pc[c] # "unborn" /\ c \notin released /\ ~Loading(c)
    BY <1>1 DEF IInv, ExecInv, InExec, LoadingInv
  <2>4. alive_count[c] = 1 <=> loaded[c] # "ok"
    BY <1>1, <2>3, SMTT(60) DEF IInv, AliveCountExact, Loading
  <2>5. ret'[p].val = IF alive_count[c] = 1 THEN TID_ERROR ELSE c
    <3> DEFINE v == IF alive_count[c] = 1 THEN TID_ERROR ELSE c
    <3>1. ret' = [ret EXCEPT ![p] = [call |-> "exec", child |-> c, val |-> v]]
      BY <2>2 DEF ExecCheck, Return
    <3> HIDE DEF v
    <3>2. ret'[p].val = v
      BY <1>1, <3>1 DEF IInv, TypeOK
    <3> QED BY <3>2 DEF v
  <2> QED BY <2>3, <2>4, <2>5, ProcessAssumption
<1>2. IInv /\ [Next]_vars =>
        [\A p \in Procs : LET c == target[p] IN
           pc[p] = "exec_check" /\ pc'[p] = "user" /\ ~Exited(c) =>
             (ret'[p].val = c <=> loaded[c] = "ok")]_vars
  BY <1>1
<1> QED BY <1>2, SpecIInv, PTL DEF Spec, ExecVerdict
=============================================================================
