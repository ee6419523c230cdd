----------------------------- MODULE IdeProofs -----------------------------
(***************************************************************************)
(* Proofs about the disk driver, for any number of channels and threads,   *)
(* any disks, and any number of errors and of interrupts that belong to no *)
(* command.                                                                *)
(***************************************************************************)
EXTENDS Ide, TLAPS

(* Zenon proves a leaf unless the leaf names another prover.               *)
USE ZenonT(60)

Contents == Values \cup {Blank}
SectorNos == 0..(Capacity - 1)
Commands == [op : {"read", "write", "identify", "store"}, sector : SectorNos]
BootStates == [at : {"reset", "check", "identify", "scan", "done"}, disk : Disks]
PCs == {"idle", "lock", "idle1", "idle2", "issue", "down", "busy", "unlock"}

TypeOK ==
  /\ status \in [Disks -> {"ready", "busy", "drq", "hung"}]
  /\ command \in [Disks -> Commands \cup {NONE}]
  /\ data \in [Disks -> Contents]
  /\ disk \in [Disks -> [SectorNos -> Contents]]
  /\ acked \in [Disks -> [SectorNos -> Contents]]
  /\ selected \in [Channels -> Disks]
  /\ lock \in [Channels -> Agents \cup {NONE}]
  /\ is_ata \subseteq Disks /\ all_blocks \subseteq Disks
  /\ boot \in BootStates
  /\ pc \in [Agents -> PCs]
  /\ req \in [Agents -> Requests \cup {NONE}]

(* A disk that the driver has found, and a channel it has not come to.     *)
Known(d) == d \in is_ata \cup all_blocks
Fresh(c) == \A d \in Disks : Chan(d) = c => status[d] = "ready" /\ ~Known(d)

(* The threads wait for the end of ide_init, which takes the channels in   *)
(* turn, and a disk that hangs is not used.                                *)
BootInv ==
  /\ boot.at # "done" \/ pc[Main] # "idle" => \A t \in Threads : pc[t] = "idle"
  /\ boot.at \in {"check", "scan"} => pc[Main] = "idle"
  /\ \A c \in Channels : c > Chan(boot.disk) => Fresh(c)
  /\ boot.at = "reset" => Fresh(Chan(boot.disk))
  /\ boot.at = "check" =>
       \A d \in Disks : Chan(d) = Chan(boot.disk) => status[d] \in {"ready", "hung"}
  /\ boot.at = "scan" => boot.disk \in all_blocks
  /\ \A d \in Disks : Known(d) => status[d] # "hung"

(* Requests are for disks that were found; only ide_init identifies them,  *)
(* and any other request that is past the lock holds it.                   *)
Requested(t) ==
  /\ pc[t] = "idle" <=> req[t] = NONE
  /\ pc[t] # "idle" =>
       /\ Known(req[t].disk)
       /\ req[t].op = "identify" => t = Main /\ boot.at = "identify" /\ pc[t] # "lock"
       /\ req[t].op = "identify" => req[t].disk = boot.disk
       /\ req[t].op = "write" => req[t].buf \in Values
       /\ pc[t] # "lock" /\ req[t].op # "identify" => lock[Chan(req[t].disk)] = t

RequestInv == \A t \in Agents : Requested(t)

(* Only the selected device of a channel has a command, and it offers the  *)
(* sector that it was asked for.                                           *)
DeviceInv ==
  /\ \A c \in Channels : Chan(selected[c]) = c
  /\ \A d \in Disks : status[d] \in {"busy", "drq"} =>
       /\ selected[Chan(d)] = d
       /\ command[d] \in Commands
       /\ status[d] = "drq" => command[d].op # "store"
       /\ status[d] = "drq" /\ command[d].op = "read" => data[d] = disk[d][command[d].sector]

(* What a sector has once the device is done with its command.             *)
Effective(d, s) ==
  IF status[d] = "busy" /\ command[d].op = "store" /\ command[d].sector = s
  THEN data[d] ELSE disk[d][s]

(* What has become of a request at each place of the driver.               *)
Progressed(t) ==
  LET r == req[t]
      d == r.disk
  IN /\ pc[t] \in {"idle2", "issue", "busy", "down", "unlock"} => selected[Chan(d)] = d
     /\ pc[t] = "issue" => status[d] = "ready"
     /\ pc[t] = "busy" \/ (pc[t] = "down" /\ r.op # "write") =>
          status[d] = "ready" \/ command[d] = [op |-> r.op, sector |-> r.sector]
     /\ pc[t] \in {"down", "unlock"} /\ r.op = "write" => Effective(d, r.sector) = r.buf
     /\ pc[t] = "unlock" /\ r.op = "read" => r.buf = acked[d][r.sector]

ProgressInv == \A t \in Agents : Progressed(t)

(* t has given the device the new contents of sector s.                    *)
Writes(t, d, s) ==
  /\ pc[t] \in {"down", "unlock"}
  /\ req[t].op = "write" /\ req[t].disk = d /\ req[t].sector = s

(* Every sector has what the last write that returned wrote, or what the   *)
(* write that is about to return wrote.                                    *)
AckedInv ==
  \A d \in Disks : \A s \in SectorNos :
    acked[d][s] = Effective(d, s) \/ \E t \in Agents : Writes(t, d, s)

IInv == TypeOK /\ BootInv /\ RequestInv /\ DeviceInv /\ ProgressInv /\ AckedInv
-----------------------------------------------------------------------------
(* Two threads are never past the lock of the same channel.                *)
LEMMA Alone ==
  ASSUME IInv, NEW t \in Agents, NEW u \in Agents,
         pc[t] \notin {"idle", "lock"}, pc[u] \notin {"idle", "lock"},
         Chan(req[t].disk) = Chan(req[u].disk)
  PROVE  t = u
<1>1. CASE req[t].op = "identify" \/ req[u].op = "identify"
  BY <1>1 DEF IInv, RequestInv, Requested, BootInv, Agents
<1>2. CASE req[t].op # "identify" /\ req[u].op # "identify"
  BY <1>2, SMTT(60) DEF IInv, RequestInv, Requested
<1> QED BY <1>1, <1>2

(* A request that is under way, and the disk that it is for.               *)
LEMMA RequestType ==
  ASSUME IInv, NEW t \in Agents, pc[t] # "idle"
  PROVE  /\ req[t] \in Requests /\ req[t].disk \in Disks /\ req[t].sector \in SectorNos
         /\ Chan(req[t].disk) \in Channels /\ status[req[t].disk] # "hung"
<1>1. req[t] \in Requests
  BY SMTT(60) DEF IInv, TypeOK, RequestInv, Requested
<1> QED BY <1>1 DEF IInv, BootInv, RequestInv, Requested, Requests, SectorNos, Disks, Chan

(* A step that moves no data and lets no write return.                     *)
LEMMA SameAcked ==
  ASSUME IInv, UNCHANGED <<status, command, data, disk, acked>>,
         \A t \in Agents : \A d \in Disks : \A s \in SectorNos : Writes(t, d, s) => Writes(t, d, s)'
  PROVE  AckedInv'
BY DEF IInv, AckedInv, Effective

LEMMA InitIInv == Init => IInv
<1> SUFFICES ASSUME Init PROVE IInv
  OBVIOUS
<1> USE IdeAssumption
<1>1. TypeOK
  BY SMTT(60) DEF Init, TypeOK, PCs, Channels, Disks, Contents, SectorNos, BootStates
<1>2. BootInv
  BY DEF Init, BootInv, Fresh, Known, Agents
<1>3. RequestInv /\ ProgressInv
  BY DEF Init, RequestInv, Requested, ProgressInv, Progressed
<1>4. DeviceInv
  BY DEF Init, DeviceInv, Chan
<1>5. AckedInv
  BY SMTT(60) DEF Init, AckedInv, Effective
<1> QED BY <1>1, <1>2, <1>3, <1>4, <1>5 DEF IInv

-----------------------------------------------------------------------------
(* Taking the lock, and selecting the device.                              *)
LEMMA LockIInv ==
  ASSUME IInv, NEW t \in Agents, Lock(t) PROVE IInv'
<1> USE DEF Lock, Goto, At, deviceVars, bootVars
<1>0. Chan(req[t].disk) \in Channels /\ req[t].op # "identify"
  BY RequestType DEF IInv, RequestInv, Requested
<1>1. TypeOK'
  BY <1>0 DEF IInv, TypeOK, PCs
<1>2. BootInv'
  BY DEF IInv, TypeOK, BootInv, Fresh, Known, Agents
<1>3. RequestInv'
  BY <1>0, IdeAssumption, SMTT(60) DEF IInv, TypeOK, RequestInv, Requested, Known
<1>4. DeviceInv'
  BY DEF IInv, DeviceInv
<1>5. ProgressInv'
  BY SMTT(60) DEF IInv, TypeOK, ProgressInv, Progressed, Effective
<1>6. AckedInv'
  BY SameAcked DEF IInv, TypeOK, Writes
<1> QED BY <1>1, <1>2, <1>3, <1>4, <1>5, <1>6 DEF IInv

LEMMA WaitIdleIInv ==
  ASSUME IInv, NEW t \in Agents, WaitIdle(t) PROVE IInv'
<1> USE DEF WaitIdle, wait_until_idle, Goto, At, bootVars
<1>0. /\ req[t].disk \in Disks /\ Chan(req[t].disk) \in Channels
      /\ pc[t] \in {"idle1", "idle2"} /\ status[req[t].disk] # "hung"
  BY RequestType
<1>1. TypeOK'
  BY <1>0 DEF IInv, TypeOK, PCs
<1>2. BootInv'
  BY <1>0 DEF IInv, TypeOK, BootInv, Fresh, Known, Agents
<1>3. RequestInv'
  BY <1>0, SMTT(60) DEF IInv, TypeOK, RequestInv, Requested, Known
<1>4. DeviceInv'
  BY <1>0, SMTT(60) DEF IInv, TypeOK, DeviceInv
<1>5. ProgressInv'
  <2> SUFFICES ASSUME NEW u \in Agents PROVE Progressed(u)'
    BY DEF ProgressInv
  <2>1. CASE u = t
    BY <1>0, <2>1 DEF IInv, TypeOK, ProgressInv, Progressed
  <2>2. CASE u # t
    <3>1. pc[u] \in {"idle2", "issue", "busy", "down", "unlock"} =>
            Chan(req[u].disk) \in Channels \ {Chan(req[t].disk)}
      BY <1>0, <2>2, Alone, RequestType
    <3> QED BY <1>0, <2>2, <3>1 DEF IInv, TypeOK, ProgressInv, Progressed, Effective
  <2> QED BY <2>1, <2>2
<1>6. AckedInv'
  BY <1>0, SameAcked DEF IInv, TypeOK, Writes
<1> QED BY <1>1, <1>2, <1>3, <1>4, <1>5, <1>6 DEF IInv

-----------------------------------------------------------------------------
(* A step of t that changes nothing on the channels of other requests.     *)
LEMMA OthersProgress ==
  ASSUME IInv, NEW t \in Agents, pc[t] \notin {"idle", "lock"},
         \A u \in Agents : u # t => pc'[u] = pc[u] /\ req'[u] = req[u],
         \A d \in Disks : Chan(d) # Chan(req[t].disk) =>
           /\ status'[d] = status[d] /\ command'[d] = command[d] /\ data'[d] = data[d]
           /\ disk'[d] = disk[d] /\ acked'[d] = acked[d],
         selected' = selected, Progressed(t)'
  PROVE  ProgressInv'
<1> SUFFICES ASSUME NEW u \in Agents, u # t PROVE Progressed(u)'
  BY DEF ProgressInv
<1>1. pc[u] \in {"idle2", "issue", "busy", "down", "unlock"} =>
        req[u].disk \in Disks /\ Chan(req[u].disk) # Chan(req[t].disk)
  BY Alone, RequestType
<1> QED BY <1>1, SMTT(60) DEF IInv, ProgressInv, Progressed, Effective

(* issue_pio_command: the device is ready, so the command reaches it.      *)
LEMMA IssueIInv ==
  ASSUME IInv, NEW t \in Agents, Issue(t) PROVE IInv'
<1> DEFINE d == req[t].disk
<1> USE DEF Issue, Goto, At, bootVars
<1>0. /\ d \in Disks /\ Chan(d) \in Channels /\ selected[Chan(d)] = d /\ status[d] = "ready"
      /\ req[t].sector \in SectorNos /\ req[t].op \in {"read", "write", "identify"}
      /\ Known(d)
  BY RequestType DEF IInv, ProgressInv, Progressed, Requests, RequestInv, Requested
<1>a. [op |-> req[t].op, sector |-> req[t].sector] \in Commands
  BY <1>0 DEF Commands
<1>b. /\ status' = [status EXCEPT ![d] = "busy"]
      /\ command' = [command EXCEPT ![d] = [op |-> req[t].op, sector |-> req[t].sector]]
      /\ pc' = [pc EXCEPT ![t] = IF req[t].op = "write" THEN "busy" ELSE "down"]
      /\ UNCHANGED <<data, disk, acked, selected, lock, is_ata, all_blocks, boot, req>>
  BY <1>0
<1>1. TypeOK'
  BY <1>0, <1>a, <1>b DEF IInv, TypeOK, PCs
<1>2. BootInv'
  BY <1>0, <1>b, SMTT(60) DEF IInv, TypeOK, BootInv, Fresh, Known, Agents, Issue
<1>3. RequestInv'
  BY <1>0, <1>b, SMTT(60) DEF IInv, TypeOK, RequestInv, Requested, Known
<1>4. DeviceInv'
  BY <1>0, <1>a, <1>b, SMTT(60) DEF IInv, TypeOK, DeviceInv
<1>5. ProgressInv'
  <2>1. Progressed(t)'
    BY <1>0, <1>b DEF IInv, TypeOK, Progressed
  <2> QED BY <1>0, <1>b, <2>1, OthersProgress DEF IInv, TypeOK
<1>6. AckedInv'
  <2>1. ASSUME NEW e \in Disks, NEW s \in SectorNos PROVE Effective(e, s)' = Effective(e, s)
    BY <1>0, <1>a, <1>b, <2>1 DEF IInv, TypeOK, Effective
  <2>2. ASSUME NEW u \in Agents, NEW e \in Disks, NEW s \in SectorNos, Writes(u, e, s)
        PROVE  Writes(u, e, s)'
    BY <1>b, <2>2 DEF IInv, TypeOK, Writes
  <2> QED BY <1>b, <2>1, <2>2 DEF IInv, AckedInv
<1> QED BY <1>1, <1>2, <1>3, <1>4, <1>5, <1>6 DEF IInv

(* sema_down on completion_wait, also for an interrupt of no command: a    *)
(* write then returns while the device still stores the sector.            *)
LEMMA DownIInv ==
  ASSUME IInv, NEW t \in Agents, Down(t) PROVE IInv'
<1> USE DEF Down, Goto, At, bootVars, deviceVars
<1>0. pc[t] = "down" /\ pc[t] \notin {"idle", "lock"}
  OBVIOUS
<1>1. TypeOK'
  BY DEF IInv, TypeOK, PCs
<1>2. BootInv'
  BY DEF IInv, TypeOK, BootInv, Fresh, Known, Agents
<1>3. RequestInv'
  BY SMTT(60) DEF IInv, TypeOK, RequestInv, Requested, Known
<1>4. DeviceInv'
  BY DEF IInv, DeviceInv
<1>5. ProgressInv'
  <2>1. Progressed(t)'
    BY DEF IInv, TypeOK, ProgressInv, Progressed, Effective
  <2> QED BY <1>0, <2>1, OthersProgress DEF IInv, TypeOK
<1>6. AckedInv'
  BY SameAcked DEF IInv, TypeOK, Writes
<1> QED BY <1>1, <1>2, <1>3, <1>4, <1>5, <1>6 DEF IInv

LEMMA UnlockIInv ==
  ASSUME IInv, NEW t \in Agents, Unlock(t) PROVE IInv'
<1> DEFINE d == req[t].disk
           n == req[t].sector
<1> USE DEF Unlock, Goto, At, bootVars, deviceVars
<1>0. /\ d \in Disks /\ n \in SectorNos /\ Chan(d) \in Channels
      /\ req[t].op = "write" => req[t].buf \in Values
      /\ pc[t] \notin {"idle", "lock"}
  BY RequestType DEF IInv, RequestInv, Requested
<1>a. /\ lock' = [lock EXCEPT ![Chan(d)] = NONE]
      /\ acked' = IF req[t].op = "write"
                  THEN [acked EXCEPT ![d] = [acked[d] EXCEPT ![n] = req[t].buf]] ELSE acked
      /\ req' = [req EXCEPT ![t] = NONE]
      /\ pc' = [pc EXCEPT ![t] = "idle"]
      /\ UNCHANGED <<status, command, data, disk, selected, is_ata, all_blocks, boot>>
  OBVIOUS
<1>1. TypeOK'
  BY <1>0, <1>a, SMTT(60) DEF IInv, TypeOK, PCs, Contents
<1>2. BootInv'
  BY <1>a, SMTT(60) DEF IInv, TypeOK, BootInv, Fresh, Known, Agents
<1>3. RequestInv'
  <2> SUFFICES ASSUME NEW u \in Agents, u # t, pc[u] \notin {"idle", "lock"}
               PROVE  Chan(req[u].disk) \in Channels \ {Chan(d)}
    BY <1>a, IdeAssumption, SMTT(60) DEF IInv, TypeOK, RequestInv, Requested, Known
  <2> QED BY <1>0, Alone, RequestType
<1>4. DeviceInv'
  BY <1>a, SMTT(60) DEF IInv, DeviceInv
<1>5. ProgressInv'
  <2>1. Progressed(t)'
    BY <1>a DEF IInv, TypeOK, Progressed
  <2>2. \A e \in Disks : Chan(e) # Chan(d) => acked'[e] = acked[e]
    BY <1>a DEF IInv, TypeOK
  <2> QED BY <1>0, <1>a, <2>1, <2>2, OthersProgress DEF IInv, TypeOK
<1>6. AckedInv'
  <2> SUFFICES ASSUME NEW e \in Disks, NEW s \in SectorNos
               PROVE  acked'[e][s] = Effective(e, s) \/ \E u \in Agents : Writes(u, e, s)'
    BY <1>a DEF AckedInv, Effective
  <2>1. CASE req[t].op = "write" /\ e = d /\ s = n
    <3>1. acked'[e][s] = req[t].buf
      BY <1>0, <1>a, <2>1, SMTT(60) DEF IInv, TypeOK
    <3> QED BY <2>1, <3>1 DEF IInv, ProgressInv, Progressed
  <2>2. CASE ~(req[t].op = "write" /\ e = d /\ s = n)
    <3>1. acked'[e][s] = acked[e][s]
      BY <1>0, <1>a, <2>2, SMTT(60) DEF IInv, TypeOK
    <3>2. ASSUME NEW u \in Agents, Writes(u, e, s) PROVE Writes(u, e, s)'
      BY <1>a, <2>2, <3>2 DEF IInv, TypeOK, Writes
    <3> QED BY <3>1, <3>2 DEF IInv, AckedInv
  <2> QED BY <2>1, <2>2
<1> QED BY <1>1, <1>2, <1>3, <1>4, <1>5, <1>6 DEF IInv

-----------------------------------------------------------------------------
(* input_sector: the data register has the sector that was asked for, and  *)
(* no write of the channel is under way.                                   *)
LEMMA InputIInv ==
  ASSUME IInv, NEW t \in Agents, NEW v \in Contents \cup {"failed"},
         pc[t] = "busy", req[t].op # "write",
         req[t].op = "read" => status[req[t].disk] = "drq" /\ v = data[req[t].disk],
         Fill(t, v), Goto(t, "unlock"),
         status' = [status EXCEPT ![req[t].disk] = "ready"],
         command' \in [Disks -> Commands \cup {NONE}],
         \A e \in Disks \ {req[t].disk} : command'[e] = command[e],
         status[req[t].disk] \in {"ready", "drq"},
         UNCHANGED <<data, disk, acked, selected, lock, bootVars>>
  PROVE  IInv'
<1> DEFINE r == req[t]
           d == r.disk
<1>0. /\ r \in Requests /\ d \in Disks /\ r.sector \in SectorNos /\ Known(d)
      /\ r.op \in {"read", "identify"}
  BY RequestType DEF IInv, RequestInv, Requested, Requests
<1>a. [op |-> r.op, disk |-> r.disk, sector |-> r.sector, buf |-> v] \in Requests
  BY <1>0 DEF Requests, Contents
<1>b. /\ pc' = [pc EXCEPT ![t] = "unlock"]
      /\ req' = [req EXCEPT ![t] = [op |-> r.op, disk |-> d, sector |-> r.sector, buf |-> v]]
      /\ UNCHANGED <<is_ata, all_blocks, boot>>
  BY DEF Fill, Goto, bootVars
<1>c. /\ req'[t] \in Requests /\ req'[t].op = r.op /\ req'[t].disk = d
      /\ req'[t].sector = r.sector /\ req'[t].buf = v
  BY <1>a, <1>b DEF IInv, TypeOK
<1>1. TypeOK'
  BY <1>0, <1>a, <1>b DEF IInv, TypeOK, PCs
<1>2. BootInv'
  BY <1>0, <1>b, SMTT(60) DEF IInv, TypeOK, BootInv, Fresh, Known, Agents
<1>3. RequestInv'
  <2>1. ASSUME NEW u \in Agents, u # t PROVE pc'[u] = pc[u] /\ req'[u] = req[u]
    BY <1>b, <2>1 DEF IInv, TypeOK
  <2> QED BY <1>0, <1>b, <1>c, <2>1, IdeAssumption, SMTT(60) DEF IInv, TypeOK, RequestInv,
             Requested, Known
<1>4. DeviceInv'
  BY <1>0, <1>b, SMTT(60) DEF IInv, TypeOK, DeviceInv
<1>5. ProgressInv'
  <2>1. r.op = "read" => v = acked[d][r.sector]
    <3> SUFFICES ASSUME r.op = "read" PROVE v = acked[d][r.sector]
      OBVIOUS
    <3>1. command[d] = [op |-> r.op, sector |-> r.sector]
      BY DEF IInv, ProgressInv, Progressed
    <3>2. command[d].op = "read" /\ command[d].sector = r.sector
      BY <3>1, SMTT(60)
    <3>3. v = disk[d][r.sector] /\ Effective(d, r.sector) = disk[d][r.sector]
      BY <1>0, <3>2 DEF IInv, DeviceInv, Effective
    <3>4. ASSUME NEW u \in Agents, Writes(u, d, r.sector) PROVE FALSE
      <4>1. u = t
        BY <3>4, Alone DEF Writes
      <4> QED BY <3>4, <4>1 DEF Writes
    <3> QED BY <1>0, <3>3, <3>4 DEF IInv, AckedInv
  <2>2. Progressed(t)'
    BY <1>0, <1>b, <1>c, <2>1 DEF IInv, TypeOK, ProgressInv, Progressed
  <2> QED BY <1>0, <1>b, <2>2, OthersProgress DEF IInv, TypeOK
<1>6. AckedInv'
  <2>1. ASSUME NEW e \in Disks, NEW s \in SectorNos PROVE Effective(e, s)' = Effective(e, s)
    BY <1>0, <2>1 DEF IInv, TypeOK, Effective
  <2>2. ASSUME NEW u \in Agents, NEW e \in Disks, NEW s \in SectorNos, Writes(u, e, s)
        PROVE  Writes(u, e, s)'
    BY <1>b, <2>2 DEF IInv, TypeOK, Writes
  <2> QED BY <2>1, <2>2 DEF IInv, AckedInv
<1> QED BY <1>1, <1>2, <1>3, <1>4, <1>5, <1>6 DEF IInv

(* output_sector: from here on the write counts as done.                   *)
LEMMA OutputIInv ==
  ASSUME IInv, NEW t \in Agents, pc[t] = "busy", req[t].op = "write",
         status[req[t].disk] = "drq",
         data' = [data EXCEPT ![req[t].disk] = req[t].buf],
         status' = [status EXCEPT ![req[t].disk] = "busy"],
         command' = [command EXCEPT ![req[t].disk] =
                       [op |-> "store", sector |-> command[req[t].disk].sector]],
         Goto(t, "down"),
         UNCHANGED <<req, disk, acked, selected, lock, bootVars>>
  PROVE  IInv'
<1> DEFINE r == req[t]
           d == r.disk
<1> USE DEF Goto, bootVars
<1>0. /\ d \in Disks /\ r.sector \in SectorNos /\ Known(d) /\ r.buf \in Values
      /\ command[d] = [op |-> "write", sector |-> r.sector]
      /\ selected[Chan(d)] = d
  BY RequestType, SMTT(60) DEF IInv, RequestInv, Requested, ProgressInv, Progressed
<1>a. /\ command' = [command EXCEPT ![d] = [op |-> "store", sector |-> r.sector]]
      /\ [op |-> "store", sector |-> r.sector] \in Commands
  BY <1>0, SMTT(60) DEF Commands
<1>1. TypeOK'
  BY <1>0, <1>a, SMTT(60) DEF IInv, TypeOK, PCs, Contents
<1>2. BootInv'
  BY <1>0, SMTT(60) DEF IInv, TypeOK, BootInv, Fresh, Known, Agents
<1>3. RequestInv'
  BY SMTT(60) DEF IInv, TypeOK, RequestInv, Requested, Known
<1>4. DeviceInv'
  BY <1>0, <1>a, SMTT(60) DEF IInv, TypeOK, DeviceInv
<1>b. Effective(d, r.sector)' = r.buf
  BY <1>0, <1>a, SMTT(60) DEF IInv, TypeOK, Effective
<1>5. ProgressInv'
  <2>1. Progressed(t)'
    BY <1>0, <1>b DEF IInv, TypeOK, Progressed
  <2> QED BY <1>0, <1>a, <2>1, OthersProgress DEF IInv, TypeOK
<1>6. AckedInv'
  <2> SUFFICES ASSUME NEW e \in Disks, NEW s \in SectorNos
               PROVE  acked[e][s] = Effective(e, s)' \/ \E u \in Agents : Writes(u, e, s)'
    BY DEF AckedInv
  <2>1. CASE e = d /\ s = r.sector
    BY <2>1 DEF IInv, TypeOK, Writes
  <2>2. CASE ~(e = d /\ s = r.sector)
    <3>1. Effective(e, s)' = Effective(e, s)
      BY <1>0, <1>a, <2>2, SMTT(60) DEF IInv, TypeOK, Effective
    <3>2. ASSUME NEW u \in Agents, Writes(u, e, s) PROVE Writes(u, e, s)'
      BY <3>2 DEF IInv, TypeOK, Writes
    <3> QED BY <3>1, <3>2 DEF IInv, AckedInv
  <2> QED BY <2>1, <2>2
<1> QED BY <1>1, <1>2, <1>3, <1>4, <1>5, <1>6 DEF IInv

(* A step that leaves everything of the invariant alone.                   *)
LEMMA QuietIInv ==
  ASSUME IInv, UNCHANGED <<status, command, data, disk, acked, selected, lock, bootVars, pc, req>>
  PROVE  IInv'
<1> USE DEF bootVars
<1>1. TypeOK' /\ BootInv'
  BY DEF IInv, TypeOK, BootInv, Fresh, Known
<1>2. RequestInv' /\ DeviceInv'
  BY DEF IInv, RequestInv, Requested, DeviceInv, Known
<1>3. ProgressInv'
  BY SMTT(60) DEF IInv, ProgressInv, Progressed, Effective
<1>4. AckedInv'
  BY SameAcked DEF Writes
<1> QED BY <1>1, <1>2, <1>3, <1>4 DEF IInv

LEMMA TransferIInv ==
  ASSUME IInv, NEW t \in Agents, Transfer(t) PROVE IInv'
<1> DEFINE r == req[t]
           d == r.disk
<1>0. /\ d \in Disks /\ selected[Chan(d)] = d /\ pc[t] = "busy" /\ data[d] \in Contents
  BY RequestType DEF IInv, TypeOK, ProgressInv, Progressed, Transfer, At
<1>a. UNCHANGED <<disk, acked, selected, lock, bootVars>>
  BY DEF Transfer, driverVars
<1>1. CASE status[d] = "ready" /\ r.op # "identify"
  BY <1>0, <1>1, <1>a, QuietIInv DEF Transfer
<1>2. CASE status[d] = "ready" /\ r.op = "identify"
  <2>1. /\ Fill(t, "failed") /\ Goto(t, "unlock")
        /\ UNCHANGED <<status, command, data>>
    BY <1>0, <1>2 DEF Transfer
  <2>2. status' = [status EXCEPT ![d] = "ready"] /\ command' \in [Disks -> Commands \cup {NONE}]
    BY <1>2, <2>1 DEF IInv, TypeOK
  <2> QED BY <1>0, <1>2, <1>a, <2>1, <2>2, InputIInv
<1>3. CASE status[d] = "drq" /\ r.op = "write"
  BY <1>0, <1>3, <1>a, OutputIInv DEF Transfer
<1>4. CASE status[d] = "drq" /\ r.op # "write"
  <2>1. /\ Fill(t, data[d]) /\ Goto(t, "unlock")
        /\ status' = [status EXCEPT ![d] = "ready"]
        /\ command' = [command EXCEPT ![d] = NONE]
        /\ UNCHANGED data
    BY <1>0, <1>4 DEF Transfer
  <2>2. /\ command' \in [Disks -> Commands \cup {NONE}]
        /\ \A e \in Disks \ {d} : command'[e] = command[e]
    BY <2>1 DEF IInv, TypeOK
  <2> QED BY <1>0, <1>4, <1>a, <2>1, <2>2, InputIInv
<1> QED BY <1>0, <1>1, <1>2, <1>3, <1>4 DEF Transfer

-----------------------------------------------------------------------------
(* The device goes on with its command: only its own registers and, at the *)
(* end of a write, the sector that it was told to store.                   *)
LEMMA DeviceIInv ==
  ASSUME IInv, NEW d \in Disks, status[d] = "busy",
         NEW st \in {"ready", "drq"}, status' = [status EXCEPT ![d] = st],
         command' \in [Disks -> Commands \cup {NONE}],
         \A e \in Disks \ {d} : command'[e] = command[e],
         data' \in [Disks -> Contents], \A e \in Disks \ {d} : data'[e] = data[e],
         disk' \in [Disks -> [SectorNos -> Contents]],
         \A e \in Disks, s \in SectorNos : Effective(e, s)' = Effective(e, s),
         st = "drq" => /\ command'[d] = command[d] /\ command[d].op # "store"
                       /\ command[d].op = "read" => data'[d] = disk'[d][command[d].sector],
         \A e \in Disks \ {d} : disk'[e] = disk[e],
         UNCHANGED <<driverVars, bootVars, threadVars>>
  PROVE  IInv'
<1> USE DEF driverVars, bootVars, threadVars
<1>1. TypeOK'
  BY DEF IInv, TypeOK
<1>2. BootInv'
  BY SMTT(60) DEF IInv, TypeOK, BootInv, Fresh, Known
<1>3. RequestInv'
  BY SMTT(60) DEF IInv, RequestInv, Requested, Known
<1>4. DeviceInv'
  BY SMTT(60) DEF IInv, TypeOK, DeviceInv
<1>5. ProgressInv'
  <2> SUFFICES ASSUME NEW u \in Agents PROVE Progressed(u)'
    BY DEF ProgressInv
  <2>1. pc[u] \in {"idle2", "issue", "busy", "down", "unlock"} =>
          req[u].disk \in Disks /\ req[u].sector \in SectorNos
    BY RequestType
  <2> QED BY <2>1, SMTT(60) DEF IInv, TypeOK, ProgressInv, Progressed
<1>6. AckedInv'
  <2>1. acked' = acked /\ pc' = pc /\ req' = req
    OBVIOUS
  <2>2. \A u \in Agents, e \in Disks, s \in SectorNos : Writes(u, e, s)' <=> Writes(u, e, s)
    BY <2>1 DEF Writes
  <2>3. AckedInv
    BY DEF IInv
  <2> QED BY <2>1, <2>2, <2>3 DEF AckedInv
<1> QED BY <1>1, <1>2, <1>3, <1>4, <1>5, <1>6 DEF IInv

LEMMA DeviceReadyIInv ==
  ASSUME IInv, NEW d \in Disks, DeviceReady(d) PROVE IInv'
<1> DEFINE cmd == command[d]
<1>0. status[d] = "busy" /\ cmd \in Commands /\ cmd.sector \in SectorNos
  BY DEF DeviceReady, IInv, DeviceInv, Commands
<1>a. UNCHANGED <<driverVars, bootVars, threadVars>>
  BY DEF DeviceReady
<1>1. CASE cmd.op \in {"read", "identify"}
  <2>1. /\ status' = [status EXCEPT ![d] = "drq"] /\ UNCHANGED <<disk, command>>
        /\ data' = [data EXCEPT ![d] = IF cmd.op = "read" THEN disk[d][cmd.sector] ELSE data[d]]
    BY <1>1 DEF DeviceReady
  <2>2. /\ data' \in [Disks -> Contents]
        /\ cmd.op = "read" => data'[d] = disk[d][cmd.sector]
        /\ \A e \in Disks \ {d} : data'[e] = data[e]
    BY <1>0, <2>1, SMTT(60) DEF IInv, TypeOK
  <2>3. \A e \in Disks, s \in SectorNos : Effective(e, s)' = Effective(e, s)
    BY <1>1, <2>1, <2>2, SMTT(60) DEF IInv, TypeOK, Effective
  <2> QED BY <1>0, <1>1, <1>a, <2>1, <2>2, <2>3, DeviceIInv DEF IInv, TypeOK
<1>2. CASE cmd.op = "write"
  <2>1. status' = [status EXCEPT ![d] = "drq"] /\ UNCHANGED <<data, disk, command>>
    BY <1>2 DEF DeviceReady
  <2>2. \A e \in Disks, s \in SectorNos : Effective(e, s)' = Effective(e, s)
    BY <1>2, <2>1 DEF IInv, TypeOK, Effective
  <2> QED BY <1>0, <1>2, <1>a, <2>1, <2>2, DeviceIInv DEF IInv, TypeOK
<1>3. CASE cmd.op = "store"
  <2>1. /\ disk' = [disk EXCEPT ![d] = [disk[d] EXCEPT ![cmd.sector] = data[d]]]
        /\ status' = [status EXCEPT ![d] = "ready"]
        /\ command' = [command EXCEPT ![d] = NONE] /\ UNCHANGED data
    BY <1>3 DEF DeviceReady
  <2>2. /\ disk' \in [Disks -> [SectorNos -> Contents]]
        /\ \A e \in Disks \ {d} : disk'[e] = disk[e]
        /\ \A s \in SectorNos : disk'[d][s] = IF s = cmd.sector THEN data[d] ELSE disk[d][s]
    BY <1>0, <2>1 DEF IInv, TypeOK
  <2>3. \A e \in Disks, s \in SectorNos : Effective(e, s)' = Effective(e, s)
    BY <1>0, <1>3, <2>1, <2>2, SMTT(60) DEF IInv, TypeOK, Effective
  <2> QED BY <1>0, <1>a, <2>1, <2>2, <2>3, DeviceIInv DEF IInv, TypeOK
<1> QED BY <1>0, <1>1, <1>2, <1>3 DEF Commands

LEMMA DeviceErrorIInv ==
  ASSUME IInv, NEW d \in Disks, DeviceError(d) PROVE IInv'
<1>1. \A e \in Disks, s \in SectorNos : Effective(e, s)' = Effective(e, s)
  BY DEF DeviceError, IInv, TypeOK, Effective
<1> QED BY <1>1, DeviceIInv DEF DeviceError, IInv, TypeOK

-----------------------------------------------------------------------------
(* ide_init.                                                               *)

LEMMA DiskType ==
  ASSUME NEW d \in Disks
  PROVE  /\ Chan(d) \in Channels /\ Chan(d) \in Nat
         /\ \A i \in {0, 1} : <<d[1], i>> \in Disks /\ Chan(<<d[1], i>>) = Chan(d)
BY IdeAssumption, SMTT(60) DEF Disks, Chan, Channels

(* No request is under way while a channel is reset and probed.            *)
LEMMA NobodyAtBoot ==
  ASSUME IInv, boot.at # "done", pc[Main] = "idle", NEW t \in Agents
  PROVE  pc[t] = "idle"
BY DEF IInv, BootInv, Agents

(* A step of the boot while no request is under way: it leaves the devices *)
(* of all channels but the current one alone.                              *)
LEMMA ProbeIInv ==
  ASSUME IInv, boot.at # "done", pc[Main] = "idle",
         TypeOK', BootInv',
         \A c \in Channels : Chan(selected'[c]) = c,
         \A d \in Disks : Chan(d) = Chan(boot.disk) => status'[d] \in {"ready", "hung"},
         \A d \in Disks : Chan(d) # Chan(boot.disk) =>
           status'[d] = status[d] /\ selected'[Chan(d)] = selected[Chan(d)],
         \A d \in Disks : status[d] # "busy" \/ Chan(d) # Chan(boot.disk),
         UNCHANGED <<command, data, disk, acked, lock, pc, req>>
  PROVE  IInv'
<1>0. \A t \in Agents : pc[t] = "idle" /\ pc'[t] = "idle"
  BY NobodyAtBoot
<1>1. RequestInv'
  BY <1>0 DEF IInv, RequestInv, Requested
<1>2. DeviceInv'
  BY SMTT(60) DEF IInv, DeviceInv
<1>3. ProgressInv'
  BY <1>0 DEF ProgressInv, Progressed
<1>4. AckedInv'
  <2>1. ASSUME NEW d \in Disks, NEW n \in SectorNos PROVE Effective(d, n)' = Effective(d, n)
    BY <2>1 DEF Effective
  <2> QED BY <1>0, <2>1, SMTT(60) DEF IInv, AckedInv, Writes
<1> QED BY <1>1, <1>2, <1>3, <1>4 DEF IInv

LEMMA ResetIInv ==
  ASSUME IInv, reset_channel PROVE IInv'
<1> DEFINE c == Chan(boot.disk)
<1>0. /\ boot.at = "reset" /\ pc[Main] = "idle" /\ c \in Channels /\ boot.disk \in Disks
      /\ boot' = [at |-> "check", disk |-> boot.disk]
      /\ UNCHANGED <<command, data, disk, acked, lock, pc, req, is_ata, all_blocks>>
  BY DiskType DEF reset_channel, IInv, TypeOK, RequestInv, Requested, Agents, threadVars,
     BootStates
<1>1. \E i \in {0, 1} : selected' = [selected EXCEPT ![c] = <<c, i>>]
  BY DEF reset_channel
<1>2. PICK i \in {0, 1} : selected' = [selected EXCEPT ![c] = <<c, i>>]
  BY <1>1
<1>3. <<c, i>> \in Disks /\ Chan(<<c, i>>) = c
  BY <1>0, DiskType DEF Chan
<1>4. /\ status' \in [Disks -> {"ready", "busy", "drq", "hung"}]
      /\ \A d \in Disks : Chan(d) = c => status'[d] \in {"ready", "hung"} /\ status[d] = "ready"
      /\ \A d \in Disks : Chan(d) # c => status'[d] = status[d]
  <2>1. status \in [Disks -> {"ready", "busy", "drq", "hung"}]
    BY DEF IInv, TypeOK
  <2>2. \A d \in Disks : Chan(d) = c => status[d] = "ready"
    BY <1>0 DEF IInv, BootInv, Fresh
  <2>3. PICK hung \in SUBSET {d \in Disks : Chan(d) = c /\ Present(d)} :
          status' = [d \in Disks |-> IF d \in hung THEN "hung" ELSE status[d]]
    BY DEF reset_channel
  <2>4. \A d \in hung : Chan(d) = c
    BY <2>3
  <2> QED BY <2>1, <2>2, <2>3, <2>4
<1>5. TypeOK'
  BY <1>0, <1>2, <1>3, <1>4 DEF IInv, TypeOK, BootStates
<1>6. BootInv'
  <2>1. ASSUME NEW e \in Channels, e > c PROVE Fresh(e)'
    <3>1. e # c /\ Fresh(e)
      BY <1>0, <2>1, IdeAssumption, SMTT(60) DEF IInv, BootInv, Channels
    <3> QED BY <1>0, <1>4, <3>1, SMTT(60) DEF Fresh, Known
  <2>2. \A d \in Disks : Known(d)' => status'[d] # "hung"
    BY <1>0, <1>4, SMTT(60) DEF IInv, BootInv, Fresh, Known
  <2> QED BY <1>0, <1>4, <2>1, <2>2 DEF IInv, BootInv
<1>7. \A e \in Channels : Chan(selected'[e]) = e
  BY <1>0, <1>2, <1>3 DEF IInv, TypeOK, DeviceInv
<1>8. \A d \in Disks : Chan(d) # c => selected'[Chan(d)] = selected[Chan(d)]
  BY <1>2, DiskType DEF IInv, TypeOK
<1> QED BY <1>0, <1>4, <1>5, <1>6, <1>7, <1>8, ProbeIInv

LEMMA CheckIInv ==
  ASSUME IInv, check_device_type PROVE IInv'
<1> DEFINE d == boot.disk
<1>0. /\ boot.at = "check" /\ pc[Main] = "idle" /\ Chan(d) \in Channels /\ d \in Disks
      /\ boot' = AfterCheck(d) /\ selected' = [selected EXCEPT ![Chan(d)] = d]
      /\ UNCHANGED <<status, command, data, disk, acked, lock, pc, req, all_blocks>>
  BY DiskType DEF check_device_type, IInv, TypeOK, BootInv, threadVars, BootStates
<1>1. is_ata' \subseteq is_ata \cup {d} /\ (d \in is_ata' => status[d] = "ready")
  BY DEF check_device_type
<1>2. /\ boot' \in [at : {"check", "identify"}, disk : Disks]
      /\ boot'.at \in {"check", "identify"} /\ Chan(boot'.disk) = Chan(d)
  BY <1>0, DiskType DEF AfterCheck
<1>3. TypeOK'
  BY <1>0, <1>1, <1>2 DEF IInv, TypeOK, BootStates
<1>4. BootInv'
  <2>1. ASSUME NEW c \in Channels, c > Chan(d) PROVE Fresh(c)'
    <3>1. c # Chan(d) /\ Fresh(c)
      BY <1>0, <2>1, IdeAssumption, SMTT(60) DEF IInv, BootInv, Channels
    <3> QED BY <1>0, <1>1, <3>1 DEF Fresh, Known
  <2>2. \A e \in Disks : Known(e)' => status'[e] # "hung"
    BY <1>0, <1>1 DEF IInv, BootInv, Known
  <2> QED BY <1>0, <1>2, <2>1, <2>2 DEF IInv, BootInv
<1>5. \A e \in Channels : Chan(selected'[e]) = e
  BY <1>0 DEF IInv, TypeOK, DeviceInv
<1>6. \A e \in Disks : Chan(e) # Chan(d) => selected'[Chan(e)] = selected[Chan(e)]
  BY <1>0, DiskType DEF IInv, TypeOK
<1> QED BY <1>0, <1>3, <1>4, <1>5, <1>6, ProbeIInv DEF IInv, BootInv

(* The next disk, or the next channel, which is untouched.                 *)
LEMMA AfterDiskInv ==
  ASSUME IInv, NEW d \in Disks, d = boot.disk
  PROVE  /\ AfterDisk(d) \in [at : {"identify", "reset", "done"}, disk : Disks]
         /\ AfterDisk(d).at \in {"identify", "reset", "done"}
         /\ \A c \in Channels : c > Chan(AfterDisk(d).disk) => c > Chan(d)
         /\ AfterDisk(d).at = "reset" => Fresh(Chan(AfterDisk(d).disk))
<1>1. CASE d[2] = 0
  BY <1>1, DiskType DEF AfterDisk
<1>2. CASE d[2] # 0 /\ d[1] + 1 \in Channels
  <2>1. AfterDisk(d) = [at |-> "reset", disk |-> <<d[1] + 1, 0>>]
    BY <1>2 DEF AfterDisk
  <2>2. <<d[1] + 1, 0>> \in Disks /\ Chan(<<d[1] + 1, 0>>) = d[1] + 1
    BY <1>2 DEF Disks, Chan
  <2>a. d[1] \in Nat /\ Chan(d) = d[1]
    BY DiskType DEF Chan
  <2>b. d[1] + 1 > Chan(boot.disk)
    BY <2>a, SMTT(60)
  <2>3. Fresh(d[1] + 1)
    BY <1>2, <2>b DEF IInv, BootInv
  <2>4. \A c \in Channels : c > d[1] + 1 => c > Chan(d)
    BY <2>a, IdeAssumption, SMTT(60) DEF Channels
  <2> QED BY <2>1, <2>2, <2>3, <2>4, SMTT(60)
<1>3. CASE d[2] # 0 /\ d[1] + 1 \notin Channels
  BY <1>3 DEF AfterDisk
<1> QED BY <1>1, <1>2, <1>3

(* A request begins, or one that only Main has made ends.                  *)
LEMMA RequestIInv ==
  ASSUME IInv, NEW t \in Agents, NEW r, NEW l \in {"idle", "lock", "idle1"},
         pc[t] = "idle" \/ (pc[t] = "unlock" /\ req[t].op = "identify"),
         req' = [req EXCEPT ![t] = r], pc' = [pc EXCEPT ![t] = l],
         r \in Requests \cup {NONE}, TypeOK', BootInv', RequestInv',
         UNCHANGED <<status, command, data, disk, acked, selected, lock>>
  PROVE  IInv'
<1>1. DeviceInv'
  BY DEF IInv, DeviceInv
<1>2. ProgressInv'
  <2> SUFFICES ASSUME NEW u \in Agents PROVE Progressed(u)'
    BY DEF ProgressInv
  <2>1. CASE u = t
    BY <2>1 DEF IInv, TypeOK, Progressed
  <2>2. CASE u # t
    <3>1. pc'[u] = pc[u] /\ req'[u] = req[u]
      BY <2>2 DEF IInv, TypeOK
    <3>2. Progressed(u)
      BY DEF IInv, ProgressInv
    <3>3. /\ status' = status /\ command' = command /\ data' = data /\ disk' = disk
          /\ acked' = acked /\ selected' = selected
      OBVIOUS
    <3> QED BY <3>1, <3>2, <3>3, SMTT(60) DEF Progressed, Effective
  <2> QED BY <2>1, <2>2
<1>3. ASSUME NEW u \in Agents, NEW d \in Disks, NEW s \in SectorNos, Writes(u, d, s)
      PROVE  Writes(u, d, s)'
  <2>1. u # t
    BY <1>3 DEF Writes
  <2>2. pc'[u] = pc[u] /\ req'[u] = req[u]
    BY <2>1 DEF IInv, TypeOK
  <2> QED BY <1>3, <2>2 DEF Writes
<1>4. AckedInv'
  BY <1>3, SameAcked
<1> QED BY <1>1, <1>2, <1>4 DEF IInv

LEMMA IdentifyStartIInv ==
  ASSUME IInv, IdentifyStart PROVE IInv'
<1> DEFINE d == boot.disk
           r == [op |-> "identify", disk |-> d, sector |-> 0, buf |-> NONE]
<1> USE DEF deviceVars, driverVars
<1>0. /\ boot.at = "identify" /\ Main \in Agents /\ pc[Main] = "idle" /\ d \in Disks
      /\ req[Main] = NONE
      /\ UNCHANGED <<status, command, data, disk, acked, selected, lock, is_ata, all_blocks>>
  BY DEF IdentifyStart, IInv, TypeOK, RequestInv, Requested, Agents, BootStates
<1>1. CASE d \in is_ata
  <2>1. r \in Requests
    <3>1. 0 \in 0..(Capacity - 1)
      BY IdeAssumption, SMTT(60)
    <3> QED BY <1>0, <3>1 DEF Requests
  <2>2. req' = [req EXCEPT ![Main] = r] /\ pc' = [pc EXCEPT ![Main] = "idle1"] /\ boot' = boot
    BY <1>1 DEF IdentifyStart, Goto
  <2>3. TypeOK'
    BY <1>0, <2>1, <2>2 DEF IInv, TypeOK, PCs
  <2>4. BootInv'
    BY <1>0, <2>2, IdeAssumption DEF IInv, TypeOK, BootInv, Fresh, Known, Agents
  <2>5. RequestInv'
    BY <1>0, <1>1, <2>1, <2>2, IdeAssumption DEF IInv, TypeOK, RequestInv, Requested, Known
  <2> QED BY <1>0, <2>1, <2>2, <2>3, <2>4, <2>5, RequestIInv
<1>2. CASE d \notin is_ata
  <2>1. boot' = AfterDisk(d) /\ UNCHANGED <<req, pc>>
    BY <1>2 DEF IdentifyStart
  <2>2. TypeOK'
    BY <1>0, <2>1, AfterDiskInv DEF IInv, TypeOK, BootStates
  <2>3. BootInv'
    BY <1>0, <2>1, AfterDiskInv, SMTT(60) DEF IInv, BootInv, Fresh, Known
  <2>4. RequestInv'
    <3>1. \A t \in Agents : pc[t] = "idle"
      BY <1>0, NobodyAtBoot
    <3> QED BY <2>1, <3>1 DEF IInv, RequestInv, Requested
  <2>5. req' = [req EXCEPT ![Main] = NONE] /\ pc' = [pc EXCEPT ![Main] = "idle"]
    BY <1>0, <2>1 DEF IInv, TypeOK
  <2> QED BY <1>0, <2>2, <2>3, <2>4, <2>5, RequestIInv
<1> QED BY <1>1, <1>2

LEMMA IdentifyEndIInv ==
  ASSUME IInv, IdentifyEnd PROVE IInv'
<1> DEFINE d == boot.disk
<1> USE DEF deviceVars, driverVars, At, Goto
<1>0. /\ boot.at = "identify" /\ Main \in Agents /\ pc[Main] = "unlock" /\ d \in Disks
      /\ req[Main].op = "identify" /\ req[Main].disk = d /\ status[d] # "hung" /\ Known(d)
      /\ req' = [req EXCEPT ![Main] = NONE] /\ pc' = [pc EXCEPT ![Main] = "idle"]
      /\ UNCHANGED <<status, command, data, disk, acked, selected, lock>>
  BY DEF IdentifyEnd, IInv, TypeOK, BootInv, RequestInv, Requested, Agents, BootStates
<1>1. /\ is_ata' \subseteq is_ata \cup {d} /\ all_blocks' \subseteq all_blocks \cup {d}
      /\ boot' = AfterDisk(d) \/ (boot' = [at |-> "scan", disk |-> d] /\ d \in all_blocks')
  BY DEF IdentifyEnd
<1>2. /\ boot' \in BootStates
      /\ boot'.at \in {"reset", "identify", "scan", "done"}
      /\ \A c \in Channels : c > Chan(boot'.disk) => c > Chan(d)
      /\ boot'.at = "reset" => Fresh(Chan(boot'.disk))
      /\ boot'.at = "scan" => boot'.disk \in all_blocks'
  BY <1>0, <1>1, AfterDiskInv, SMTT(60) DEF BootStates
<1>3. \A t \in Agents : pc'[t] = "idle" /\ req'[t] = NONE
  BY <1>0 DEF IInv, TypeOK, BootInv, RequestInv, Requested, Agents
<1>4. TypeOK'
  BY <1>0, <1>1, <1>2 DEF IInv, TypeOK, PCs
<1>5. BootInv'
  <2>1. ASSUME NEW c, Fresh(c) PROVE Fresh(c)'
    BY <1>0, <1>1, <2>1 DEF Fresh, Known
  <2>2. \A e \in Disks : Known(e)' => status'[e] # "hung"
    BY <1>0, <1>1 DEF IInv, BootInv, Known
  <2> QED BY <1>0, <1>2, <1>3, <2>1, <2>2 DEF IInv, BootInv, Agents
<1>6. RequestInv'
  BY <1>3 DEF RequestInv, Requested
<1> QED BY <1>0, <1>4, <1>5, <1>6, RequestIInv

(* block_read and block_write of a disk that was found.                    *)
LEMMA CallIInv ==
  ASSUME IInv, NEW t \in Agents, NEW op \in {"read", "write"}, NEW d \in all_blocks,
         NEW n \in Nat, NEW v \in Values \cup {NONE}, op = "write" => v \in Values,
         Request(t, op, d, n, v),
         boot' \in BootStates, UNCHANGED <<is_ata, all_blocks>>, BootInv',
         \A u \in Agents : u # t => pc[u] = "idle" \/ boot' = boot
  PROVE  IInv'
<1> USE DEF deviceVars, driverVars
<1>0. /\ pc[t] = "idle" /\ req[t] = NONE /\ d \in Disks
      /\ UNCHANGED <<status, command, data, disk, acked, selected, lock>>
  BY DEF Request, At, IInv, TypeOK
<1>1. CASE n >= Capacity
  <2>1. pc' = pc /\ req' = req
    BY <1>1 DEF Request
  <2>2. TypeOK'
    BY <1>0, <2>1 DEF IInv, TypeOK
  <2>3. RequestInv'
    BY <1>0, <2>1, SMTT(60) DEF IInv, RequestInv, Requested, Known
  <2>4. req' = [req EXCEPT ![t] = NONE] /\ pc' = [pc EXCEPT ![t] = "idle"]
    <3>1. req = [u \in Agents |-> req[u]] /\ pc = [u \in Agents |-> pc[u]]
      BY DEF IInv, TypeOK
    <3> QED BY <1>0, <2>1, <3>1
  <2> QED BY <1>0, <2>1, <2>2, <2>3, <2>4, RequestIInv
<1>2. CASE ~(n >= Capacity)
  <2> DEFINE r == [op |-> op, disk |-> d, sector |-> n, buf |-> v]
  <2>1. r \in Requests
    BY <1>0, <1>2, IdeAssumption, SMTT(60) DEF Requests
  <2>2. req' = [req EXCEPT ![t] = r] /\ pc' = [pc EXCEPT ![t] = "lock"]
    BY <1>2 DEF Request, Goto
  <2>3. pc'[t] = "lock" /\ req'[t] = r
    BY <2>2 DEF IInv, TypeOK
  <2>4. TypeOK'
    BY <1>0, <2>1, <2>2 DEF IInv, TypeOK, PCs
  <2>5. RequestInv'
    <3> SUFFICES ASSUME NEW u \in Agents PROVE Requested(u)'
      BY DEF RequestInv
    <3>1. CASE u = t
      <4>1. r # NONE
        BY <2>1, IdeAssumption
      <4>2. r.op = op /\ r.disk = d /\ r.buf = v
        OBVIOUS
      <4> HIDE DEF r
      <4>3. Known(d)'
        BY DEF Known
      <4> QED BY <2>3, <3>1, <4>1, <4>2, <4>3 DEF Requested
    <3>2. CASE u # t
      <4>1. pc'[u] = pc[u] /\ req'[u] = req[u]
        BY <2>2, <3>2 DEF IInv, TypeOK
      <4>2. Requested(u)
        BY DEF IInv, RequestInv
      <4>3. lock' = lock /\ is_ata' = is_ata /\ all_blocks' = all_blocks
        BY <1>0
      <4>4. pc[u] = "idle" \/ boot' = boot
        BY <3>2
      <4> QED BY <4>1, <4>2, <4>3, <4>4 DEF Requested, Known
    <3> QED BY <3>1, <3>2
  <2> QED BY <1>0, <2>1, <2>2, <2>3, <2>4, <2>5, RequestIInv
<1> QED BY <1>1, <1>2

LEMMA PartitionScanIInv ==
  ASSUME IInv, PartitionScan PROVE IInv'
<1>0. /\ boot.at = "scan" /\ pc[Main] = "idle" /\ boot.disk \in all_blocks /\ boot.disk \in Disks
      /\ Main \in Agents /\ Request(Main, "read", boot.disk, 0, NONE)
      /\ boot' = AfterDisk(boot.disk) /\ UNCHANGED <<is_ata, all_blocks>>
      /\ UNCHANGED status
  BY DEF PartitionScan, IInv, TypeOK, BootInv, Agents, Request, deviceVars
<1>1. \A t \in Agents : pc[t] = "idle"
  BY <1>0, NobodyAtBoot
<1>2. \A t \in Threads : pc'[t] = "idle"
  <2>1. ASSUME NEW t \in Threads PROVE t \in Agents /\ t # Main
    BY IdeAssumption DEF Agents
  <2>2. pc' = pc \/ pc' = [pc EXCEPT ![Main] = "lock"]
    BY <1>0 DEF Request, Goto
  <2>3. pc \in [Agents -> PCs]
    BY DEF IInv, TypeOK
  <2> QED BY <1>1, <2>1, <2>2, <2>3
<1>3. BootInv'
  BY <1>0, <1>2, AfterDiskInv DEF IInv, BootInv, Fresh, Known
<1>4. boot' \in BootStates
  BY <1>0, AfterDiskInv DEF BootStates
<1> QED BY <1>0, <1>1, <1>3, <1>4, CallIInv

LEMMA ThreadRequestIInv ==
  ASSUME IInv, NEW t \in Threads, ThreadRequest(t) PROVE IInv'
<1>0. /\ boot.at = "done" /\ pc[Main] = "idle" /\ t \in Agents /\ Main \in Agents
      /\ UNCHANGED <<boot, is_ata, all_blocks>> /\ boot \in BootStates
  BY DEF ThreadRequest, IInv, TypeOK, RequestInv, Requested, Agents, bootVars
<1>1. PICK d \in all_blocks, n \in Sectors :
        \/ Request(t, "read", d, n, NONE)
        \/ \E v \in Values : Request(t, "write", d, n, v)
  BY DEF ThreadRequest
<1>2. n \in Nat
  BY IdeAssumption
<1>3. UNCHANGED status /\ pc'[Main] = "idle"
  BY <1>0, <1>1, IdeAssumption DEF Request, Goto, deviceVars, IInv, TypeOK
<1>4. BootInv'
  BY <1>0, <1>3 DEF IInv, BootInv, Fresh, Known
<1> QED BY <1>0, <1>1, <1>2, <1>4, CallIInv

-----------------------------------------------------------------------------
LEMMA NextIInv == IInv /\ [Next]_vars => IInv'
<1> SUFFICES ASSUME IInv, [Next]_vars PROVE IInv'
  OBVIOUS
<1>1. CASE Boot
  BY <1>1, ResetIInv, CheckIInv, IdentifyStartIInv, IdentifyEndIInv, PartitionScanIInv DEF Boot
<1>2. ASSUME NEW t \in Agents, Step(t) PROVE IInv'
  BY <1>2, LockIInv, WaitIdleIInv, IssueIInv, DownIInv, TransferIInv, UnlockIInv DEF Step
<1>3. ASSUME NEW t \in Threads, ThreadRequest(t) PROVE IInv'
  BY <1>3, ThreadRequestIInv
<1>4. ASSUME NEW d \in Disks, DeviceReady(d) \/ DeviceError(d) PROVE IInv'
  BY <1>4, DeviceReadyIInv, DeviceErrorIInv
<1>5. ASSUME NEW d \in Disks, DeviceSpurious(d) PROVE IInv'
  BY <1>5, QuietIInv DEF DeviceSpurious, driverVars, threadVars
<1>6. ASSUME NEW c \in Channels, interrupt_handler(c) PROVE IInv'
  BY <1>6, QuietIInv DEF interrupt_handler, threadVars
<1>7. CASE UNCHANGED vars
  BY <1>7, QuietIInv DEF vars, deviceVars, driverVars, threadVars
<1> QED BY <1>1, <1>2, <1>3, <1>4, <1>5, <1>6, <1>7 DEF Next

(* Every reachable state satisfies the inductive invariant.                *)
LEMMA SpecIInv == Spec => []IInv
BY InitIInv, NextIInv, PTL DEF Spec

(* ide_read returns what the last ide_write of the sector that returned    *)
(* wrote, and a device sees one command at a time, although one lock is    *)
(* shared by two devices and an interrupt may come for no command.         *)
THEOREM SpecReadsLatest == Spec => []ReadsLatest
<1>1. IInv => ReadsLatest
  <2> SUFFICES ASSUME IInv, NEW t \in Agents
               PROVE  /\ pc[t] = "issue" =>
                           selected[Chan(req[t].disk)] = req[t].disk /\ status[req[t].disk] = "ready"
                      /\ pc[t] = "busy" /\ status[req[t].disk] # "ready" =>
                           /\ selected[Chan(req[t].disk)] = req[t].disk
                           /\ command[req[t].disk] = [op |-> req[t].op, sector |-> req[t].sector]
                      /\ pc[t] = "unlock" /\ req[t].op = "read" =>
                           req[t].buf = acked[req[t].disk][req[t].sector]
    BY DEF ReadsLatest, OneCommand
  <2> QED BY DEF IInv, ProgressInv, Progressed
<1> QED BY <1>1, SpecIInv, PTL
=============================================================================
