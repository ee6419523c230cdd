-------------------------------- MODULE Ide --------------------------------
(***************************************************************************)
(* The disk driver of devices/ide.c under the block layer of               *)
(* devices/block.c: detection of the disks of a channel at boot, and then  *)
(* threads that read and write sectors, the controller, and the interrupt  *)
(* handler, all interleaved.                                               *)
(*                                                                         *)
(* The devices are not part of the source: Device* is the behaviour that   *)
(* the driver expects of them, with errors and with interrupts that belong *)
(* to no command.  The status that the driver reads is that of the device  *)
(* selected on the channel.  A device that is busy becomes ready within    *)
(* the time that the driver waits for it.                                  *)
(***************************************************************************)
EXTENDS Integers

CONSTANTS
  CHANNEL_CNT,
  Threads,        \* threads that use the disks once they are found
  Main,           \* the thread that runs ide_init
  Values,         \* contents of a sector
  Capacity,       \* sectors of a disk
  Sectors,        \* the sectors that callers ask for
  Errors,         \* whether devices may fail
  MaxSpurious,    \* bound on interrupts without a command
  NONE

Channels == 0..(CHANNEL_CNT - 1)
Disks == Channels \X {0, 1}
Chan(d) == d[1]
Agents == Threads \cup {Main}
Blank == CHOOSE v \in Values : TRUE

(* The calls of block_read and block_write, and of identify_ata_device.    *)
Requests == [op : {"read", "write", "identify"}, disk : Disks, sector : 0..(Capacity - 1),
             buf : Values \cup {Blank, NONE, "failed"}]

ASSUME IdeAssumption ==
  /\ CHANNEL_CNT \in Nat \ {0} /\ Capacity \in Nat \ {0} /\ MaxSpurious \in Nat
  /\ Sectors \subseteq Nat /\ Errors \in BOOLEAN
  /\ Main \notin Threads /\ NONE \notin Agents \cup Requests

(* What is attached: an ATA disk, one over 1 GB, another device, nothing,  *)
(* or nothing that answers and an error code that rules out a slave.       *)
Kinds == {"ata", "huge", "packet", "absent", "alone"}

VARIABLES
  kind,                 \* external: what is attached
  status,               \* external: "ready", "busy", "drq" or "hung" for each device
  intrq,                \* external: devices that request an interrupt
  command,              \* external: what each device is doing
  data,                 \* external: the data register of each device
  disk,                 \* external: the sectors of each device
  spurious,             \* spurious interrupts so far
  selected,             \* the device register of each channel
  lock,                 \* channel.lock
  expecting_interrupt,
  completion_wait,
  is_ata,               \* the devices with d->is_ata set
  all_blocks,           \* the disks that are registered
  boot,                 \* the disk that ide_init is at, and how far, or "done"
  pc,                   \* where each thread is in a request
  req,                  \* its request
  panic,
  acked                 \* history: what the last write of a sector that returned wrote

Present(d) == kind[d] \notin {"absent", "alone"}

deviceVars == <<kind, status, intrq, command, data, disk, spurious>>
driverVars == <<selected, lock, expecting_interrupt, completion_wait>>
bootVars == <<is_ata, all_blocks, boot>>
threadVars == <<pc, req, panic, acked>>
vars == <<deviceVars, driverVars, bootVars, threadVars>>

Init ==
  /\ kind \in [Disks -> Kinds]
  /\ status = [d \in Disks |-> "ready"]
  /\ intrq = {}
  /\ command = [d \in Disks |-> NONE]
  /\ data = [d \in Disks |-> Blank]
  /\ disk = [d \in Disks |-> [s \in 0..(Capacity - 1) |-> Blank]]
  /\ spurious = 0
  /\ selected = [c \in Channels |-> <<c, 0>>]
  /\ lock = [c \in Channels |-> NONE]
  /\ expecting_interrupt = [c \in Channels |-> FALSE]
  /\ completion_wait = [c \in Channels |-> 0]
  /\ is_ata = {}
  /\ all_blocks = {}
  /\ boot = [at |-> "reset", disk |-> <<0, 0>>]
  /\ pc = [t \in Agents |-> "idle"]
  /\ req = [t \in Agents |-> NONE]
  /\ panic = FALSE
  /\ acked = disk

-----------------------------------------------------------------------------
(* External: the devices.                                                  *)

DeviceReady(d) ==
  LET cmd == command[d]
  IN /\ status[d] = "busy"
     /\ \/ /\ cmd.op \in {"read", "identify"}
           /\ status' = [status EXCEPT ![d] = "drq"]
           /\ data' = [data EXCEPT ![d] = IF cmd.op = "read" THEN disk[d][cmd.sector] ELSE @]
           /\ intrq' = intrq \cup {d}
           /\ UNCHANGED <<disk, command>>
        \/ /\ cmd.op = "write"
           /\ status' = [status EXCEPT ![d] = "drq"]
           /\ UNCHANGED <<intrq, data, disk, command>>
        \/ /\ cmd.op = "store"
           /\ disk' = [disk EXCEPT ![d] = [disk[d] EXCEPT ![cmd.sector] = data[d]]]
           /\ status' = [status EXCEPT ![d] = "ready"]
           /\ intrq' = intrq \cup {d}
           /\ command' = [command EXCEPT ![d] = NONE]
           /\ UNCHANGED data
     /\ UNCHANGED <<kind, spurious, driverVars, bootVars, threadVars>>

(* The command is aborted: no data, but an interrupt.                      *)
DeviceError(d) ==
  /\ Errors
  /\ status[d] = "busy" /\ command[d].op # "store"
  /\ status' = [status EXCEPT ![d] = "ready"]
  /\ intrq' = intrq \cup {d}
  /\ command' = [command EXCEPT ![d] = NONE]
  /\ UNCHANGED <<kind, data, disk, spurious, driverVars, bootVars, threadVars>>

DeviceSpurious(d) ==
  /\ spurious < MaxSpurious
  /\ spurious' = spurious + 1
  /\ intrq' = intrq \cup {d}
  /\ UNCHANGED <<kind, status, command, data, disk, driverVars, bootVars, threadVars>>

-----------------------------------------------------------------------------
(* interrupt_handler: only the selected device drives the line.  Reading   *)
(* the status register withdraws the request.                              *)
interrupt_handler(c) ==
  LET d == selected[c]
  IN /\ ~panic /\ d \in intrq
     /\ intrq' = intrq \ {d}
     /\ completion_wait' = IF expecting_interrupt[c]
                           THEN [completion_wait EXCEPT ![c] = @ + 1]
                           ELSE completion_wait
     /\ UNCHANGED <<kind, status, command, data, disk, spurious, selected, lock,
                    expecting_interrupt, bootVars, threadVars>>

-----------------------------------------------------------------------------
(* Requests.                                                               *)

Goto(t, l) == pc' = [pc EXCEPT ![t] = l]
At(t, l) == ~panic /\ pc[t] = l

(* block_read and block_write, with check_sector.                          *)
Request(t, op, d, sector, value) ==
  /\ At(t, "idle") /\ req[t] = NONE
  /\ IF sector >= Capacity
     THEN panic' = TRUE /\ UNCHANGED <<pc, req>>
     ELSE /\ req' = [req EXCEPT ![t] = [op |-> op, disk |-> d, sector |-> sector, buf |-> value]]
          /\ Goto(t, "lock")
          /\ UNCHANGED panic
  /\ UNCHANGED <<deviceVars, driverVars, acked>>

(* Fault: ide_read and ide_write do not take the lock of the channel.      *)
LockSkipped(t) ==
  /\ At(t, "lock")
  /\ Goto(t, "idle1")
  /\ UNCHANGED <<deviceVars, driverVars, bootVars, req, panic, acked>>

Lock(t) ==
  LET c == Chan(req[t].disk)
  IN /\ At(t, "lock") /\ lock[c] = NONE
     /\ lock' = [lock EXCEPT ![c] = t]
     /\ Goto(t, "idle1")
     /\ UNCHANGED <<deviceVars, selected, expecting_interrupt, completion_wait, bootVars,
                    req, panic, acked>>

(* A device that hangs is not waited for any longer: "idle timeout".       *)
wait_until_idle(d) == status[d] \in {"ready", "hung"}

(* select_device_wait: idle, select, idle.  Each poll reads the status     *)
(* register of the device selected at the time.                            *)
WaitIdle(t) ==
  LET c == Chan(req[t].disk)
      d == selected[c]
      idle == wait_until_idle(d)
  IN /\ At(t, "idle1") \/ At(t, "idle2")
     /\ intrq' = intrq \ {d}
     /\ selected' = IF idle THEN [selected EXCEPT ![c] = req[t].disk] ELSE selected
     /\ Goto(t, IF ~idle THEN pc[t] ELSE IF pc[t] = "idle1" THEN "idle2" ELSE "issue")
     /\ UNCHANGED <<kind, status, command, data, disk, spurious, lock, expecting_interrupt,
                    completion_wait, bootVars, req, panic, acked>>

(* Fault: no interrupt is expected.                                        *)
IssueUnexpected(t) ==
  LET r == req[t]
      d == selected[Chan(r.disk)]
  IN /\ At(t, "issue")
     /\ status' = [status EXCEPT ![d] = "busy"]
     /\ command' = [command EXCEPT ![d] = [op |-> r.op, sector |-> r.sector]]
     /\ Goto(t, IF r.op = "write" THEN "busy" ELSE "down")
     /\ UNCHANGED <<kind, intrq, data, disk, spurious, driverVars, bootVars, req, panic, acked>>

(* issue_pio_command.  A busy device ignores commands.                     *)
Issue(t) ==
  LET r == req[t]
      c == Chan(r.disk)
      d == selected[c]
  IN /\ At(t, "issue")
     /\ expecting_interrupt' = [expecting_interrupt EXCEPT ![c] = TRUE]
     /\ IF status[d] = "busy"
        THEN UNCHANGED <<status, command>>
        ELSE /\ status' = [status EXCEPT ![d] = "busy"]
             /\ command' = [command EXCEPT ![d] = [op |-> r.op, sector |-> r.sector]]
     /\ Goto(t, IF r.op = "write" THEN "busy" ELSE "down")
     /\ UNCHANGED <<kind, intrq, data, disk, spurious, selected, lock, completion_wait,
                    bootVars, req, panic, acked>>

(* sema_down on completion_wait.                                           *)
Down(t) ==
  LET c == Chan(req[t].disk)
  IN /\ At(t, "down") /\ completion_wait[c] > 0
     /\ completion_wait' = [completion_wait EXCEPT ![c] = @ - 1]
     /\ Goto(t, IF req[t].op = "write" THEN "unlock" ELSE "busy")
     /\ UNCHANGED <<deviceVars, selected, lock, expecting_interrupt, bootVars,
                    req, panic, acked>>

(* input_sector: the buffer of the caller is filled.                       *)
Fill(t, v) ==
  LET r == req[t]
  IN req' = [req EXCEPT ![t] = [op |-> r.op, disk |-> r.disk, sector |-> r.sector, buf |-> v]]

(* wait_while_busy, and then input_sector or output_sector.                *)
Transfer(t) ==
  LET r == req[t]
      c == Chan(r.disk)
      d == selected[c]
  IN /\ At(t, "busy") /\ status[d] # "busy"
     /\ \/ /\ status[d] = "ready" /\ r.op # "identify"
           /\ panic' = TRUE
           /\ UNCHANGED <<status, command, data, req, pc>>
        \/ /\ status[d] = "ready" /\ r.op = "identify"
           /\ Fill(t, "failed")
           /\ Goto(t, "unlock")
           /\ UNCHANGED <<status, command, data, panic>>
        \/ /\ status[d] = "drq" /\ r.op = "write"
           /\ data' = [data EXCEPT ![d] = r.buf]
           /\ status' = [status EXCEPT ![d] = "busy"]
           /\ command' = [command EXCEPT ![d] = [op |-> "store", sector |-> command[d].sector]]
           /\ Goto(t, "down")
           /\ UNCHANGED <<req, panic>>
        \/ /\ status[d] = "drq" /\ r.op # "write"
           /\ Fill(t, data[d])
           /\ status' = [status EXCEPT ![d] = "ready"]
           /\ command' = [command EXCEPT ![d] = NONE]
           /\ Goto(t, "unlock")
           /\ UNCHANGED <<data, panic>>
     /\ UNCHANGED <<kind, intrq, disk, spurious, driverVars, bootVars, acked>>

Unlock(t) ==
  LET r == req[t]
  IN /\ At(t, "unlock") /\ r.op # "identify"
     /\ lock' = [lock EXCEPT ![Chan(r.disk)] = NONE]
     /\ acked' = IF r.op = "write"
                 THEN [acked EXCEPT ![r.disk] = [acked[r.disk] EXCEPT ![r.sector] = r.buf]]
                 ELSE acked
     /\ req' = [req EXCEPT ![t] = NONE]
     /\ Goto(t, "idle")
     /\ UNCHANGED <<deviceVars, selected, expecting_interrupt, completion_wait, bootVars, panic>>

-----------------------------------------------------------------------------
(* ide_init.  Devices come out of the reset, or hang.                      *)
reset_channel ==
  LET c == Chan(boot.disk)
      present == {d \in Disks : Chan(d) = c /\ Present(d)}
  IN /\ ~panic /\ boot.at = "reset" /\ req[Main] = NONE
     /\ \E hung \in SUBSET present :
          /\ hung = {} \/ Errors
          /\ status' = [d \in Disks |-> IF d \in hung THEN "hung" ELSE status[d]]
     /\ selected' = [selected EXCEPT ![c] = IF <<c, 1>> \in present THEN <<c, 1>> ELSE <<c, 0>>]
     /\ boot' = [at |-> "check", disk |-> boot.disk]
     /\ UNCHANGED <<kind, intrq, command, data, disk, spurious, lock, expecting_interrupt,
                    completion_wait, is_ata, all_blocks, threadVars>>

AfterCheck(d) ==
  IF d[2] = 0 /\ kind[d] # "alone" THEN [at |-> "check", disk |-> <<d[1], 1>>]
                                   ELSE [at |-> "identify", disk |-> <<d[1], 0>>]

(* The signature in the registers after the reset tells ATA disks from     *)
(* other devices.                                                          *)
check_device_type ==
  LET d == boot.disk
  IN /\ ~panic /\ boot.at = "check"
     /\ is_ata' = IF kind[d] \in {"ata", "huge"} /\ status[d] = "ready"
                  THEN is_ata \cup {d} ELSE is_ata \ {d}
     /\ boot' = AfterCheck(d)
     /\ selected' = [selected EXCEPT ![Chan(d)] = d]
     /\ intrq' = intrq \ {d}
     /\ UNCHANGED <<kind, status, command, data, disk, spurious, lock, expecting_interrupt,
                    completion_wait, all_blocks, threadVars>>

AfterDisk(d) ==
  IF d[2] = 0 THEN [at |-> "identify", disk |-> <<d[1], 1>>]
  ELSE IF d[1] + 1 \in Channels THEN [at |-> "reset", disk |-> <<d[1] + 1, 0>>]
  ELSE [at |-> "done", disk |-> d]

(* identify_ata_device: a read without the lock, of the disk's identity.   *)
IdentifyStart ==
  LET d == boot.disk
  IN /\ ~panic /\ boot.at = "identify" /\ req[Main] = NONE
     /\ IF d \in is_ata
        THEN /\ req' = [req EXCEPT ![Main] =
                          [op |-> "identify", disk |-> d, sector |-> 0, buf |-> NONE]]
             /\ Goto(Main, "idle1")
             /\ UNCHANGED boot
        ELSE boot' = AfterDisk(d) /\ UNCHANGED <<req, pc>>
     /\ UNCHANGED <<deviceVars, driverVars, is_ata, all_blocks, panic, acked>>

(* The disk is registered unless it does not answer or is over 1 GB, and   *)
(* its partition table is read.                                            *)
IdentifyEnd ==
  LET d == boot.disk
      ok == req[Main].buf # "failed" /\ kind[d] # "huge"
  IN /\ At(Main, "unlock") /\ req[Main].op = "identify"
     /\ is_ata' = IF ok THEN is_ata \cup {d} ELSE is_ata \ {d}
     /\ all_blocks' = IF ok THEN all_blocks \cup {d} ELSE all_blocks
     /\ boot' = IF ok THEN [at |-> "scan", disk |-> d] ELSE AfterDisk(d)
     /\ req' = [req EXCEPT ![Main] = NONE]
     /\ Goto(Main, "idle")
     /\ UNCHANGED <<deviceVars, driverVars, panic, acked>>

PartitionScan ==
  /\ ~panic /\ boot.at = "scan"
  /\ Request(Main, "read", boot.disk, 0, NONE)
  /\ boot' = AfterDisk(boot.disk)
  /\ UNCHANGED <<is_ata, all_blocks>>

ThreadRequest(t) ==
  /\ boot.at = "done" /\ req[Main] = NONE
  /\ \E d \in all_blocks, s \in Sectors :
       Request(t, "read", d, s, NONE) \/ \E v \in Values : Request(t, "write", d, s, v)
  /\ UNCHANGED bootVars

-----------------------------------------------------------------------------
Step(t) ==
  Lock(t) \/ WaitIdle(t) \/ Issue(t) \/ Down(t) \/ Transfer(t) \/ Unlock(t)

Boot == reset_channel \/ check_device_type \/ IdentifyStart \/ IdentifyEnd \/ PartitionScan

Next ==
  \/ Boot
  \/ \E t \in Agents : Step(t)
  \/ \E t \in Threads : ThreadRequest(t)
  \/ \E d \in Disks : DeviceReady(d) \/ DeviceError(d) \/ DeviceSpurious(d)
  \/ \E c \in Channels : interrupt_handler(c)

(* What is on its way goes on: the boot, a request, the device that has    *)
(* one, its interrupt.  Nobody has to make a request, and nothing says     *)
(* that a woken waiter gets the lock before its last holder takes it back. *)
Progress ==
  \/ Boot
  \/ \E t \in Agents : Step(t)
  \/ \E d \in Disks : DeviceReady(d)
  \/ \E c \in Channels : interrupt_handler(c)

Spec == Init /\ [][Next]_vars /\ WF_vars(Progress)

-----------------------------------------------------------------------------
(* A command is written to a device that is not busy, and data is moved    *)
(* only for the command of the request.                                    *)
OneCommand ==
  \A t \in Agents :
    LET r == req[t]
    IN /\ pc[t] = "issue" => selected[Chan(r.disk)] = r.disk /\ status[r.disk] = "ready"
       /\ pc[t] = "busy" /\ status[r.disk] # "ready"
            => selected[Chan(r.disk)] = r.disk /\ command[r.disk] = [op |-> r.op, sector |-> r.sector]

(* ide.c, "Internally synchronizes accesses to disks, so external per-disk *)
(* locking is unneeded": a read that returns has what the last write of    *)
(* that sector wrote, whatever other threads did on the channel, also when *)
(* an interrupt without a command has upset completion_wait; and the       *)
(* controller never sees two requests at a time.                           *)
ReadsLatest ==
  /\ OneCommand
  /\ \A t \in Agents :
       pc[t] = "unlock" /\ req[t].op = "read" => req[t].buf = acked[req[t].disk][req[t].sector]

(* "Returns after the disk has acknowledged receiving the data": a request *)
(* that has the lock returns, or the machine panics; a poll of the status  *)
(* register that swallows an interrupt strands nobody.  A request that     *)
(* waits for the lock gets it, or another request returns.                 *)
RequestReturns ==
  \A t \in Agents :
    /\ pc[t] \notin {"idle", "lock"} ~> (pc[t] = "idle" \/ panic)
    /\ pc[t] = "lock" ~> (pc[t] # "lock" \/ panic \/ \E u \in Agents \ {t} : pc[u] = "unlock")
=============================================================================
