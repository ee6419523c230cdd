------------------------------- MODULE Inode -------------------------------
(***************************************************************************)
(* Concurrent inode_read_at and inode_write_at on one open inode of        *)
(* filesys/inode.c: the readers-writers protocol built from two semaphores *)
(* and a counter, and the sector-by-sector transfer it protects.           *)
(*                                                                         *)
(* A thread may be preempted between any two semaphore operations and      *)
(* between any two sectors.  current_readers is only touched between       *)
(* sema_down and sema_up of readers_lock.                                  *)
(***************************************************************************)
EXTENDS Integers, FiniteSets

CONSTANTS
  Threads,      \* the threads that use the inode
  Bytes,        \* byte values, 0 among them
  SectorSize,   \* BLOCK_SECTOR_SIZE
  Length,       \* inode->data.length; files never grow
  Extents,      \* the requests that are made: pairs of an offset and a size
  MaxCalls,     \* bound on the calls one thread makes
  MallocFails   \* whether malloc() of the bounce buffer may fail

ASSUME InodeAssumption ==
  /\ IsFiniteSet(Threads)
  /\ 0 \in Bytes
  /\ SectorSize \in Nat \ {0}
  /\ Length \in Nat
  /\ Extents \subseteq Nat \X Nat
  /\ MaxCalls \in Nat
  /\ MallocFails \in BOOLEAN

VARIABLES
  pc,               \* where each thread is
  req,              \* its request: offset, size left, bytes done, byte written
  buffer,           \* what a reading thread has read so far
  bounce,           \* whether it holds a bounce buffer
  calls,            \* calls it has made
  disk,             \* the sectors of the file
  current_readers,  \* inode->current_readers
  readers_lock,     \* inode->readers_lock.value
  writers_lock,     \* inode->writers_lock.value
  result,           \* history: what the last read of each thread returned
  committed         \* history: the file as the last completed write left it

lockVars == <<current_readers, readers_lock, writers_lock>>
ioVars == <<req, buffer, bounce, calls, disk>>
history == <<result, committed>>
vars == <<pc, lockVars, ioVars, history>>

PCs == {"idle", "read", "read_wait", "read_enter", "reading", "read_leave",
        "read_exit", "write", "writing"}

bytes_to_sectors(size) == (size + SectorSize - 1) \div SectorSize

byte_to_sector(pos) == IF pos < Length THEN pos \div SectorSize ELSE -1

Sectors == 0..(bytes_to_sectors(Length) - 1)
Positions == 0..(Length - 1)
NoBytes == [i \in {} |-> 0]

(* The byte at position i of the file, on a disk d.                        *)
ByteAt(d, i) == d[i \div SectorSize][i % SectorSize]

FileOf(d) == [i \in Positions |-> ByteAt(d, i)]

Least(x, y) == IF x < y THEN x ELSE y

(* Fault: the end of the file is ignored.                                  *)
ChunkSizePastEnd(r) ==
  Least(r.size, SectorSize - (r.offset % SectorSize))

(* chunk_size: what is left of the request, of the inode and of the sector. *)
ChunkSize(r) ==
  Least(r.size, Least(Length - r.offset, SectorSize - (r.offset % SectorSize)))

(* The while loop goes on.                                                 *)
MoreChunks(t) == req[t].size > 0 /\ ChunkSize(req[t]) > 0

(* Only a whole sector is transferred without the bounce buffer.           *)
NeedsBounce(t) ==
  ~(req[t].offset % SectorSize = 0 /\ ChunkSize(req[t]) = SectorSize)

Advance(t) ==
  LET n == ChunkSize(req[t])
  IN req' = [req EXCEPT ![t] = [offset |-> @.offset + n, size |-> @.size - n,
                                done |-> @.done + n, byte |-> @.byte]]

Goto(t, l) == pc' = [pc EXCEPT ![t] = l]

Init ==
  /\ pc = [t \in Threads |-> "idle"]
  /\ req = [t \in Threads |-> [offset |-> 0, size |-> 0, done |-> 0, byte |-> 0]]
  /\ buffer = [t \in Threads |-> NoBytes]
  /\ bounce = [t \in Threads |-> FALSE]
  /\ calls = [t \in Threads |-> 0]
  /\ disk = [s \in Sectors |-> [i \in 0..(SectorSize - 1) |-> 0]]
  /\ current_readers = 0
  /\ readers_lock = 1
  /\ writers_lock = 1
  /\ result = [t \in Threads |-> NoBytes]
  /\ committed = FileOf(disk)

-----------------------------------------------------------------------------
(* A thread calls one of the two functions.                                *)
Call(t, l) ==
  /\ pc[t] = "idle"
  /\ calls[t] < MaxCalls
  /\ calls' = [calls EXCEPT ![t] = @ + 1]
  /\ \E x \in Extents, byte \in Bytes :
       /\ l = "read" => byte = 0
       /\ req' = [req EXCEPT ![t] = [offset |-> x[1], size |-> x[2], done |-> 0, byte |-> byte]]
  /\ buffer' = [buffer EXCEPT ![t] = NoBytes]
  /\ Goto(t, l)
  /\ UNCHANGED <<lockVars, bounce, disk, history>>

(* malloc (BLOCK_SECTOR_SIZE), unless an earlier chunk did it.             *)
GetBounce(t) == bounce' = [bounce EXCEPT ![t] = @ \/ NeedsBounce(t)]

(* The loop is over, or breaks off for want of a bounce buffer.            *)
LoopEnds(t) ==
  \/ ~MoreChunks(t)
  \/ MallocFails /\ MoreChunks(t) /\ NeedsBounce(t) /\ ~bounce[t]

-----------------------------------------------------------------------------
(* inode_read_at.                                                          *)

(* sema_down (&readers_lock); only the first reader goes for writers_lock. *)
ReadDown(t) ==
  /\ pc[t] = "read"
  /\ readers_lock > 0
  /\ readers_lock' = readers_lock - 1
  /\ Goto(t, IF current_readers = 0 THEN "read_wait" ELSE "read_enter")
  /\ UNCHANGED <<current_readers, writers_lock, ioVars, history>>

ReadWait(t) ==
  /\ pc[t] = "read_wait"
  /\ writers_lock > 0
  /\ writers_lock' = writers_lock - 1
  /\ Goto(t, "read_enter")
  /\ UNCHANGED <<current_readers, readers_lock, ioVars, history>>

ReadEnter(t) ==
  /\ pc[t] = "read_enter"
  /\ current_readers' = current_readers + 1
  /\ readers_lock' = readers_lock + 1
  /\ Goto(t, "reading")
  /\ UNCHANGED <<writers_lock, ioVars, history>>

ReadChunk(t) ==
  /\ pc[t] = "reading"
  /\ MoreChunks(t)
  /\ LET r == req[t]
         s == disk[byte_to_sector(r.offset)]
         new == r.offset..(r.offset + ChunkSize(r) - 1)
     IN buffer' = [buffer EXCEPT ![t] =
                     [i \in DOMAIN @ \cup new |-> IF i \in new THEN s[i % SectorSize] ELSE @[i]]]
  /\ GetBounce(t)
  /\ Advance(t)
  /\ UNCHANGED <<pc, lockVars, calls, disk, history>>

ReadEnd(t) ==
  /\ pc[t] = "reading"
  /\ LoopEnds(t)
  /\ bounce' = [bounce EXCEPT ![t] = FALSE]
  /\ Goto(t, "read_leave")
  /\ UNCHANGED <<lockVars, req, buffer, calls, disk, history>>

ReadLeave(t) ==
  /\ pc[t] = "read_leave"
  /\ readers_lock > 0
  /\ readers_lock' = readers_lock - 1
  /\ Goto(t, "read_exit")
  /\ UNCHANGED <<current_readers, writers_lock, ioVars, history>>

(* Fault: any leaving reader lets the writers in.                          *)
ReadExitFirst(t) ==
  /\ pc[t] = "read_exit"
  /\ current_readers' = current_readers - 1
  /\ writers_lock' = 1
  /\ readers_lock' = readers_lock + 1
  /\ result' = [result EXCEPT ![t] = buffer[t]]
  /\ Goto(t, "idle")
  /\ UNCHANGED <<ioVars, committed>>

(* Fault: the last reader keeps the writers out.                           *)
ReadExitLast(t) ==
  /\ pc[t] = "read_exit"
  /\ current_readers' = current_readers - 1
  /\ writers_lock' = writers_lock
  /\ readers_lock' = readers_lock + 1
  /\ result' = [result EXCEPT ![t] = buffer[t]]
  /\ Goto(t, "idle")
  /\ UNCHANGED <<ioVars, committed>>

(* The last reader lets the writers in.                                    *)
ReadExit(t) ==
  /\ pc[t] = "read_exit"
  /\ current_readers' = current_readers - 1
  /\ writers_lock' = IF current_readers' = 0 THEN writers_lock + 1 ELSE writers_lock
  /\ readers_lock' = readers_lock + 1
  /\ result' = [result EXCEPT ![t] = buffer[t]]
  /\ Goto(t, "idle")
  /\ UNCHANGED <<ioVars, committed>>

-----------------------------------------------------------------------------
(* inode_write_at.                                                         *)

WriteDown(t) ==
  /\ pc[t] = "write"
  /\ writers_lock > 0
  /\ writers_lock' = writers_lock - 1
  /\ Goto(t, "writing")
  /\ UNCHANGED <<current_readers, readers_lock, ioVars, history>>

(* Fault: a partial sector is not read first.                              *)
WriteChunkBlind(t) ==
  /\ pc[t] = "writing"
  /\ MoreChunks(t)
  /\ LET r == req[t]
         idx == byte_to_sector(r.offset)
         ofs == r.offset % SectorSize
         n == ChunkSize(r)
         keep == FALSE
     IN disk' = [disk EXCEPT ![idx] =
                   [i \in 0..(SectorSize - 1) |->
                      IF i \in ofs..(ofs + n - 1) THEN r.byte ELSE IF keep THEN @[i] ELSE 0]]
  /\ GetBounce(t)
  /\ Advance(t)
  /\ UNCHANGED <<pc, lockVars, buffer, calls, history>>

(* A partial sector is read, changed and written back; a bounce buffer     *)
(* that covers the whole sector starts from zeros.                         *)
WriteChunk(t) ==
  /\ pc[t] = "writing"
  /\ MoreChunks(t)
  /\ LET r == req[t]
         idx == byte_to_sector(r.offset)
         ofs == r.offset % SectorSize
         n == ChunkSize(r)
         keep == ofs > 0 \/ n < SectorSize - ofs
     IN disk' = [disk EXCEPT ![idx] =
                   [i \in 0..(SectorSize - 1) |->
                      IF i \in ofs..(ofs + n - 1) THEN r.byte ELSE IF keep THEN @[i] ELSE 0]]
  /\ GetBounce(t)
  /\ Advance(t)
  /\ UNCHANGED <<pc, lockVars, buffer, calls, history>>

WriteEnd(t) ==
  /\ pc[t] = "writing"
  /\ LoopEnds(t)
  /\ bounce' = [bounce EXCEPT ![t] = FALSE]
  /\ writers_lock' = writers_lock + 1
  /\ committed' = FileOf(disk)
  /\ Goto(t, "idle")
  /\ UNCHANGED <<current_readers, readers_lock, req, buffer, calls, disk, result>>

-----------------------------------------------------------------------------
Step(t) ==
  \/ ReadDown(t) \/ ReadWait(t) \/ ReadEnter(t) \/ ReadChunk(t) \/ ReadEnd(t)
  \/ ReadLeave(t) \/ ReadExit(t)
  \/ WriteDown(t) \/ WriteChunk(t) \/ WriteEnd(t)

(* No thread has anything left to do.                                      *)
Done ==
  /\ \A t \in Threads : pc[t] = "idle" /\ calls[t] = MaxCalls
  /\ UNCHANGED vars

Next ==
  \/ \E t \in Threads : Step(t) \/ Call(t, "read") \/ Call(t, "write")
  \/ Done

Spec == Init /\ [][Next]_vars

(* The scheduler keeps running every thread that is not blocked.           *)
FairSpec == Spec /\ \A t \in Threads : WF_vars(Step(t))

-----------------------------------------------------------------------------
Requests == [offset : Nat, size : Nat, done : Nat, byte : Bytes]

TypeOK ==
  /\ pc \in [Threads -> PCs]
  /\ req \in [Threads -> Requests]
  /\ bounce \in [Threads -> BOOLEAN]
  /\ calls \in [Threads -> 0..MaxCalls]
  /\ disk \in [Sectors -> [0..(SectorSize - 1) -> Bytes]]
  /\ current_readers \in Nat
  /\ readers_lock \in 0..1
  /\ writers_lock \in 0..1

(* The threads that current_readers counts.                                *)
Counted == {t \in Threads : pc[t] \in {"reading", "read_leave", "read_exit"}}

(* While one thread writes the inode no other thread is writing it, is     *)
(* counted as a reader or has passed the test that lets a reader in.       *)
WritersExclude ==
  \A t, u \in Threads : pc[t] = "writing" /\ t # u =>
    u \notin Counted /\ pc[u] \notin {"writing", "read_enter"}

(* current_readers is the number of readers that are inside.               *)
ReadersCounted == current_readers = Cardinality(Counted)

(* The loops of both functions touch only sectors of the file, and never   *)
(* past its end: byte_to_sector is not asked for a byte the inode lacks.   *)
SectorsOfFile ==
  \A t \in Threads : pc[t] \in {"reading", "writing"} /\ MoreChunks(t) =>
    /\ byte_to_sector(req[t].offset) \in Sectors
    /\ req[t].offset + ChunkSize(req[t]) <= Length
    /\ (req[t].offset % SectorSize) + ChunkSize(req[t]) <= SectorSize

(* Reads and writes of any byte ranges are atomic although both go sector  *)
(* by sector.                                                              *)
Atomic == INSTANCE AtomicFile WITH content <- committed
ImplementsAtomicFile == Atomic!Spec

(* A read is cut short only at the end of the file, or before a sector     *)
(* that it wants a part of and has no bounce buffer for.                   *)
ShortOnlyWithoutMemory ==
  \A t \in Threads : pc[t] \in {"read_leave", "read_exit"} =>
    req[t].size = 0 \/ req[t].offset >= Length \/ (MallocFails /\ NeedsBounce(t))

(* Both of the transfers: where they may go, and when they may stop.       *)
TransfersExact == SectorsOfFile /\ ShortOnlyWithoutMemory

(* Every call returns: no order of arrivals leaves the semaphores so that  *)
(* nobody can go on.                                                       *)
CallsReturn == \A t \in Threads : pc[t] # "idle" ~> pc[t] = "idle"
=============================================================================
