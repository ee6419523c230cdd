----------------------------- MODULE InodeProofs -----------------------------
(***************************************************************************)
(* Proofs about the readers-writers protocol of an inode, and that         *)
(* inode_read_at and inode_write_at, which go sector by sector through a   *)
(* bounce buffer, implement the atomic reads and writes of AtomicFile, for *)
(* any number of threads, any file length, any sector size and any         *)
(* requests.                                                               *)
(***************************************************************************)
EXTENDS Inode, FiniteSetTheorems, TLAPS

(* Zenon proves a leaf unless the leaf names another prover.               *)
USE ZenonT(60)

(* The threads between sema_down and sema_up of readers_lock.              *)
InReadersLock(t) == pc[t] \in {"read_wait", "read_enter", "read_exit"}

(* readers_lock is a mutual exclusion lock around current_readers.         *)
ReadersLockInv ==
  /\ readers_lock = 1 => \A t \in Threads : ~InReadersLock(t)
  /\ \A t, u \in Threads : InReadersLock(t) /\ InReadersLock(u) => t = u

(* Who holds writers_lock: the writer, or the readers together.  A reader  *)
(* that waits for it is the first, and one that enters has it.             *)
WritersLockInv ==
  /\ \A t \in Threads : pc[t] = "read_wait" => current_readers = 0
  /\ \A t \in Threads : pc[t] \in {"read_enter", "writing"} => writers_lock = 0
  /\ current_readers > 0 => writers_lock = 0
  /\ \A t \in Threads : pc[t] = "writing" =>
       /\ current_readers = 0
       /\ \A u \in Threads : pc[u] # "read_enter" /\ (pc[u] = "writing" => u = t)

IInv == TypeOK /\ ReadersCounted /\ ReadersLockInv /\ WritersLockInv

-----------------------------------------------------------------------------
(* Facts about the threads that are counted.                               *)

LEMMA CountedFinite == IsFiniteSet(Counted) /\ IsFiniteSet(Counted')
BY InodeAssumption, FS_Subset DEF Counted, InodeAssumption

LEMMA CountedPositive ==
  ASSUME ReadersCounted, NEW t \in Counted
  PROVE  current_readers \in Nat \ {0}
<1>1. Cardinality(Counted) \in Nat
  BY CountedFinite, FS_CardinalityType
<1>2. Cardinality(Counted) # 0
  BY CountedFinite, FS_EmptySet
<1> QED BY <1>1, <1>2 DEF ReadersCounted

LEMMA CountedSame ==
  ASSUME ReadersCounted, Counted' = Counted, current_readers' = current_readers
  PROVE  ReadersCounted'
BY DEF ReadersCounted

-----------------------------------------------------------------------------
(* The size of a chunk.                                                    *)

LEMMA ChunkType ==
  ASSUME NEW r \in Requests
  PROVE  /\ ChunkSize(r) \in Int
         /\ ChunkSize(r) <= r.size
         /\ ChunkSize(r) <= Length - r.offset
         /\ ChunkSize(r) <= SectorSize - (r.offset % SectorSize)
<1>1. r.offset % SectorSize \in Nat
  BY InodeAssumption, SMTT(60) DEF Requests, InodeAssumption
<1> QED BY <1>1, InodeAssumption, SMTT(60) DEF ChunkSize, Least, Requests, InodeAssumption

(* Every byte of the file lies in one of its sectors.                      *)
LEMMA SectorOfByte ==
  ASSUME NEW x \in Nat, x < Length
  PROVE  byte_to_sector(x) \in Sectors
<1> DEFINE q == x \div SectorSize
           n == (Length + SectorSize - 1) \div SectorSize
<1>1. q \in Nat /\ SectorSize * q <= x
  BY InodeAssumption, SMTT(60) DEF InodeAssumption
<1>2. n \in Nat /\ Length + SectorSize - 1 < SectorSize * n + SectorSize
  BY InodeAssumption, SMTT(60) DEF InodeAssumption
<1>3. n <= q => SectorSize * n <= SectorSize * q
  BY <1>1, <1>2, InodeAssumption, SMTT(60) DEF InodeAssumption
<1>4. q <= n - 1
  <2> HIDE DEF q, n
  <2> QED BY <1>1, <1>2, <1>3, InodeAssumption, SMTT(60) DEF InodeAssumption
<1> QED BY <1>1, <1>4, SMTT(60) DEF byte_to_sector, Sectors, bytes_to_sectors

(* Taking one chunk off a request leaves a request.                        *)
LEMMA AdvanceType ==
  ASSUME TypeOK, NEW t \in Threads, MoreChunks(t), Advance(t)
  PROVE  req' \in [Threads -> Requests]
<1> DEFINE r == req[t]
           n == ChunkSize(r)
<1>1. r \in Requests
  BY DEF TypeOK
<1>2. n \in Int /\ 0 < n /\ n <= r.size
  BY <1>1, ChunkType DEF MoreChunks
<1>3. [offset |-> r.offset + n, size |-> r.size - n, done |-> r.done + n,
       byte |-> r.byte] \in Requests
  <2> HIDE DEF n
  <2> QED BY <1>1, <1>2, SMTT(60) DEF Requests
<1>4. req' = [req EXCEPT ![t] = [offset |-> r.offset + n, size |-> r.size - n,
                                 done |-> r.done + n, byte |-> r.byte]]
  BY DEF Advance
<1> HIDE DEF r, n
<1> QED BY <1>3, <1>4 DEF TypeOK

-----------------------------------------------------------------------------
(* Steps that move a thread within one side of the protocol.               *)

LEMMA SidewaysIInv ==
  ASSUME IInv, TypeOK', UNCHANGED lockVars, NEW t \in Threads, NEW l \in PCs, Goto(t, l),
         \/ pc[t] = "idle" /\ l \in {"read", "write"}
         \/ pc[t] = "reading" /\ l \in {"reading", "read_leave"}
         \/ pc[t] = "writing" /\ l = "writing"
  PROVE  IInv'
<1>1. ReadersCounted'
  <2>1. Counted' = Counted
    BY DEF IInv, TypeOK, Goto, Counted
  <2> QED BY <2>1, CountedSame DEF IInv, lockVars
<1>2. ReadersLockInv'
  BY SMTT(60) DEF IInv, TypeOK, Goto, ReadersLockInv, InReadersLock, lockVars
<1>3. WritersLockInv'
  BY DEF IInv, TypeOK, Goto, WritersLockInv, lockVars
<1> QED BY <1>1, <1>2, <1>3 DEF IInv

-----------------------------------------------------------------------------
(* inode_read_at keeps the invariant.                                      *)

LEMMA ReadDownIInv ==
  ASSUME IInv, NEW t \in Threads, ReadDown(t)
  PROVE  IInv'
<1>1. TypeOK'
  BY SMTT(60) DEF IInv, TypeOK, PCs, ReadDown, Goto, ioVars
<1>2. ReadersCounted'
  <2>1. Counted' = Counted
    BY DEF IInv, TypeOK, ReadDown, Goto, Counted
  <2> QED BY <2>1, CountedSame DEF IInv, ReadDown
<1>3. ReadersLockInv'
  BY SMTT(60) DEF IInv, TypeOK, ReadDown, Goto, ReadersLockInv, InReadersLock
<1>4. WritersLockInv'
  BY SMTT(60) DEF IInv, TypeOK, ReadDown, Goto, WritersLockInv
<1> QED BY <1>1, <1>2, <1>3, <1>4 DEF IInv

LEMMA ReadWaitIInv ==
  ASSUME IInv, NEW t \in Threads, ReadWait(t)
  PROVE  IInv'
<1>1. TypeOK'
  BY SMTT(60) DEF IInv, TypeOK, PCs, ReadWait, Goto, ioVars
<1>2. ReadersCounted'
  <2>1. Counted' = Counted
    BY DEF IInv, TypeOK, ReadWait, Goto, Counted
  <2> QED BY <2>1, CountedSame DEF IInv, ReadWait
<1>3. ReadersLockInv'
  BY DEF IInv, TypeOK, ReadWait, Goto, ReadersLockInv, InReadersLock
<1>4. WritersLockInv'
  BY SMTT(60) DEF IInv, TypeOK, ReadWait, Goto, WritersLockInv, ReadersLockInv, InReadersLock
<1> QED BY <1>1, <1>2, <1>3, <1>4 DEF IInv

LEMMA ReadEnterIInv ==
  ASSUME IInv, NEW t \in Threads, ReadEnter(t)
  PROVE  IInv'
<1>1. TypeOK'
  <2>1. readers_lock = 0
    BY SMTT(60) DEF IInv, TypeOK, ReadersLockInv, InReadersLock, ReadEnter
  <2> QED BY <2>1, SMTT(60) DEF IInv, TypeOK, PCs, ReadEnter, Goto, ioVars
<1>2. ReadersCounted'
  <2>1. t \notin Counted /\ Counted' = Counted \cup {t}
    BY DEF IInv, TypeOK, ReadEnter, Goto, Counted
  <2>2. Cardinality(Counted') = Cardinality(Counted) + 1
    BY <2>1, CountedFinite, FS_AddElement
  <2> QED BY <2>2 DEF IInv, ReadEnter, ReadersCounted
<1>3. ReadersLockInv'
  BY DEF IInv, TypeOK, ReadEnter, Goto, ReadersLockInv, InReadersLock
<1>4. WritersLockInv'
  BY DEF IInv, TypeOK, ReadEnter, Goto, WritersLockInv, ReadersLockInv, InReadersLock
<1> QED BY <1>1, <1>2, <1>3, <1>4 DEF IInv

LEMMA ReadChunkIInv ==
  ASSUME IInv, NEW t \in Threads, ReadChunk(t)
  PROVE  IInv'
<1>1. TypeOK'
  BY AdvanceType DEF IInv, TypeOK, ReadChunk, GetBounce, NeedsBounce, lockVars
<1>2. Goto(t, "reading")
  BY DEF IInv, TypeOK, ReadChunk, Goto
<1> QED BY <1>1, <1>2, SidewaysIInv DEF ReadChunk, PCs

LEMMA ReadEndIInv ==
  ASSUME IInv, NEW t \in Threads, ReadEnd(t)
  PROVE  IInv'
<1>1. TypeOK'
  BY DEF IInv, TypeOK, PCs, ReadEnd, Goto, lockVars
<1> QED BY <1>1, SidewaysIInv DEF ReadEnd, PCs

LEMMA ReadLeaveIInv ==
  ASSUME IInv, NEW t \in Threads, ReadLeave(t)
  PROVE  IInv'
<1>1. TypeOK'
  BY SMTT(60) DEF IInv, TypeOK, PCs, ReadLeave, Goto, ioVars
<1>2. ReadersCounted'
  <2>1. Counted' = Counted
    BY DEF IInv, TypeOK, ReadLeave, Goto, Counted
  <2> QED BY <2>1, CountedSame DEF IInv, ReadLeave
<1>3. ReadersLockInv'
  BY SMTT(60) DEF IInv, TypeOK, ReadLeave, Goto, ReadersLockInv, InReadersLock
<1>4. WritersLockInv'
  BY DEF IInv, TypeOK, ReadLeave, Goto, WritersLockInv
<1> QED BY <1>1, <1>2, <1>3, <1>4 DEF IInv

LEMMA ReadExitIInv ==
  ASSUME IInv, NEW t \in Threads, ReadExit(t)
  PROVE  IInv'
<1>1. current_readers \in Nat \ {0}
  BY CountedPositive DEF IInv, ReadExit, Counted
<1>2. TypeOK'
  <2>1. readers_lock = 0 /\ writers_lock = 0
    BY <1>1, SMTT(60) DEF IInv, TypeOK, ReadersLockInv, InReadersLock, WritersLockInv, ReadExit
  <2> QED BY <1>1, <2>1, SMTT(60) DEF IInv, TypeOK, PCs, ReadExit, Goto, ioVars
<1>3. ReadersCounted'
  <2>1. t \in Counted /\ Counted' = Counted \ {t}
    BY DEF IInv, TypeOK, ReadExit, Goto, Counted
  <2>2. Cardinality(Counted') = Cardinality(Counted) - 1
    BY <2>1, CountedFinite, FS_RemoveElement
  <2> QED BY <2>2 DEF IInv, ReadExit, ReadersCounted
<1>4. ReadersLockInv'
  BY DEF IInv, TypeOK, ReadExit, Goto, ReadersLockInv, InReadersLock
<1>5. WritersLockInv'
  BY <1>1, SMTT(60) DEF IInv, TypeOK, ReadExit, Goto, WritersLockInv, ReadersLockInv,
     InReadersLock
<1> QED BY <1>2, <1>3, <1>4, <1>5 DEF IInv

-----------------------------------------------------------------------------
(* inode_write_at keeps the invariant.                                     *)

LEMMA WriteDownIInv ==
  ASSUME IInv, NEW t \in Threads, WriteDown(t)
  PROVE  IInv'
<1>1. TypeOK'
  BY SMTT(60) DEF IInv, TypeOK, PCs, WriteDown, Goto, ioVars
<1>2. ReadersCounted'
  <2>1. Counted' = Counted
    BY DEF IInv, TypeOK, WriteDown, Goto, Counted
  <2> QED BY <2>1, CountedSame DEF IInv, WriteDown
<1>3. ReadersLockInv'
  BY DEF IInv, TypeOK, WriteDown, Goto, ReadersLockInv, InReadersLock
<1>4. WritersLockInv'
  BY SMTT(60) DEF IInv, TypeOK, WriteDown, Goto, WritersLockInv
<1> QED BY <1>1, <1>2, <1>3, <1>4 DEF IInv

LEMMA WriteChunkIInv ==
  ASSUME IInv, NEW t \in Threads, WriteChunk(t)
  PROVE  IInv'
<1>1. disk' \in [Sectors -> [0..(SectorSize - 1) -> Bytes]]
  BY InodeAssumption DEF IInv, TypeOK, Requests, WriteChunk, InodeAssumption
<1>2. TypeOK'
  BY <1>1, AdvanceType DEF IInv, TypeOK, WriteChunk, GetBounce, NeedsBounce, lockVars
<1>3. Goto(t, "writing")
  BY DEF IInv, TypeOK, WriteChunk, Goto
<1> QED BY <1>2, <1>3, SidewaysIInv DEF WriteChunk, PCs

LEMMA WriteEndIInv ==
  ASSUME IInv, NEW t \in Threads, WriteEnd(t)
  PROVE  IInv'
<1>1. TypeOK'
  <2>1. writers_lock = 0
    BY DEF IInv, WritersLockInv, WriteEnd
  <2> QED BY <2>1, SMTT(60) DEF IInv, TypeOK, PCs, WriteEnd, Goto
<1>2. ReadersCounted'
  <2>1. Counted' = Counted
    BY DEF IInv, TypeOK, WriteEnd, Goto, Counted
  <2> QED BY <2>1, CountedSame DEF IInv, WriteEnd
<1>3. ReadersLockInv'
  BY DEF IInv, TypeOK, WriteEnd, Goto, ReadersLockInv, InReadersLock
<1>4. WritersLockInv'
  BY SMTT(60) DEF IInv, TypeOK, WriteEnd, Goto, WritersLockInv
<1> QED BY <1>1, <1>2, <1>3, <1>4 DEF IInv

-----------------------------------------------------------------------------
LEMMA CallIInv ==
  ASSUME IInv, NEW t \in Threads, NEW l \in {"read", "write"}, Call(t, l)
  PROVE  IInv'
<1>1. TypeOK'
  <2>1. req' \in [Threads -> Requests]
    BY InodeAssumption, SMTT(60) DEF IInv, TypeOK, Requests, Call, InodeAssumption
  <2>2. calls' \in [Threads -> 0..MaxCalls]
    BY InodeAssumption, SMTT(60) DEF IInv, TypeOK, Call, InodeAssumption
  <2> QED BY <2>1, <2>2 DEF IInv, TypeOK, PCs, Call, Goto, lockVars
<1> QED BY <1>1, SidewaysIInv DEF Call, PCs

LEMMA InitIInv == Init => IInv
<1> SUFFICES ASSUME Init PROVE IInv
  OBVIOUS
<1>1. TypeOK
  BY InodeAssumption, SMTT(60) DEF Init, TypeOK, PCs, Requests, InodeAssumption
<1>2. ReadersCounted
  BY FS_EmptySet DEF Init, ReadersCounted, Counted
<1>3. ReadersLockInv /\ WritersLockInv
  BY SMTT(60) DEF Init, ReadersLockInv, InReadersLock, WritersLockInv
<1> QED BY <1>1, <1>2, <1>3 DEF IInv

LEMMA NextIInv == IInv /\ [Next]_vars => IInv'
<1> SUFFICES ASSUME IInv, [Next]_vars PROVE IInv'
  OBVIOUS
<1>1. ASSUME NEW t \in Threads, Step(t) PROVE IInv'
  BY <1>1, ReadDownIInv, ReadWaitIInv, ReadEnterIInv, ReadChunkIInv, ReadEndIInv,
     ReadLeaveIInv, ReadExitIInv, WriteDownIInv, WriteChunkIInv, WriteEndIInv
     DEF Step
<1>2. ASSUME NEW t \in Threads, Call(t, "read") \/ Call(t, "write") PROVE IInv'
  BY <1>2, CallIInv
<1>3. CASE UNCHANGED vars
  <2>1. Counted' = Counted
    BY <1>3 DEF vars, Counted
  <2> QED BY <1>3, <2>1, CountedSame DEF IInv, TypeOK, ReadersLockInv, InReadersLock,
               WritersLockInv, vars, lockVars, ioVars
<1> QED BY <1>1, <1>2, <1>3 DEF Next, Done

(* Every reachable state satisfies the inductive invariant.                *)
LEMMA SpecIInv == Spec => []IInv
BY InitIInv, NextIInv, PTL DEF Spec

(* Types: the two semaphores stay binary, and a request never counts more  *)
(* bytes than were asked for.                                              *)
THEOREM SpecTypeOK == Spec => []TypeOK
<1>1. IInv => TypeOK
  BY DEF IInv
<1> QED BY <1>1, SpecIInv, PTL

(* A writer is alone in the inode, whatever the order in which threads     *)
(* come and go.                                                            *)
THEOREM SpecWritersExclude == Spec => []WritersExclude
<1>1. IInv => WritersExclude
  <2> SUFFICES ASSUME IInv, NEW t \in Threads, NEW u \in Threads, pc[t] = "writing", t # u
               PROVE  u \notin Counted /\ pc[u] \notin {"writing", "read_enter"}
    BY DEF WritersExclude
  <2>1. current_readers = 0 /\ pc[u] \notin {"writing", "read_enter"}
    BY DEF IInv, WritersLockInv
  <2>2. u \notin Counted
    BY <2>1, CountedPositive DEF IInv
  <2> QED BY <2>1, <2>2
<1> QED BY <1>1, SpecIInv, PTL

(* current_readers is the number of readers inside the inode.              *)
THEOREM SpecReadersCounted == Spec => []ReadersCounted
<1>1. IInv => ReadersCounted
  BY DEF IInv
<1> QED BY <1>1, SpecIInv, PTL

(* No transfer reaches past the end of the file or of a sector.            *)
LEMMA SpecSectorsOfFile == Spec => []SectorsOfFile
<1>1. IInv => SectorsOfFile
  <2> SUFFICES ASSUME IInv, NEW t \in Threads, MoreChunks(t)
               PROVE  /\ byte_to_sector(req[t].offset) \in Sectors
                      /\ req[t].offset + ChunkSize(req[t]) <= Length
                      /\ (req[t].offset % SectorSize) + ChunkSize(req[t]) <= SectorSize
    BY DEF SectorsOfFile
  <2> DEFINE r == req[t]
  <2>1. r \in Requests /\ ChunkSize(r) > 0
    BY DEF IInv, TypeOK, MoreChunks
  <2>2. r.offset \in Nat /\ r.offset % SectorSize \in Nat
    BY <2>1, InodeAssumption, SMTT(60) DEF Requests, InodeAssumption
  <2> HIDE DEF r
  <2>3. r.offset < Length
    BY <2>1, <2>2, ChunkType, InodeAssumption, SMTT(60) DEF InodeAssumption
  <2>4. byte_to_sector(r.offset) \in Sectors
    BY <2>2, <2>3, SectorOfByte
  <2>5. /\ r.offset + ChunkSize(r) <= Length
        /\ (r.offset % SectorSize) + ChunkSize(r) <= SectorSize
    BY <2>1, <2>2, ChunkType, InodeAssumption, SMTT(60) DEF InodeAssumption
  <2> QED BY <2>4, <2>5 DEF r
<1> QED BY <1>1, SpecIInv, PTL

(* The reason for which the loop of a read ended.                          *)
EndOfRead(t) ==
  req[t].size = 0 \/ req[t].offset >= Length \/ (MallocFails /\ NeedsBounce(t))

LEMMA LoopEndReason ==
  ASSUME IInv, NEW t \in Threads, LoopEnds(t) PROVE EndOfRead(t)
<1> DEFINE r == req[t]
<1>1. r \in Requests
  BY DEF IInv, TypeOK
<1>2. CASE ~MoreChunks(t)
  <2>1. ~(r.size > 0 /\ ChunkSize(r) > 0)
    BY <1>2 DEF MoreChunks
  <2>2. r.size \in Nat /\ r.offset \in Nat /\ SectorSize - (r.offset % SectorSize) > 0
    BY <1>1, InodeAssumption, SMTT(60) DEF Requests, InodeAssumption
  <2>3. r.size = 0 \/ r.offset >= Length
    BY <2>1, <2>2, InodeAssumption, SMTT(60) DEF ChunkSize, Least, InodeAssumption
  <2> QED BY <2>3 DEF EndOfRead
<1>3. CASE MallocFails /\ NeedsBounce(t)
  BY <1>3 DEF EndOfRead
<1> QED BY <1>2, <1>3 DEF LoopEnds

(* Once the loop of a read has ended, its request does not change.         *)
LEMMA NextShort ==
  ASSUME IInv, [Next]_vars, ShortOnlyWithoutMemory PROVE ShortOnlyWithoutMemory'
<1> SUFFICES ASSUME NEW u \in Threads, pc'[u] \in {"read_leave", "read_exit"}
             PROVE  EndOfRead(u)'
  BY DEF ShortOnlyWithoutMemory, EndOfRead
<1>0. pc[u] \in {"read_leave", "read_exit"} => EndOfRead(u)
  BY DEF ShortOnlyWithoutMemory, EndOfRead
<1>a. ASSUME req'[u] = req[u], EndOfRead(u) PROVE EndOfRead(u)'
  BY <1>a DEF EndOfRead, NeedsBounce
<1>1. ASSUME NEW t \in Threads, Step(t) PROVE EndOfRead(u)'
  <2>1. CASE ReadEnd(t)
    <3>1. req'[u] = req[u] /\ (u # t => pc'[u] = pc[u])
      BY <2>1 DEF ReadEnd, Goto, IInv, TypeOK
    <3>2. u = t => EndOfRead(u)
      BY <2>1, LoopEndReason DEF ReadEnd
    <3> QED BY <1>0, <1>a, <3>1, <3>2
  <2>2. CASE ReadChunk(t) \/ WriteChunk(t)
    <3>1. u # t /\ pc'[u] = pc[u] /\ req'[u] = req[u]
      BY <2>2 DEF ReadChunk, WriteChunk, Advance, IInv, TypeOK
    <3> QED BY <1>0, <1>a, <3>1
  <2>3. CASE ReadDown(t) \/ ReadWait(t) \/ ReadEnter(t) \/ ReadLeave(t) \/ ReadExit(t)
             \/ WriteDown(t) \/ WriteEnd(t)
    <3>1. req' = req
      BY <2>3 DEF ReadDown, ReadWait, ReadEnter, ReadLeave, ReadExit, WriteDown, WriteEnd,
                  ioVars
    <3>2. pc[u] \in {"read_leave", "read_exit"}
      BY <2>3 DEF ReadDown, ReadWait, ReadEnter, ReadLeave, ReadExit, WriteDown, WriteEnd,
                  Goto, IInv, TypeOK
    <3> QED BY <1>0, <1>a, <3>1, <3>2
  <2> QED BY <1>1, <2>1, <2>2, <2>3 DEF Step
<1>2. ASSUME NEW t \in Threads, NEW l \in {"read", "write"}, Call(t, l) PROVE EndOfRead(u)'
  <2>1. u # t /\ pc'[u] = pc[u] /\ req'[u] = req[u]
    BY <1>2 DEF Call, Goto, IInv, TypeOK
  <2> QED BY <1>0, <1>a, <2>1
<1>3. CASE UNCHANGED vars
  BY <1>0, <1>3, <1>a DEF vars, ioVars
<1> QED BY <1>1, <1>2, <1>3 DEF Next, Done

(* Both of the transfers, for every sector size, file length and request:  *)
(* they stay within the file and the sector, and a read that returns less  *)
(* than was asked for has met the end of the file or has no bounce buffer. *)
THEOREM SpecTransfersExact == Spec => []TransfersExact
<1>1. Init => ShortOnlyWithoutMemory
  BY DEF Init, ShortOnlyWithoutMemory
<1>2. IInv /\ [Next]_vars /\ ShortOnlyWithoutMemory => ShortOnlyWithoutMemory'
  BY NextShort
<1>3. SectorsOfFile /\ ShortOnlyWithoutMemory => TransfersExact
  BY DEF TransfersExact
<1> QED BY <1>1, <1>2, <1>3, SpecIInv, SpecSectorsOfFile, PTL DEF Spec

-----------------------------------------------------------------------------
(* The refinement of AtomicFile.                                           *)

(* The bytes that the request of t has handled so far.                     *)
Handled(t) == (req[t].offset - req[t].done)..(req[t].offset - 1)

InRead(t) == pc[t] \in {"read", "read_wait", "read_enter", "reading", "read_leave", "read_exit"}

(* A request has handled a range of the file, and nothing before it enters *)
(* the inode.                                                              *)
RangeInv ==
  \A t \in Threads :
    /\ req[t].done <= req[t].offset
    /\ req[t].done = 0 \/ req[t].offset <= Length
    /\ pc[t] \in {"read", "read_wait", "read_enter", "write"} => req[t].done = 0

(* What a read has so far is what the file has.                            *)
ReadInv ==
  \A t \in Threads : InRead(t) => buffer[t] = [i \in Handled(t) |-> committed[i]]

(* The disk has the file, but for what a writer has changed so far.        *)
DiskInv ==
  /\ (\A t \in Threads : pc[t] # "writing") => committed = FileOf(disk)
  /\ \A t \in Threads : pc[t] = "writing" =>
       FileOf(disk) = [i \in Positions |-> IF i \in Handled(t) THEN req[t].byte ELSE committed[i]]

RInv == DOMAIN buffer = Threads /\ RangeInv /\ ReadInv /\ DiskInv

-----------------------------------------------------------------------------
(* Positions and sectors.                                                  *)

LEMMA DivMod ==
  ASSUME NEW x \in Nat, NEW q, q = x \div SectorSize, NEW r, r = x % SectorSize
  PROVE  /\ q \in Nat /\ r \in 0..(SectorSize - 1) /\ SectorSize * q \in Nat
         /\ x = SectorSize * q + r
<1>1. q \in Nat /\ r \in 0..(SectorSize - 1)
  BY InodeAssumption, SMTT(60) DEF InodeAssumption
<1>2. x = SectorSize * q + r
  BY <1>1, InodeAssumption, SMTT(60) DEF InodeAssumption
<1>3. SectorSize * q \in Nat
  BY <1>1, InodeAssumption, SMTT(60) DEF InodeAssumption
<1> QED BY <1>1, <1>2, <1>3

LEMMA DivUnique ==
  ASSUME NEW q \in Nat, NEW p \in Nat, NEW x \in Nat,
         SectorSize * q <= x, x < SectorSize * q + SectorSize,
         SectorSize * p <= x, x < SectorSize * p + SectorSize
  PROVE  q = p
<1>1. ASSUME NEW a \in Nat, NEW b \in Nat, a < b PROVE SectorSize * a + SectorSize <= SectorSize * b
  <2>1. PICK k \in Nat : b = a + 1 + k
    <3>1. b - a - 1 \in Nat /\ b = a + 1 + (b - a - 1)
      BY <1>1, SMTT(60)
    <3> QED BY <3>1
  <2>2. SectorSize * b = SectorSize * a + SectorSize + SectorSize * k
    BY <2>1, InodeAssumption, SMTT(60) DEF InodeAssumption
  <2>3. SectorSize * k \in Nat /\ SectorSize * a \in Nat
    BY InodeAssumption, SMTT(60) DEF InodeAssumption
  <2> QED BY <2>2, <2>3, InodeAssumption, SMTT(60) DEF InodeAssumption
<1>2. ~(q < p)
  BY <1>1, InodeAssumption, SMTT(60) DEF InodeAssumption
<1>3. ~(p < q)
  BY <1>1, InodeAssumption, SMTT(60) DEF InodeAssumption
<1> QED BY <1>2, <1>3, SMTT(60)

(* The bytes of a chunk are side by side in one sector.                    *)
LEMMA ChunkSector ==
  ASSUME NEW x \in Nat, NEW n \in Nat, (x % SectorSize) + n <= SectorSize, NEW i \in x..(x + n - 1)
  PROVE  /\ i \div SectorSize = x \div SectorSize
         /\ i % SectorSize = (x % SectorSize) + (i - x)
<1> DEFINE q == x \div SectorSize
           p == i \div SectorSize
           Q == SectorSize * q
           P == SectorSize * p
           u == x % SectorSize
           v == i % SectorSize
<1>0. i \in Nat /\ x <= i /\ i < x + n /\ u + n <= SectorSize /\ SectorSize \in Nat
  BY InodeAssumption, SMTT(60) DEF InodeAssumption
<1>1. q \in Nat /\ u \in 0..(SectorSize - 1) /\ Q \in Nat /\ x = Q + u
  BY DivMod
<1>2. p \in Nat /\ v \in 0..(SectorSize - 1) /\ P \in Nat /\ i = P + v
  BY <1>0, DivMod
<1>4. (Q <= i /\ i < Q + SectorSize /\ P <= i /\ i < P + SectorSize) => q = p
  <2> HIDE DEF q, p
  <2> QED BY <1>0, <1>1, <1>2, DivUnique DEF P, Q
<1> HIDE DEF P, Q, u, v
<1>5. Q <= i /\ i < Q + SectorSize /\ P <= i /\ i < P + SectorSize
  BY <1>0, <1>1, <1>2, SMTT(60)
<1>6. q = p /\ P = Q
  BY <1>4, <1>5 DEF P, Q
<1>7. v = u + (i - x)
  BY <1>0, <1>1, <1>2, <1>6, SMTT(60)
<1> QED BY <1>6, <1>7 DEF u, v

(* In the sector of x, every byte is as far from x as its offset tells.    *)
LEMMA ChunkOffset ==
  ASSUME NEW x \in Nat, NEW i \in Nat, i \div SectorSize = x \div SectorSize
  PROVE  (i % SectorSize) - (x % SectorSize) = i - x
<1> DEFINE Q == SectorSize * (x \div SectorSize)
           u == x % SectorSize
           v == i % SectorSize
<1>1. Q \in Nat /\ u \in 0..(SectorSize - 1) /\ x = Q + u
  BY DivMod
<1>2. v \in 0..(SectorSize - 1) /\ i = Q + v
  BY DivMod
<1>3. SectorSize \in Nat
  BY InodeAssumption DEF InodeAssumption
<1> HIDE DEF Q, u, v
<1>4. v - u = i - x
  BY <1>1, <1>2, <1>3, SMTT(60)
<1> QED BY <1>4 DEF u, v

-----------------------------------------------------------------------------
(* One chunk of a request.                                                 *)

LEMMA ChunkFacts ==
  ASSUME TypeOK, NEW t \in Threads, MoreChunks(t), NEW n, n = ChunkSize(req[t]),
         NEW x, x = req[t].offset
  PROVE  /\ n \in Nat \ {0} /\ x \in Nat /\ x + n <= Length
         /\ (x % SectorSize) + n <= SectorSize
         /\ byte_to_sector(x) = x \div SectorSize /\ byte_to_sector(x) \in Sectors
<1>1. req[t] \in Requests /\ x \in Nat /\ n > 0
  BY DEF TypeOK, Requests, MoreChunks
<1>2. n \in Nat \ {0} /\ n <= Length - x /\ n <= SectorSize - (x % SectorSize)
  BY <1>1, ChunkType, SMTT(60)
<1>3. x % SectorSize \in Nat /\ SectorSize \in Nat /\ Length \in Nat
  BY <1>1, InodeAssumption, SMTT(60) DEF InodeAssumption
<1>4. x + n <= Length /\ (x % SectorSize) + n <= SectorSize /\ x < Length
  BY <1>1, <1>2, <1>3, SMTT(60)
<1> QED BY <1>1, <1>2, <1>4, SectorOfByte DEF byte_to_sector

LEMMA AdvanceFacts ==
  ASSUME TypeOK, RangeInv, NEW t \in Threads, MoreChunks(t), Advance(t),
         pc' = pc, pc[t] \in {"reading", "writing"},
         NEW n, n = ChunkSize(req[t]), NEW x, x = req[t].offset
  PROVE  /\ RangeInv'
         /\ Handled(t)' = Handled(t) \cup (x..(x + n - 1))
         /\ Handled(t) \cap (x..(x + n - 1)) = {}
         /\ req'[t].byte = req[t].byte
         /\ \A u \in Threads \ {t} : req'[u] = req[u]
<1> DEFINE d == req[t].done
<1>1. n \in Nat \ {0} /\ x \in Nat /\ x + n <= Length
  BY ChunkFacts
<1>2. d \in Nat /\ d <= x
  BY DEF TypeOK, Requests, RangeInv
<1>3. /\ req'[t].offset = x + n /\ req'[t].done = d + n /\ req'[t].byte = req[t].byte
      /\ \A u \in Threads \ {t} : req'[u] = req[u]
  BY DEF Advance, TypeOK
<1>4. RangeInv'
  BY <1>1, <1>2, <1>3, SMTT(60) DEF RangeInv
<1>5. (x + n - (d + n))..(x + n - 1) = ((x - d)..(x - 1)) \cup (x..(x + n - 1))
  BY <1>1, <1>2, SMTT(60)
<1>6. ((x - d)..(x - 1)) \cap (x..(x + n - 1)) = {}
  BY <1>1, <1>2, SMTT(60)
<1>7. Handled(t)' = (x + n - (d + n))..(x + n - 1)
  <2>1. Handled(t)' = (req'[t].offset - req'[t].done)..(req'[t].offset - 1)
    BY DEF Handled
  <2>2. req'[t].offset = x + n /\ req'[t].done = d + n
    BY <1>3
  <2>3. req'[t].offset - req'[t].done = x + n - (d + n) /\ req'[t].offset - 1 = x + n - 1
    BY <1>1, <1>2, <2>2, SMTT(60)
  <2> QED BY <2>1, <2>3
<1>8. Handled(t) = (x - d)..(x - 1)
  BY DEF Handled
<1> HIDE DEF d
<1> QED BY <1>3, <1>4, <1>5, <1>6, <1>7, <1>8

-----------------------------------------------------------------------------
(* What a request has does not change while it only waits or finishes.     *)
LEMMA MoveRInv ==
  ASSUME IInv, RInv, NEW t \in Threads, NEW l, Goto(t, l),
         \/ pc[t] = "read" /\ l \in {"read_wait", "read_enter"}
         \/ pc[t] = "read_wait" /\ l = "read_enter"
         \/ pc[t] = "read_enter" /\ l = "reading"
         \/ pc[t] = "reading" /\ l = "read_leave"
         \/ pc[t] = "read_leave" /\ l = "read_exit"
         \/ pc[t] = "read_exit" /\ l = "idle",
         UNCHANGED <<req, buffer, disk, committed>>
  PROVE  RInv'
<1>1. \A u \in Threads : pc'[u] = IF u = t THEN l ELSE pc[u]
  BY DEF Goto, IInv, TypeOK
<1>2. RangeInv'
  BY <1>1 DEF RInv, RangeInv
<1>3. ReadInv'
  BY <1>1, SMTT(60) DEF RInv, ReadInv, InRead, Handled
<1>4. DiskInv'
  BY <1>1, SMTT(60) DEF RInv, DiskInv, Handled, FileOf, ByteAt
<1> QED BY <1>2, <1>3, <1>4 DEF RInv

LEMMA CallRInv ==
  ASSUME IInv, RInv, NEW t \in Threads, NEW l \in {"read", "write"}, Call(t, l)
  PROVE  RInv'
<1>1. PICK x \in Extents, byte \in Bytes :
        req' = [req EXCEPT ![t] = [offset |-> x[1], size |-> x[2], done |-> 0, byte |-> byte]]
  BY DEF Call
<1>2. x[1] \in Nat
  BY InodeAssumption DEF InodeAssumption
<1>3. /\ \A u \in Threads : pc'[u] = IF u = t THEN l ELSE pc[u]
      /\ \A u \in Threads \ {t} : req'[u] = req[u] /\ buffer'[u] = buffer[u]
      /\ req'[t].offset = x[1] /\ req'[t].done = 0 /\ buffer'[t] = NoBytes
      /\ DOMAIN buffer' = Threads /\ UNCHANGED <<disk, committed>>
  BY <1>1 DEF Call, Goto, IInv, TypeOK, RInv, history
<1>4. RangeInv'
  BY <1>2, <1>3, SMTT(60) DEF RInv, RangeInv
<1>5. Handled(t)' = {}
  BY <1>2, <1>3, SMTT(60) DEF Handled
<1>6. ReadInv'
  <2> SUFFICES ASSUME NEW u \in Threads, InRead(u)'
               PROVE  buffer'[u] = [i \in Handled(u)' |-> committed'[i]]
    BY DEF ReadInv
  <2>1. CASE u = t
    BY <1>3, <1>5, <2>1 DEF NoBytes
  <2>2. CASE u # t
    BY <1>3, <2>2, SMTT(60) DEF RInv, ReadInv, InRead, Handled
  <2> QED BY <2>1, <2>2
<1>7. DiskInv'
  <2>1. pc[t] # "writing" /\ FileOf(disk)' = FileOf(disk)
    BY <1>3 DEF Call, FileOf, ByteAt
  <2> QED BY <1>3, <2>1, SMTT(60) DEF RInv, DiskInv, Handled
<1> QED BY <1>3, <1>4, <1>6, <1>7 DEF RInv

LEMMA WriteDownRInv ==
  ASSUME IInv, RInv, NEW t \in Threads, WriteDown(t)
  PROVE  RInv'
<1>1. /\ \A u \in Threads : pc'[u] = IF u = t THEN "writing" ELSE pc[u]
      /\ UNCHANGED <<req, buffer, disk, committed>>
  BY DEF WriteDown, Goto, IInv, TypeOK, ioVars, history
<1>2. \A u \in Threads : pc[u] # "writing"
  BY SMTT(60) DEF WriteDown, IInv, WritersLockInv
<1>3. RangeInv'
  BY <1>1 DEF RInv, RangeInv
<1>4. ReadInv'
  BY <1>1, SMTT(60) DEF RInv, ReadInv, InRead, Handled
<1>5. Handled(t) = {} /\ committed = FileOf(disk)
  BY <1>2, SMTT(60) DEF WriteDown, RInv, RangeInv, DiskInv, Handled, IInv, TypeOK, Requests
<1>6. FileOf(disk) = [i \in Positions |-> IF i \in Handled(t) THEN req[t].byte ELSE committed[i]]
  BY <1>5 DEF FileOf
<1>7. DiskInv'
  BY <1>1, <1>2, <1>6 DEF DiskInv, Handled, FileOf, ByteAt
<1> QED BY <1>1, <1>3, <1>4, <1>7 DEF RInv

-----------------------------------------------------------------------------
(* A chunk that is read: no writer is inside, so the disk has the file.    *)
LEMMA ReadChunkRInv ==
  ASSUME IInv, RInv, NEW t \in Threads, ReadChunk(t)
  PROVE  RInv'
<1> DEFINE x == req[t].offset
           n == ChunkSize(req[t])
           new == x..(x + n - 1)
           s == disk[byte_to_sector(x)]
<1>1. /\ n \in Nat \ {0} /\ x \in Nat /\ x + n <= Length /\ (x % SectorSize) + n <= SectorSize
      /\ byte_to_sector(x) = x \div SectorSize
  BY ChunkFacts DEF ReadChunk, IInv
<1>2. committed = FileOf(disk)
  <2>1. t \in Counted
    BY DEF ReadChunk, Counted
  <2>2. current_readers \in Nat \ {0}
    BY <2>1, CountedPositive DEF IInv
  <2>3. \A u \in Threads : pc[u] # "writing"
    BY <2>2 DEF IInv, WritersLockInv
  <2> QED BY <2>3 DEF RInv, DiskInv
<1>3. \A i \in new : s[i % SectorSize] = committed[i]
  <2> SUFFICES ASSUME NEW i \in new PROVE s[i % SectorSize] = committed[i]
    OBVIOUS
  <2>1. i \in Positions
    BY <1>1, InodeAssumption, SMTT(60) DEF Positions, InodeAssumption
  <2>2. i \div SectorSize = x \div SectorSize
    <3> HIDE DEF n, x
    <3> QED BY <1>1, ChunkSector
  <2>3. committed[i] = disk[i \div SectorSize][i % SectorSize]
    BY <1>2, <2>1 DEF FileOf, ByteAt
  <2> QED BY <1>1, <2>2, <2>3
<1>4. /\ RangeInv'
      /\ Handled(t)' = Handled(t) \cup new /\ Handled(t) \cap new = {}
      /\ \A u \in Threads \ {t} : req'[u] = req[u]
  BY AdvanceFacts DEF ReadChunk, IInv, RInv
<1>5. buffer[t] = [i \in Handled(t) |-> committed[i]]
  BY DEF ReadChunk, RInv, ReadInv, InRead
<1>6. /\ buffer' = [buffer EXCEPT ![t] = [i \in DOMAIN buffer[t] \cup new |->
                      IF i \in new THEN s[i % SectorSize] ELSE buffer[t][i]]]
      /\ UNCHANGED <<pc, disk, committed>>
  BY DEF ReadChunk, history
<1> HIDE DEF x, n, new, s
<1>7. /\ DOMAIN buffer' = Threads /\ \A u \in Threads \ {t} : buffer'[u] = buffer[u]
      /\ buffer'[t] = [i \in DOMAIN buffer[t] \cup new |->
                         IF i \in new THEN s[i % SectorSize] ELSE buffer[t][i]]
  BY <1>6 DEF RInv
<1>8. DOMAIN buffer[t] = Handled(t) /\ \A i \in Handled(t) : buffer[t][i] = committed[i]
  BY <1>5
<1>9. buffer'[t] = [i \in Handled(t)' |-> committed[i]]
  BY <1>3, <1>4, <1>7, <1>8, SMTT(60)
<1>10. ReadInv'
  <2> SUFFICES ASSUME NEW u \in Threads \ {t}, InRead(u)'
               PROVE  buffer'[u] = [i \in Handled(u)' |-> committed[i]]
    BY <1>6, <1>9, SMTT(60) DEF ReadInv
  <2>1. Handled(u)' = Handled(u) /\ InRead(u)
    BY <1>4, <1>6 DEF Handled, InRead
  <2> QED BY <1>7, <2>1 DEF RInv, ReadInv
<1>11. DiskInv'
  BY <1>4, <1>6, SMTT(60) DEF RInv, DiskInv, Handled, FileOf, ByteAt, ReadChunk
<1> QED BY <1>4, <1>7, <1>10, <1>11 DEF RInv

(* A chunk that is written: the other bytes of its sector are kept.        *)
LEMMA WriteChunkRInv ==
  ASSUME IInv, RInv, NEW t \in Threads, WriteChunk(t)
  PROVE  RInv'
<1> DEFINE x == req[t].offset
           n == ChunkSize(req[t])
           new == x..(x + n - 1)
           ofs == x % SectorSize
           idx == byte_to_sector(x)
           b == req[t].byte
           keep == ofs > 0 \/ n < SectorSize - ofs
<1>1. /\ n \in Nat \ {0} /\ x \in Nat /\ x + n <= Length /\ ofs + n <= SectorSize
      /\ idx = x \div SectorSize /\ idx \in Sectors
  BY ChunkFacts DEF WriteChunk, IInv
<1>2. ofs \in Nat /\ SectorSize \in Nat
  BY <1>1, InodeAssumption, SMTT(60) DEF InodeAssumption
<1>3. /\ disk' = [disk EXCEPT ![idx] = [i \in 0..(SectorSize - 1) |->
                    IF i \in ofs..(ofs + n - 1) THEN b ELSE IF keep THEN disk[idx][i] ELSE 0]]
      /\ UNCHANGED <<pc, buffer, committed>>
  BY DEF WriteChunk, history
<1>4. /\ RangeInv'
      /\ Handled(t)' = Handled(t) \cup new /\ Handled(t) \cap new = {} /\ req'[t].byte = b
      /\ \A u \in Threads \ {t} : req'[u] = req[u]
  BY AdvanceFacts DEF WriteChunk, IInv, RInv
<1>5. ASSUME NEW i \in Positions
      PROVE  ByteAt(disk', i) = IF i \in new THEN b ELSE ByteAt(disk, i)
  <2> DEFINE k == i % SectorSize
  <2>1. i \in Nat /\ i < Length /\ k \in 0..(SectorSize - 1)
    BY InodeAssumption, SMTT(60) DEF InodeAssumption, Positions
  <2>2. i \div SectorSize \in Sectors
    BY <2>1, SectorOfByte DEF byte_to_sector
  <2>3. CASE i \div SectorSize # idx
    <3>1. i \notin new
      <4> HIDE DEF n, x
      <4> QED BY <1>1, <2>3, ChunkSector
    <3>2. disk'[i \div SectorSize] = disk[i \div SectorSize]
      BY <1>1, <1>3, <2>2, <2>3 DEF IInv, TypeOK
    <3> QED BY <3>1, <3>2 DEF ByteAt
  <2>4. CASE i \div SectorSize = idx
    <3>1. k - ofs = i - x
      <4> HIDE DEF x
      <4> QED BY <1>1, <2>1, <2>4, ChunkOffset
    <3>2. disk'[idx][k] = IF k \in ofs..(ofs + n - 1) THEN b
                          ELSE IF keep THEN disk[idx][k] ELSE 0
      <4> HIDE DEF k, n, ofs, idx, b, keep
      <4> QED BY <1>1, <1>3, <2>1 DEF IInv, TypeOK
    <3> HIDE DEF k, ofs, n, x
    <3>3. i \in new <=> k \in ofs..(ofs + n - 1)
      BY <1>1, <1>2, <2>1, <3>1, SMTT(60)
    <3>4. k \notin ofs..(ofs + n - 1) => keep
      BY <1>1, <1>2, <2>1, SMTT(60)
    <3>5. disk'[idx][k] = IF i \in new THEN b ELSE disk[idx][k]
      <4> HIDE DEF keep, new
      <4> QED BY <3>2, <3>3, <3>4
    <3>6. ByteAt(disk', i) = disk'[idx][k] /\ ByteAt(disk, i) = disk[idx][k]
      BY <2>4 DEF ByteAt, k
    <3> QED BY <3>5, <3>6
  <2> QED BY <2>3, <2>4
<1> HIDE DEF x, n, new, ofs, idx, b, keep
<1>6. FileOf(disk) = [i \in Positions |-> IF i \in Handled(t) THEN b ELSE committed[i]]
  BY DEF WriteChunk, RInv, DiskInv, b
<1>7. FileOf(disk') = [i \in Positions |-> IF i \in Handled(t)' THEN b ELSE committed[i]]
  <2>1. \A i \in Positions : ByteAt(disk, i) = IF i \in Handled(t) THEN b ELSE committed[i]
    BY <1>6 DEF FileOf
  <2>2. \A i \in Positions : ByteAt(disk', i) = IF i \in Handled(t)' THEN b ELSE committed[i]
    BY <1>4, <1>5, <2>1
  <2> QED BY <2>2 DEF FileOf
<1>8. \A u \in Threads : pc[u] = "writing" => u = t
  BY DEF WriteChunk, IInv, WritersLockInv
<1>9. DiskInv'
  BY <1>3, <1>4, <1>7, <1>8 DEF DiskInv, WriteChunk, FileOf, ByteAt
<1>10. ReadInv'
  BY <1>3, <1>4, SMTT(60) DEF RInv, ReadInv, InRead, Handled, WriteChunk
<1> QED BY <1>3, <1>4, <1>9, <1>10 DEF RInv

(* The end of a write: no reader is inside.                                *)
LEMMA WriteEndRInv ==
  ASSUME IInv, RInv, NEW t \in Threads, WriteEnd(t)
  PROVE  RInv'
<1>1. /\ \A u \in Threads : pc'[u] = IF u = t THEN "idle" ELSE pc[u]
      /\ committed' = FileOf(disk) /\ UNCHANGED <<req, buffer, disk>> /\ pc[t] = "writing"
  BY DEF WriteEnd, Goto, IInv, TypeOK
<1>2. \A u \in Threads : pc'[u] # "writing"
  BY <1>1 DEF IInv, WritersLockInv
<1>3. RangeInv'
  BY <1>1 DEF RInv, RangeInv
<1>4. ReadInv'
  <2> SUFFICES ASSUME NEW u \in Threads, InRead(u)'
               PROVE  buffer[u] = [i \in Handled(u) |-> committed'[i]]
    BY <1>1 DEF ReadInv, Handled
  <2>1. u # t /\ InRead(u)
    BY <1>1 DEF InRead
  <2>2. u \notin Counted
    BY <1>1, <2>1, CountedPositive DEF IInv, WritersLockInv
  <2>3. req[u].done = 0 /\ req[u].offset \in Nat
    BY <2>1, <2>2 DEF Counted, InRead, RInv, RangeInv, IInv, TypeOK, Requests
  <2>4. Handled(u) = {}
    BY <2>3, SMTT(60) DEF Handled
  <2> QED BY <2>1, <2>4 DEF RInv, ReadInv
<1>5. DiskInv'
  BY <1>1, <1>2 DEF DiskInv, FileOf, ByteAt
<1> QED BY <1>1, <1>3, <1>4, <1>5 DEF RInv

LEMMA InitRInv == Init => RInv
<1> SUFFICES ASSUME Init PROVE RInv
  OBVIOUS
<1> QED BY InodeAssumption, SMTT(60) DEF Init, RInv, RangeInv, ReadInv, InRead, DiskInv,
           InodeAssumption

LEMMA NextRInv == IInv /\ RInv /\ [Next]_vars => RInv'
<1> SUFFICES ASSUME IInv, RInv, [Next]_vars PROVE RInv'
  OBVIOUS
<1>1. ASSUME NEW t \in Threads,
             ReadDown(t) \/ ReadWait(t) \/ ReadEnter(t) \/ ReadEnd(t) \/ ReadLeave(t) \/ ReadExit(t)
      PROVE  RInv'
  <2>1. PICK l : /\ Goto(t, l) /\ UNCHANGED <<req, buffer, disk, committed>>
                 /\ \/ pc[t] = "read" /\ l \in {"read_wait", "read_enter"}
                    \/ pc[t] = "read_wait" /\ l = "read_enter"
                    \/ pc[t] = "read_enter" /\ l = "reading"
                    \/ pc[t] = "reading" /\ l = "read_leave"
                    \/ pc[t] = "read_leave" /\ l = "read_exit"
                    \/ pc[t] = "read_exit" /\ l = "idle"
    BY <1>1 DEF ReadDown, ReadWait, ReadEnter, ReadEnd, ReadLeave, ReadExit, ioVars, history
  <2> QED BY <2>1, MoveRInv
<1>2. ASSUME NEW t \in Threads, Step(t) PROVE RInv'
  BY <1>1, <1>2, ReadChunkRInv, WriteDownRInv, WriteChunkRInv, WriteEndRInv DEF Step
<1>3. ASSUME NEW t \in Threads, Call(t, "read") \/ Call(t, "write") PROVE RInv'
  BY <1>3, CallRInv
<1>4. CASE UNCHANGED vars
  BY <1>4, SMTT(60) DEF vars, ioVars, history, RInv, RangeInv, ReadInv, InRead, Handled, DiskInv,
              FileOf, ByteAt
<1> QED BY <1>2, <1>3, <1>4 DEF Next, Done

-----------------------------------------------------------------------------
(* The range that a request has handled, as AtomicFile describes it.       *)
LEMMA HandledRange ==
  ASSUME IInv, RInv, NEW t \in Threads
  PROVE  \E r \in Atomic!Ranges : Handled(t) = r[1]..(r[1] + r[2] - 1)
<1> DEFINE x == req[t].offset
           d == req[t].done
<1>1. x \in Nat /\ d \in Nat /\ d <= x /\ (d = 0 \/ x <= Length) /\ Length \in Nat
  BY InodeAssumption DEF IInv, TypeOK, Requests, RInv, RangeInv, InodeAssumption
<1>2. Handled(t) = (x - d)..(x - 1)
  BY DEF Handled
<1> HIDE DEF x, d
<1>3. CASE d = 0
  <2>1. Handled(t) = 0..(0 + 0 - 1)
    BY <1>1, <1>2, <1>3, SMTT(60)
  <2>2. <<0, 0>> \in Atomic!Ranges
    BY <1>1, SMTT(60) DEF Atomic!Ranges
  <2> QED BY <2>1, <2>2
<1>4. CASE d # 0
  <2>1. Handled(t) = (x - d)..((x - d) + d - 1)
    BY <1>1, <1>2, SMTT(60)
  <2>2. <<x - d, d>> \in Atomic!Ranges
    BY <1>1, <1>4, SMTT(60) DEF Atomic!Ranges
  <2> QED BY <2>1, <2>2
<1> QED BY <1>3, <1>4

LEMMA ReadExitAtomic ==
  ASSUME IInv, RInv, NEW t \in Threads, ReadExit(t)
  PROVE  Atomic!Read(t)
<1>1. /\ result' = [result EXCEPT ![t] = [i \in Handled(t) |-> committed[i]]]
      /\ committed' = committed
  BY DEF ReadExit, RInv, ReadInv, InRead
<1>2. PICK r \in Atomic!Ranges : Handled(t) = r[1]..(r[1] + r[2] - 1)
  BY HandledRange
<1> QED BY <1>1, <1>2 DEF Atomic!Read, Atomic!Slice

LEMMA WriteEndAtomic ==
  ASSUME IInv, RInv, NEW t \in Threads, WriteEnd(t)
  PROVE  Atomic!Write
<1>1. /\ committed' = [i \in Positions |-> IF i \in Handled(t) THEN req[t].byte ELSE committed[i]]
      /\ result' = result
  BY DEF WriteEnd, RInv, DiskInv
<1>2. PICK r \in Atomic!Ranges : Handled(t) = r[1]..(r[1] + r[2] - 1)
  BY HandledRange
<1>3. req[t].byte \in Bytes
  BY DEF IInv, TypeOK, Requests
<1> QED BY <1>1, <1>2, <1>3 DEF Atomic!Write, Atomic!Positions, Positions

LEMMA NextAtomic ==
  IInv /\ RInv /\ [Next]_vars => [Atomic!Next]_<<committed, result>>
<1> SUFFICES ASSUME IInv, RInv, [Next]_vars
             PROVE  [Atomic!Next]_<<committed, result>>
  OBVIOUS
<1>1. ASSUME NEW t \in Threads, Step(t) PROVE [Atomic!Next]_<<committed, result>>
  <2>1. CASE ReadExit(t)
    BY <2>1, ReadExitAtomic DEF Atomic!Next
  <2>2. CASE WriteEnd(t)
    BY <2>2, WriteEndAtomic DEF Atomic!Next
  <2>3. CASE ReadDown(t) \/ ReadWait(t) \/ ReadEnter(t) \/ ReadChunk(t) \/ ReadEnd(t)
             \/ ReadLeave(t) \/ WriteDown(t) \/ WriteChunk(t)
    BY <2>3 DEF ReadDown, ReadWait, ReadEnter, ReadChunk, ReadEnd, ReadLeave, WriteDown,
                WriteChunk, history
  <2> QED BY <1>1, <2>1, <2>2, <2>3 DEF Step
<1>2. ASSUME NEW t \in Threads, Call(t, "read") \/ Call(t, "write")
      PROVE  [Atomic!Next]_<<committed, result>>
  BY <1>2 DEF Call, history
<1>3. CASE UNCHANGED vars
  BY <1>3 DEF vars, history
<1> QED BY <1>1, <1>2, <1>3 DEF Next, Done

LEMMA InitAtomic == Init => Atomic!Init
<1> SUFFICES ASSUME Init PROVE Atomic!Init
  OBVIOUS
<1>1. ASSUME NEW i \in Positions PROVE ByteAt(disk, i) = 0
  <2>1. i \in Nat /\ i < Length /\ i % SectorSize \in 0..(SectorSize - 1)
    BY InodeAssumption, SMTT(60) DEF InodeAssumption, Positions
  <2>2. i \div SectorSize \in Sectors
    BY <2>1, SectorOfByte DEF byte_to_sector
  <2> QED BY <2>1, <2>2 DEF Init, ByteAt
<1>2. committed \in [Positions -> Bytes]
  BY <1>1, InodeAssumption DEF Init, FileOf, InodeAssumption
<1> QED BY <1>2 DEF Init, Atomic!Init, Atomic!Positions, Positions, NoBytes, Atomic!NoBytes

(* Concurrent inode_read_at and inode_write_at of any byte ranges take     *)
(* effect at one instant each: a read never sees a part of a write.        *)
THEOREM SpecImplementsAtomicFile == Spec => ImplementsAtomicFile
<1>1. Init => RInv
  BY InitRInv
<1>2. Spec => []RInv
  BY <1>1, NextRInv, SpecIInv, PTL DEF Spec
<1> QED BY <1>2, SpecIInv, InitAtomic, NextAtomic, PTL DEF Spec, ImplementsAtomicFile, Atomic!Spec

=============================================================================
