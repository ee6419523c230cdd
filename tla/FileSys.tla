------------------------------ MODULE FileSys ------------------------------
(***************************************************************************)
(* Creating, opening, closing and removing files in filesys.c, inode.c,    *)
(* directory.c and free-map.c: the root directory, the table of open       *)
(* inodes, the free map, and the locks around them.                        *)
(*                                                                         *)
(* A critical section of filesys_lock or free_map_lock calls nothing that  *)
(* waits for another thread, so it is one step, taken when nobody has left *)
(* the lock locked.  dir_lock is held over several steps.  The scan of the *)
(* directory by lookup reads entries one at a time, but an entry never     *)
(* moves, so it is one step too.  The directory is full at DirSlots        *)
(* entries because files do not grow.  The data sectors of the two system  *)
(* files are not part of the device here.                                  *)
(***************************************************************************)
EXTENDS Integers, FiniteSets

CONSTANTS
  Threads,
  Names,          \* valid file names
  BadName,        \* a name that dir_add refuses: empty or too long
  Badness,        \* whether programs use BadName
  MallocFails,    \* whether malloc() of an inode, a directory or a file may fail
  DataSectors,    \* the number of data sectors a new file may have
  DeviceSize,     \* sectors of the device; 0 and 1 are the free map and root
  DirSlots,
  MaxCreates,     \* bound on inode_create calls
  NULL

ASSUME FileSysAssumption ==
  /\ IsFiniteSet(Threads)
  /\ BadName \notin Names
  /\ {Badness, MallocFails} \subseteq BOOLEAN
  /\ DataSectors \subseteq Nat
  /\ {DeviceSize, DirSlots, MaxCreates} \subseteq Nat /\ DeviceSize >= 2
  /\ NULL \notin Threads \cup Names \cup Nat

VARIABLES
  dir,             \* the root directory: the inode sector of each name, or NULL
  free_map,        \* the sectors that are in use
  inode_disk,      \* the inode in each sector: its data start and count, and its file
  open_inodes,     \* the struct inode of each sector that is open, or NULL
  dir_lock,        \* the holder, or NULL
  filesys_lock,    \* the thread that returned with the lock held, or NULL
  panic,           \* the function whose assertion failed, or NULL
  pc, call, name, count, sector, found,    \* of each thread, inside a call
  file,            \* the open file of each thread, as the sector of its inode, or NULL
  created,         \* history: the number of inodes created so far
  leaked,          \* history: data sectors of files whose dir_add failed
  stale            \* history: an open got an inode other than the one it looked up

disk == <<dir, free_map, inode_disk>>
locks == <<dir_lock, filesys_lock>>
locals == <<call, name, count, sector, found>>
history == <<created, leaked, stale>>
vars == <<disk, open_inodes, locks, panic, pc, locals, file, history>>

FREE_MAP_SECTOR == 0
ROOT_DIR_SECTOR == 1
SystemSectors == {FREE_MAP_SECTOR, ROOT_DIR_SECTOR}

Sectors == 0..(DeviceSize - 1)
Extent(inode) == inode.start..(inode.start + inode.count - 1)

Init ==
  /\ dir = [n \in Names |-> NULL]
  /\ free_map = SystemSectors
  /\ inode_disk = [s \in Sectors |-> NULL]
  /\ open_inodes = [s \in Sectors |-> NULL]
  /\ dir_lock = NULL
  /\ filesys_lock = NULL
  /\ panic = NULL
  /\ pc = [t \in Threads |-> "idle"]
  /\ call = [t \in Threads |-> "none"]
  /\ name = [t \in Threads |-> NULL]
  /\ count = [t \in Threads |-> 0]
  /\ sector = [t \in Threads |-> NULL]
  /\ found = [t \in Threads |-> NULL]
  /\ file = [t \in Threads |-> NULL]
  /\ created = 0
  /\ leaked = {}
  /\ stale = FALSE

Goto(t, l) == pc' = [pc EXCEPT ![t] = l]

(* The call is over; its locals are gone.                                  *)
Return(t) ==
  /\ Goto(t, "idle")
  /\ call' = [call EXCEPT ![t] = "none"]
  /\ name' = [name EXCEPT ![t] = NULL]
  /\ count' = [count EXCEPT ![t] = 0]
  /\ sector' = [sector EXCEPT ![t] = NULL]
  /\ found' = [found EXCEPT ![t] = NULL]

(* The call goes on to dir_close.                                          *)
Finish(t) == Goto(t, "dir_close") /\ UNCHANGED locals

(* A critical section of filesys_lock.                                     *)
FilesysLocked(t, l) == pc[t] = l /\ filesys_lock = NULL

(* lock_acquire asserts that the caller does not hold the lock, which it   *)
(* does when an earlier function returned without releasing it.            *)
Relock(t) ==
  /\ \/ filesys_lock = t /\ pc[t] \in {"idle", "dir_close"}
     \/ dir_lock = t /\ pc[t] \in {"dir_add", "remove"}
  /\ panic' = "lock_acquire"
  /\ UNCHANGED <<disk, open_inodes, locks, pc, locals, file, history>>

-----------------------------------------------------------------------------
(* The free map: bitmap_scan_and_flip takes the first run of free sectors. *)
FreeRuns(cnt) ==
  {s \in Sectors : s + cnt <= DeviceSize /\ (s..(s + cnt - 1)) \cap free_map = {}}

FirstFit(cnt) == CHOOSE s \in FreeRuns(cnt) : \A r \in FreeRuns(cnt) : s <= r

(* free_map_release asserts that the sectors are in use.                   *)
free_map_release(sectors) ==
  IF sectors \subseteq free_map
  THEN free_map' = free_map \ sectors /\ UNCHANGED panic
  ELSE panic' = "free_map_release" /\ UNCHANGED free_map

-----------------------------------------------------------------------------
(* Open inodes.                                                            *)

OnDisk(s) == [open_cnt |-> 1, removed |-> FALSE, inode |-> inode_disk[s]]

Counted(inode, cnt) == [inode EXCEPT !.open_cnt = cnt]

(* Fault: a second open is not counted.                                    *)
inode_openUncounted(s) ==
  [open_inodes EXCEPT ![s] = IF @ = NULL THEN OnDisk(s) ELSE @]

(* The table after an inode_open that found memory.                        *)
inode_open(s) ==
  [open_inodes EXCEPT ![s] = IF @ = NULL THEN OnDisk(s) ELSE Counted(@, @.open_cnt + 1)]

(* malloc fails, and inode_open returns with filesys_lock held.            *)
OpenFails(t, s) ==
  /\ MallocFails
  /\ open_inodes[s] = NULL
  /\ filesys_lock' = t
  /\ UNCHANGED open_inodes

(* Fault: the data sectors are not released.                               *)
inode_closeData(s) ==
  LET last == open_inodes[s].open_cnt = 1
  IN /\ open_inodes' =
          [open_inodes EXCEPT ![s] = IF last THEN NULL ELSE Counted(@, @.open_cnt - 1)]
     /\ IF last /\ open_inodes[s].removed
        THEN free_map_release({s})
        ELSE UNCHANGED <<free_map, panic>>

inode_close(s) ==
  LET last == open_inodes[s].open_cnt = 1
  IN /\ open_inodes' =
          [open_inodes EXCEPT ![s] = IF last THEN NULL ELSE Counted(@, @.open_cnt - 1)]
     /\ IF last /\ open_inodes[s].removed
        THEN free_map_release({s} \cup Extent(open_inodes[s].inode))
        ELSE UNCHANGED <<free_map, panic>>

-----------------------------------------------------------------------------
(* A program calls filesys_create, filesys_open or filesys_remove, which   *)
(* open the root directory first.  Without memory for a struct dir they    *)
(* close it again and fail; without memory for its inode they just fail.   *)
Call(t, c, n, k) ==
  /\ FilesysLocked(t, "idle")
  /\ c = "open" => file[t] = NULL
  /\ c = "create" => created + Cardinality({u \in Threads : call[u] = "create"}) < MaxCreates
  /\ \/ /\ open_inodes' = inode_open(ROOT_DIR_SECTOR)
        /\ \/ Goto(t, c)
           \/ MallocFails /\ Goto(t, "dir_close")
        /\ call' = [call EXCEPT ![t] = c]
        /\ name' = [name EXCEPT ![t] = n]
        /\ count' = [count EXCEPT ![t] = k]
        /\ UNCHANGED <<sector, found, filesys_lock>>
     \/ OpenFails(t, ROOT_DIR_SECTOR) /\ UNCHANGED <<pc, locals>>
  /\ UNCHANGED <<disk, dir_lock, panic, file, history>>

(* dir_close, after which filesys_open goes on to file_open.               *)
DirClose(t) ==
  /\ FilesysLocked(t, "dir_close")
  /\ inode_close(ROOT_DIR_SECTOR)
  /\ IF call[t] = "open" /\ sector[t] # NULL
     THEN Goto(t, "file_open") /\ UNCHANGED locals
     ELSE Return(t)
  /\ UNCHANGED <<dir, inode_disk, locks, file, history>>

-----------------------------------------------------------------------------
(* filesys_create.                                                         *)

CreateAllocate(t) ==
  /\ pc[t] = "create"
  /\ IF FreeRuns(1) = {}
     THEN Finish(t) /\ UNCHANGED free_map
     ELSE /\ sector' = [sector EXCEPT ![t] = FirstFit(1)]
          /\ free_map' = free_map \cup {FirstFit(1)}
          /\ Goto(t, "inode_create")
          /\ UNCHANGED <<call, name, count, found>>
  /\ UNCHANGED <<dir, inode_disk, open_inodes, locks, panic, file, history>>

inode_create(t) ==
  /\ FilesysLocked(t, "inode_create")
  /\ \/ /\ FreeRuns(count[t]) # {}
        /\ LET new == [start |-> FirstFit(count[t]), count |-> count[t], id |-> created + 1]
           IN /\ free_map' = free_map \cup Extent(new)
              /\ inode_disk' = [inode_disk EXCEPT ![sector[t]] = new]
        /\ created' = created + 1
        /\ Goto(t, "dir_add")
     \/ /\ FreeRuns(count[t]) # {} => MallocFails
        /\ Goto(t, "create_undo")
        /\ UNCHANGED <<free_map, inode_disk, created>>
  /\ UNCHANGED <<dir, open_inodes, locks, panic, locals, file, leaked, stale>>

(* A bad name makes dir_add return with dir_lock held.                     *)
dir_add(t) ==
  /\ pc[t] = "dir_add"
  /\ dir_lock = NULL
  /\ IF /\ name[t] \in Names
        /\ dir[name[t]] = NULL
        /\ Cardinality({n \in Names : dir[n] # NULL}) < DirSlots
     THEN /\ dir' = [dir EXCEPT ![name[t]] = sector[t]]
          /\ Finish(t)
          /\ UNCHANGED <<dir_lock, leaked>>
     ELSE /\ leaked' = leaked \cup Extent(inode_disk[sector[t]])
          /\ dir_lock' = IF name[t] = BadName THEN t ELSE NULL
          /\ Goto(t, "create_undo")
          /\ UNCHANGED <<dir, locals>>
  /\ UNCHANGED <<free_map, inode_disk, open_inodes, filesys_lock, panic, file, created, stale>>

CreateUndo(t) ==
  /\ pc[t] = "create_undo"
  /\ free_map_release({sector[t]})
  /\ Finish(t)
  /\ UNCHANGED <<dir, inode_disk, open_inodes, locks, file, history>>

-----------------------------------------------------------------------------
(* filesys_open.                                                           *)

(* dir_lookup does not take dir_lock.                                      *)
OpenLookup(t) ==
  /\ pc[t] = "open"
  /\ IF name[t] \notin Names \/ dir[name[t]] = NULL
     THEN Finish(t)
     ELSE /\ sector' = [sector EXCEPT ![t] = dir[name[t]]]
          /\ found' = [found EXCEPT ![t] = inode_disk[dir[name[t]]].id]
          /\ Goto(t, "inode_open")
          /\ UNCHANGED <<call, name, count>>
  /\ UNCHANGED <<disk, open_inodes, locks, panic, file, history>>

(* By now the sector is free, or holds another file than the one found.    *)
Mistaken(t) ==
  LET s == sector[t]
  IN IF open_inodes[s] = NULL
     THEN dir[name[t]] # s \/ inode_disk[s].id # found[t]
     ELSE open_inodes[s].inode.id # found[t]

OpenInode(t) ==
  /\ FilesysLocked(t, "inode_open")
  /\ \/ /\ open_inodes' = inode_open(sector[t])
        /\ stale' = (stale \/ Mistaken(t))
        /\ Finish(t)
        /\ UNCHANGED filesys_lock
     \/ /\ OpenFails(t, sector[t])
        /\ Goto(t, "dir_close")
        /\ sector' = [sector EXCEPT ![t] = NULL]
        /\ UNCHANGED <<stale, call, name, count, found>>
  /\ UNCHANGED <<disk, dir_lock, panic, file, created, leaked>>

file_open(t) ==
  /\ pc[t] = "file_open"
  /\ \/ /\ file' = [file EXCEPT ![t] = sector[t]]
        /\ UNCHANGED <<free_map, open_inodes, panic>>
     \/ /\ MallocFails
        /\ filesys_lock = NULL
        /\ inode_close(sector[t])
        /\ UNCHANGED file
  /\ Return(t)
  /\ UNCHANGED <<dir, inode_disk, locks, history>>

(* file_close.                                                             *)
Close(t) ==
  /\ FilesysLocked(t, "idle")
  /\ file[t] # NULL
  /\ inode_close(file[t])
  /\ file' = [file EXCEPT ![t] = NULL]
  /\ UNCHANGED <<dir, inode_disk, locks, pc, locals, history>>

-----------------------------------------------------------------------------
(* filesys_remove: dir_remove under dir_lock.                              *)

RemoveLookup(t) ==
  /\ pc[t] = "remove"
  /\ dir_lock = NULL
  /\ IF name[t] \notin Names \/ dir[name[t]] = NULL
     THEN Finish(t) /\ UNCHANGED dir_lock
     ELSE /\ dir_lock' = t
          /\ sector' = [sector EXCEPT ![t] = dir[name[t]]]
          /\ Goto(t, "remove_open")
          /\ UNCHANGED <<call, name, count, found>>
  /\ UNCHANGED <<disk, open_inodes, filesys_lock, panic, file, history>>

RemoveOpen(t) ==
  /\ FilesysLocked(t, "remove_open")
  /\ \/ /\ open_inodes' = inode_open(sector[t])
        /\ Goto(t, "remove_erase")
        /\ UNCHANGED <<locks, locals>>
     \/ /\ OpenFails(t, sector[t])
        /\ dir_lock' = NULL
        /\ Finish(t)
  /\ UNCHANGED <<disk, panic, file, history>>

RemoveErase(t) ==
  /\ pc[t] = "remove_erase"
  /\ dir' = [dir EXCEPT ![name[t]] = NULL]
  /\ Goto(t, "inode_remove")
  /\ UNCHANGED <<free_map, inode_disk, open_inodes, locks, panic, locals, file, history>>

inode_remove(t) ==
  /\ FilesysLocked(t, "inode_remove")
  /\ open_inodes' = [open_inodes EXCEPT ![sector[t]].removed = TRUE]
  /\ Goto(t, "remove_close")
  /\ UNCHANGED <<disk, locks, panic, locals, file, history>>

(* Fault: the close waits for dir_lock, which the caller holds.            *)
RemoveCloseRelock(t) ==
  /\ FilesysLocked(t, "remove_close")
  /\ dir_lock = NULL
  /\ inode_close(sector[t])
  /\ Finish(t)
  /\ UNCHANGED <<dir, inode_disk, locks, file, history>>

RemoveClose(t) ==
  /\ FilesysLocked(t, "remove_close")
  /\ inode_close(sector[t])
  /\ dir_lock' = NULL
  /\ Finish(t)
  /\ UNCHANGED <<dir, inode_disk, filesys_lock, file, history>>

-----------------------------------------------------------------------------
Step(t) ==
  \/ DirClose(t) \/ Relock(t)
  \/ CreateAllocate(t) \/ inode_create(t) \/ dir_add(t) \/ CreateUndo(t)
  \/ OpenLookup(t) \/ OpenInode(t) \/ file_open(t)
  \/ RemoveLookup(t) \/ RemoveOpen(t) \/ RemoveErase(t) \/ inode_remove(t) \/ RemoveClose(t)

AllNames == IF Badness THEN Names \cup {BadName} ELSE Names

User(t) ==
  \/ \E n \in AllNames, k \in DataSectors : Call(t, "create", n, k)
  \/ \E n \in AllNames, c \in {"open", "remove"} : Call(t, c, n, 0)
  \/ Close(t)

Next == panic = NULL /\ \E t \in Threads : Step(t) \/ User(t)

Spec == Init /\ [][Next]_vars

(* Every thread inside a call gets the processor.                          *)
FairSpec == Spec /\ \A t \in Threads : WF_vars(panic = NULL /\ pc[t] # "idle" /\ Step(t))

-----------------------------------------------------------------------------
DiskInodes == [start : Sectors, count : DataSectors, id : 1..MaxCreates]
Inodes == DiskInodes \cup {NULL}
OpenInodes == [open_cnt : Nat \ {0}, removed : BOOLEAN, inode : Inodes]

(* NULL is neither a struct inode nor an inode on the disk, and no         *)
(* assertion has failed while panic is NULL.                               *)
ASSUME NullAssumption ==
  NULL \notin DiskInodes /\ NULL \notin OpenInodes /\ NULL \notin {"lock_acquire", "free_map_release"}

TypeOK ==
  /\ dir \in [Names -> Sectors \cup {NULL}]
  /\ free_map \subseteq Sectors
  /\ inode_disk \in [Sectors -> Inodes]
  /\ open_inodes \in [Sectors -> OpenInodes \cup {NULL}]
  /\ {dir_lock, filesys_lock} \subseteq Threads \cup {NULL}
  /\ panic \in {NULL, "lock_acquire", "free_map_release"}
  /\ pc \in [Threads -> {"idle", "create", "inode_create", "dir_add", "create_undo",
                         "open", "inode_open", "file_open", "remove", "remove_open",
                         "remove_erase", "inode_remove", "remove_close", "dir_close"}]
  /\ sector \in [Threads -> Sectors \cup {NULL}]
  /\ file \in [Threads -> Sectors \cup {NULL}]
  /\ leaked \subseteq Sectors

(* The references that threads hold to the inode in a sector: an open      *)
(* file, what a call looked up, and the root directory.                    *)
References(s) ==
  {<<t, "file">> : t \in {u \in Threads : file[u] = s}} \cup
  {<<t, "call">> : t \in {u \in Threads :
     /\ sector[u] = s
     /\ \/ pc[u] \in {"file_open", "remove_erase", "inode_remove", "remove_close"}
        \/ pc[u] = "dir_close" /\ call[u] = "open"}} \cup
  {<<t, "dir">> : t \in {u \in Threads :
     s = ROOT_DIR_SECTOR /\ pc[u] \notin {"idle", "file_open"}}}

(* open_cnt counts the references, and an inode is in memory while there   *)
(* is one: inode_close frees it at the last one and never sooner.  (And    *)
(* every variable has its type.)                                           *)
OpenCountExact ==
  TypeOK /\ \A s \in Sectors :
    Cardinality(References(s)) = IF open_inodes[s] = NULL THEN 0 ELSE open_inodes[s].open_cnt

(* The inode sectors of files that have a name or are open, and of files   *)
(* that a call is creating or removing.                                    *)
LiveInodes ==
  {dir[n] : n \in Names} \cup {s \in Sectors \ SystemSectors : open_inodes[s] # NULL} \cup
  {sector[t] : t \in {u \in Threads : pc[u] = "dir_add"}}

InodeOf(s) == IF open_inodes[s] # NULL THEN open_inodes[s].inode ELSE inode_disk[s]

(* Until an open goes astray: the free map is exactly the sectors of the   *)
(* files that have a name or are open, of creations in progress, and those *)
(* leaked by failed creations; no sector belongs to two of them; no file   *)
(* that has a name is marked removed, so that the last close of an earlier *)
(* file cannot free its sectors; and no assertion of free_map_release      *)
(* fails.                                                                  *)
SectorAccounting ==
  ~stale =>
    LET live == LiveInodes \ {NULL}
        fresh == {sector[t] : t \in {u \in Threads : pc[u] \in {"inode_create", "create_undo"}}}
    IN /\ panic # "free_map_release"
       /\ free_map = SystemSectors \cup live \cup fresh \cup leaked
                            \cup UNION {Extent(InodeOf(s)) : s \in live}
       /\ \A s \in live :
            /\ s \notin fresh
            /\ Extent(InodeOf(s)) \cap (SystemSectors \cup live \cup fresh \cup leaked) = {}
            /\ \A r \in live \ {s} : Extent(InodeOf(s)) \cap Extent(InodeOf(r)) = {}
       /\ \A s \in {dir[n] : n \in Names} \ {NULL} : open_inodes[s] # NULL => ~open_inodes[s].removed

(* A thread returned from a call and kept a lock.                          *)
LockLeaked == filesys_lock # NULL \/ \E t \in Threads : dir_lock = t /\ pc[t] = "idle"

(* Every call comes back, unless a lock was left locked or an assertion    *)
(* failed: dir_lock and filesys_lock are never waited for in a circle.     *)
CallsReturn ==
  \A t \in Threads : pc[t] # "idle" ~> pc[t] = "idle" \/ LockLeaked \/ panic # NULL

(* directory.c, dir_lookup: on success, *INODE is an inode for the file    *)
(* with the given name.                                                    *)
OpenFindsFile == ~stale
=============================================================================
