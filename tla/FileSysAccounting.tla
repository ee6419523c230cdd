------------------------- MODULE FileSysAccounting -------------------------
(***************************************************************************)
(* Proof that, as long as no thread has used a sector its directory entry  *)
(* no longer names, every sector in use has exactly one use, for any       *)
(* number of threads and names and any size of the device.                 *)
(***************************************************************************)
EXTENDS FileSysProofs

(* Zenon proves a leaf unless the leaf names another prover.               *)
USE ZenonT(60)

(* The sectors of SectorAccounting: of files, of creations in progress,    *)
(* and the data of each inode.                                             *)
Live == LiveInodes \ {NULL}
InMaking == {"inode_create", "create_undo"}
Fresh == {sector[t] : t \in {u \in Threads : pc[u] \in InMaking}}
Data == [s \in Sectors |-> Extent(InodeOf(s))]

(* Every sector in use has one use.                                        *)
Exact(map, live, fresh, lost, data) ==
  /\ map = SystemSectors \cup live \cup fresh \cup lost \cup UNION {data[s] : s \in live}
  /\ live \cap fresh = {} /\ SystemSectors \cap (live \cup fresh) = {}
  /\ lost \cap (SystemSectors \cup live \cup fresh) = {}
  /\ \A s \in live : data[s] \cap (SystemSectors \cup live \cup fresh \cup lost) = {}
  /\ \A r, s \in live : r # s => data[r] \cap data[s] = {}

Named(s) == \E n \in Names : dir[n] = s

(* No two names share an inode, and the inode of a name is not removed.    *)
NameInv ==
  /\ \A m, n \in Names : dir[m] = dir[n] /\ dir[n] # NULL => m = n
  /\ \A s \in Sectors : Named(s) /\ open_inodes[s] # NULL =>
       ~open_inodes[s].removed /\ open_inodes[s].inode = inode_disk[s]

(* Nobody else knows the inode of a file that is being created.            *)
Makes(t) == pc[t] \in {"inode_create", "dir_add", "create_undo"}
MakeInv ==
  /\ \A t \in Threads : Makes(t) => ~Named(sector[t]) /\ open_inodes[sector[t]] = NULL
  /\ \A t, u \in Threads : Makes(t) /\ Makes(u) /\ sector[t] = sector[u] => t = u

(* An open inode without a name is removed, or about to be.                *)
OpenInv ==
  \A s \in Sectors : open_inodes[s] # NULL =>
    /\ s \in SystemSectors => ~open_inodes[s].removed
    /\ s \notin SystemSectors /\ ~Named(s) =>
         open_inodes[s].removed \/ \E t \in Threads : pc[t] = "inode_remove" /\ sector[t] = s

(* dir_remove holds dir_lock throughout, so that the entry it found stays. *)
Removing(t) ==
  /\ pc[t] \in {"inode_open", "remove_open", "remove_erase"} => name[t] \in Names
  /\ pc[t] \in InRemove \ {"remove"} => dir_lock = t /\ sector[t] \notin SystemSectors
  /\ pc[t] \in {"remove_open", "remove_erase"} => dir[name[t]] = sector[t]
  /\ pc[t] = "inode_remove" => ~Named(sector[t])
RemoveInv == \A t \in Threads : Removing(t)

Accounted ==
  /\ panic # "free_map_release"
  /\ Exact(free_map, Live, Fresh, leaked, Data)
  /\ NameInv /\ MakeInv /\ OpenInv /\ RemoveInv

AInv == ~stale => Accounted

-----------------------------------------------------------------------------
(* Sets of sectors with one use each, and how the steps change them.       *)

(* Only the data of live inodes matter.                                    *)
LEMMA ExactSame ==
  ASSUME NEW map, NEW live, NEW fresh, NEW lost, NEW data, NEW new,
         Exact(map, live, fresh, lost, data), \A s \in live : new[s] = data[s]
  PROVE  Exact(map, live, fresh, lost, new)
BY DEF Exact

(* free_map_allocate of an inode's sector.                                 *)
LEMMA ExactAllocate ==
  ASSUME NEW map, NEW live, NEW fresh, NEW lost, NEW data,
         Exact(map, live, fresh, lost, data), NEW x, x \notin map
  PROVE  Exact(map \cup {x}, live, fresh \cup {x}, lost, data)
BY SMTT(60) DEF Exact

(* free_map_release of it, when the creation fails.                        *)
LEMMA ExactUndo ==
  ASSUME NEW map, NEW live, NEW fresh, NEW lost, NEW data,
         Exact(map, live, fresh, lost, data), NEW x \in fresh
  PROVE  x \in map /\ Exact(map \ {x}, live, fresh \ {x}, lost, data)
BY DEF Exact

(* inode_create allocates the data.                                        *)
LEMMA ExactCreate ==
  ASSUME NEW map, NEW live, NEW fresh, NEW lost, NEW data, NEW new, NEW x \in fresh,
         Exact(map, live, fresh, lost, data),
         \A s \in live : new[s] = data[s], new[x] \cap map = {}
  PROVE  Exact(map \cup new[x], live \cup {x}, fresh \ {x}, lost, new)
BY SMTT(60) DEF Exact

(* dir_add fails: the data are lost.                                       *)
LEMMA ExactLose ==
  ASSUME NEW map, NEW live, NEW fresh, NEW lost, NEW data, NEW x \in live,
         Exact(map, live, fresh, lost, data)
  PROVE  Exact(map, live \ {x}, fresh \cup {x}, lost \cup data[x], data)
BY SMTT(60) DEF Exact

(* The last close of a removed inode.                                      *)
LEMMA ExactFree ==
  ASSUME NEW map, NEW live, NEW fresh, NEW lost, NEW data, NEW x \in live,
         Exact(map, live, fresh, lost, data)
  PROVE  /\ {x} \cup data[x] \subseteq map
         /\ Exact(map \ ({x} \cup data[x]), live \ {x}, fresh, lost, data)
BY SMTT(60) DEF Exact

-----------------------------------------------------------------------------
(* What the sets consist of.                                               *)
Adds(s) == \E t \in Threads : pc[t] = "dir_add" /\ sector[t] = s
Allocated(s) == \E t \in Threads : pc[t] \in InMaking /\ sector[t] = s
InUse(s) == s \notin SystemSectors /\ open_inodes[s] # NULL

LEMMA Members ==
  ASSUME TypeOK, TypeOK', PlaceInv, PlaceInv'
  PROVE  /\ Live \subseteq Sectors /\ Fresh \subseteq Sectors
         /\ \A s \in Sectors : /\ s \in Live <=> Named(s) \/ InUse(s) \/ Adds(s)
                               /\ s \in Fresh <=> Allocated(s)
         /\ Live' \subseteq Sectors /\ Fresh' \subseteq Sectors
         /\ \A s \in Sectors : /\ s \in Live' <=> Named(s)' \/ InUse(s)' \/ Adds(s)'
                               /\ s \in Fresh' <=> Allocated(s)'
<1>1. \A s \in Sectors : s # NULL
  BY Basics
<1>2. Live \subseteq Sectors /\ Live' \subseteq Sectors
  BY SMTT(60) DEF TypeOK, Live, LiveInodes
<1>3. Fresh \subseteq Sectors /\ Fresh' \subseteq Sectors
  BY SMTT(60) DEF TypeOK, PlaceInv, Placed, NoSector, InMaking, Fresh
<1>4. ASSUME NEW s \in Sectors
      PROVE  /\ s \in Live <=> Named(s) \/ InUse(s) \/ Adds(s)
             /\ s \in Live' <=> Named(s)' \/ InUse(s)' \/ Adds(s)'
  BY <1>1 DEF Live, LiveInodes, Named, InUse, Adds
<1>5. ASSUME NEW s \in Sectors PROVE (s \in Fresh <=> Allocated(s)) /\ (s \in Fresh' <=> Allocated(s)')
  BY DEF Fresh, Allocated
<1> QED BY <1>2, <1>3, <1>4, <1>5

(* The sector of a creation is not a system sector, and it is in use.      *)
LEMMA MakesUse ==
  ASSUME TypeOK, TypeOK', PlaceInv, PlaceInv', Accounted, NEW t \in Threads, Makes(t)
  PROVE  /\ sector[t] \in Sectors /\ sector[t] \notin SystemSectors /\ sector[t] \in free_map
         /\ pc[t] = "dir_add" => sector[t] \in Live
         /\ pc[t] # "dir_add" => sector[t] \in Fresh
<1>1. sector[t] \in Sectors
  BY SMTT(60) DEF TypeOK, PlaceInv, Placed, NoSector, Makes
<1>2. /\ pc[t] = "dir_add" => sector[t] \in Live
      /\ pc[t] # "dir_add" => sector[t] \in Fresh
  BY <1>1, Members DEF Adds, Allocated, InMaking, Makes
<1> QED BY <1>1, <1>2 DEF Accounted, Exact

LEMMA NamedUse ==
  ASSUME TypeOK, TypeOK', PlaceInv, PlaceInv', Accounted, NEW s \in Sectors, Named(s) \/ InUse(s)
  PROVE  s \in Live /\ s \in free_map /\ s \notin SystemSectors
<1>1. s \in Live
  BY Members
<1> QED BY <1>1 DEF Accounted, Exact

-----------------------------------------------------------------------------
(* Steps after which every sector has the use it had.                      *)

(* No creation begins, ends or changes its stage.                          *)
MakersSame ==
  \A u \in Threads : /\ pc'[u] = "dir_add" <=> pc[u] = "dir_add"
                     /\ pc'[u] \in InMaking <=> pc[u] \in InMaking
                     /\ Makes(u) => sector'[u] = sector[u]

(* An inode stays as it is, or it has a name and is opened, or closed for  *)
(* the last time, or it has none and is marked removed.                    *)
SameInode(s) ==
  \/ /\ open_inodes'[s] = NULL <=> open_inodes[s] = NULL
     /\ open_inodes[s] # NULL => /\ open_inodes'[s].inode = open_inodes[s].inode
                                 /\ open_inodes[s].removed => open_inodes'[s].removed
                                 /\ open_inodes'[s].removed => open_inodes[s].removed \/ ~Named(s)
  \/ /\ Named(s) /\ open_inodes[s] = NULL /\ open_inodes'[s] # NULL
     /\ ~open_inodes'[s].removed /\ open_inodes'[s].inode = inode_disk[s]
  \/ Named(s) /\ open_inodes[s] # NULL /\ open_inodes'[s] = NULL

LEMMA Frame ==
  ASSUME IInv, IInv', Accounted, MakersSame, UNCHANGED <<dir, inode_disk, free_map, leaked>>,
         \A s \in Sectors \ SystemSectors : SameInode(s),
         \A s \in SystemSectors : open_inodes'[s] # NULL => ~open_inodes'[s].removed,
         \A u \in Threads : pc[u] = "inode_remove" =>
           \/ pc'[u] = "inode_remove" /\ sector'[u] = sector[u]
           \/ open_inodes'[sector[u]] # NULL => open_inodes'[sector[u]].removed
  PROVE  Exact(free_map, Live, Fresh, leaked, Data)' /\ NameInv' /\ MakeInv' /\ OpenInv'
<1>1. TypeOK /\ TypeOK' /\ PlaceInv /\ PlaceInv'
  BY DEF IInv
<1>2. \A s \in Sectors : Named(s)' <=> Named(s)
  BY DEF Named
<1>3. ASSUME NEW s \in Sectors
      PROVE  /\ Adds(s)' <=> Adds(s)
             /\ Allocated(s)' <=> Allocated(s)
             /\ Named(s) \/ InUse(s)' <=> Named(s) \/ InUse(s)
  <2>1. Adds(s)' <=> Adds(s)
    BY DEF MakersSame, Adds, Makes
  <2>2. Allocated(s)' <=> Allocated(s)
    BY DEF MakersSame, Allocated, Makes, InMaking
  <2>3. Named(s) \/ InUse(s)' <=> Named(s) \/ InUse(s)
    BY DEF InUse, SameInode
  <2> QED BY <2>1, <2>2, <2>3
<1>4. Live' = Live /\ Fresh' = Fresh
  BY <1>1, <1>2, <1>3, Members
<1>5. ASSUME NEW s \in Live PROVE Data'[s] = Data[s]
  <2>1. s \in Sectors /\ s \notin SystemSectors
    BY <1>1, Members DEF Accounted, Exact
  <2>2. InodeOf(s)' = InodeOf(s)
    BY <2>1 DEF InodeOf, SameInode, Accounted, NameInv
  <2> QED BY <2>1, <2>2 DEF Data
<1>6. Exact(free_map, Live, Fresh, leaked, Data)'
  <2>1. Exact(free_map, Live, Fresh, leaked, Data')
    BY <1>5, ExactSame DEF Accounted
  <2> QED BY <1>4, <2>1
<1>7. NameInv'
  <2>1. ASSUME NEW s \in Sectors, Named(s), open_inodes'[s] # NULL
        PROVE  ~open_inodes'[s].removed /\ open_inodes'[s].inode = inode_disk[s]
    <3>1. s \notin SystemSectors
      BY <1>1, <2>1, NamedUse
    <3> QED BY <2>1, <3>1 DEF SameInode, Accounted, NameInv
  <2> QED BY <1>2, <2>1, SMTT(60) DEF Accounted, NameInv
<1>8. MakeInv'
  <2>1. \A u \in Threads : Makes(u)' <=> Makes(u)
    BY DEF MakersSame, Makes, InMaking
  <2>2. ASSUME NEW u \in Threads, Makes(u)
        PROVE  sector'[u] = sector[u] /\ ~Named(sector[u]) /\ open_inodes'[sector[u]] = NULL
    <3>1. sector[u] \in Sectors \ SystemSectors
      BY <1>1, <2>2, MakesUse
    <3>2. sector'[u] = sector[u] /\ ~Named(sector[u]) /\ open_inodes[sector[u]] = NULL
      BY <2>2 DEF MakersSame, Accounted, MakeInv
    <3> QED BY <3>1, <3>2 DEF SameInode
  <2>3. ASSUME NEW u \in Threads, Makes(u)' PROVE ~Named(sector[u])' /\ open_inodes'[sector'[u]] = NULL
    BY <2>1, <2>2, <2>3 DEF Named
  <2>4. ASSUME NEW u \in Threads, NEW v \in Threads, Makes(u)', Makes(v)', sector'[u] = sector'[v]
        PROVE  u = v
    BY <2>1, <2>2, <2>4, SMTT(60) DEF Accounted, MakeInv
  <2> QED BY <2>3, <2>4 DEF MakeInv
<1>9. OpenInv'
  <2>1. ASSUME NEW s \in Sectors, open_inodes'[s] # NULL, s \notin SystemSectors, ~Named(s)
        PROVE  open_inodes'[s].removed \/ \E u \in Threads : pc'[u] = "inode_remove" /\ sector'[u] = s
    <3>1. /\ open_inodes[s] # NULL
          /\ open_inodes[s].removed => open_inodes'[s].removed
      BY <2>1 DEF SameInode
    <3>2. open_inodes[s].removed \/ \E u \in Threads : pc[u] = "inode_remove" /\ sector[u] = s
      BY <2>1, <3>1 DEF Accounted, OpenInv
    <3> QED BY <2>1, <3>1, <3>2
  <2> QED BY <1>2, <2>1 DEF OpenInv
<1> QED BY <1>6, <1>7, <1>8, <1>9

(* dir_remove of the other threads.                                        *)
LEMMA RemoveOthers ==
  ASSUME RemoveInv, NEW t \in Threads, Others(t), Removing(t)',
         UNCHANGED <<dir, dir_lock>> \/ dir_lock \in {NULL, t}
  PROVE  RemoveInv'
<1>1. ASSUME NEW u \in Threads \ {t} PROVE Removing(u)'
  <2>1. Removing(u) /\ u # NULL /\ u # t
    BY Basics DEF RemoveInv
  <2>2. pc'[u] = pc[u] /\ name'[u] = name[u] /\ sector'[u] = sector[u]
    BY DEF Others
  <2>3. CASE UNCHANGED <<dir, dir_lock>>
    BY <2>1, <2>2, <2>3 DEF Removing, Named
  <2>4. CASE dir_lock \in {NULL, t}
    <3>1. pc[u] \notin InRemove \ {"remove"}
      BY <2>1, <2>4 DEF Removing
    <3>2. pc[u] \notin {"remove_open", "remove_erase", "inode_remove"}
      BY <3>1 DEF InRemove
    <3> QED BY <2>1, <2>2, <3>1, <3>2 DEF Removing
  <2> QED BY <2>3, <2>4
<1> QED BY <1>1 DEF RemoveInv

(* A step of a thread that is not creating a file before or after it, and  *)
(* does not erase a name.                                                  *)
Outside == Points \ {"inode_create", "dir_add", "create_undo"}

LEMMA QuietStep ==
  ASSUME IInv, IInv', Accounted, NEW t \in Threads, Others(t),
         pc[t] \in Outside, pc'[t] \in Outside, pc[t] # "inode_remove",
         UNCHANGED <<dir, inode_disk, free_map, leaked>>, panic' # "free_map_release",
         \A s \in Sectors \ SystemSectors : SameInode(s),
         \A s \in SystemSectors : open_inodes'[s] # NULL => ~open_inodes'[s].removed,
         Removing(t)', UNCHANGED dir_lock \/ dir_lock \in {NULL, t}
  PROVE  Accounted'
<1>1. MakersSame
  BY DEF MakersSame, Others, Makes, Outside, InMaking
<1>2. \A u \in Threads : pc[u] = "inode_remove" => pc'[u] = "inode_remove" /\ sector'[u] = sector[u]
  BY DEF Others
<1>3. Exact(free_map, Live, Fresh, leaked, Data)' /\ NameInv' /\ MakeInv' /\ OpenInv'
  BY <1>1, <1>2, Frame
<1>4. RemoveInv'
  BY RemoveOthers DEF Accounted
<1> QED BY <1>3, <1>4 DEF Accounted

(* The same with the table as it was.                                      *)
LEMMA TableSame ==
  ASSUME Accounted, UNCHANGED open_inodes
  PROVE  /\ \A s \in Sectors \ SystemSectors : SameInode(s)
         /\ \A s \in SystemSectors : open_inodes'[s] # NULL => ~open_inodes'[s].removed
<1>1. \A s \in SystemSectors : open_inodes[s] # NULL => ~open_inodes[s].removed
  BY Basics DEF Accounted, OpenInv
<1> QED BY <1>1 DEF SameInode

(* An inode that has a name or is open already, or the root directory, is  *)
(* opened.                                                                 *)
LEMMA TableOpened ==
  ASSUME Accounted, NEW x \in Sectors, Opened(x),
         Named(x) \/ open_inodes[x] # NULL \/ x \in SystemSectors
  PROVE  /\ \A s \in Sectors \ SystemSectors : SameInode(s)
         /\ \A s \in SystemSectors : open_inodes'[s] # NULL => ~open_inodes'[s].removed
<1>1. \A s \in SystemSectors : open_inodes[s] # NULL => ~open_inodes[s].removed
  BY Basics DEF Accounted, OpenInv
<1>2. ASSUME NEW s \in Sectors \ SystemSectors PROVE SameInode(s)
  <2>1. CASE s = x
    BY <2>1 DEF SameInode, Opened
  <2>2. CASE s # x
    BY <2>2 DEF SameInode, Opened
  <2> QED BY <2>1, <2>2
<1>3. ASSUME NEW s \in SystemSectors, open_inodes'[s] # NULL PROVE ~open_inodes'[s].removed
  BY <1>1, <1>3, Basics DEF Opened
<1> QED BY <1>2, <1>3

-----------------------------------------------------------------------------
(* One lemma per action again.                                             *)

LEMMA RelockAccounted ==
  ASSUME IInv, IInv', Accounted, NEW t \in Threads, Relock(t) PROVE Accounted'
<1> USE DEF Relock, disk, locks, locals, history
<1>1. UNCHANGED <<pc, sector, name, dir, dir_lock, free_map, inode_disk, open_inodes, leaked>>
  OBVIOUS
<1>2. MakersSame /\ RemoveInv'
  BY <1>1, SMTT(60) DEF MakersSame, Accounted, RemoveInv, Removing, Named
<1>3. Exact(free_map, Live, Fresh, leaked, Data)' /\ NameInv' /\ MakeInv' /\ OpenInv'
  BY <1>1, <1>2, TableSame, Frame
<1>4. panic' # "free_map_release"
  OBVIOUS
<1> QED BY <1>2, <1>3, <1>4 DEF Accounted

LEMMA OpenLookupAccounted ==
  ASSUME IInv, IInv', Accounted, NEW t \in Threads, OpenLookup(t) PROVE Accounted'
<1>1. pc[t] = "open" /\ UNCHANGED <<name, dir, dir_lock, free_map, inode_disk, open_inodes, panic, leaked, file, call, count>>
  BY DEF OpenLookup, Finish, disk, locks, locals, history
<1>2. /\ pc'[t] \in {"dir_close", "inode_open"}
      /\ pc'[t] = "inode_open" => name[t] \in Names
  BY DEF OpenLookup, Finish, Goto, IInv, TypeOK
<1>3. Others(t)
  <2>1. pc \in [Threads -> Points] /\ sector \in [Threads -> Sectors \cup {NULL}] /\ DOMAIN found = Threads
    BY DEF IInv, TypeOK, Points, LocalTypes
  <2> QED BY <1>1, <2>1, SMTT(60) DEF OpenLookup, Finish, Goto, locals, Others
<1>4. Removing(t)'
  BY <1>1, <1>2 DEF Removing, InRemove
<1>5. pc[t] \in Outside /\ pc'[t] \in Outside
  BY <1>1, <1>2 DEF Outside, Points
<1>6. panic' # "free_map_release"
  BY <1>1 DEF Accounted
<1> QED BY <1>1, <1>3, <1>4, <1>5, <1>6, TableSame, QuietStep

LEMMA RemoveLookupAccounted ==
  ASSUME IInv, IInv', Accounted, NEW t \in Threads, RemoveLookup(t) PROVE Accounted'
<1>1. /\ pc[t] = "remove" /\ dir_lock = NULL
      /\ UNCHANGED <<name, dir, free_map, inode_disk, open_inodes, panic, leaked, file, call, count, found>>
  BY DEF RemoveLookup, Finish, disk, locals, history
<1>2. pc \in [Threads -> Points] /\ sector \in [Threads -> Sectors \cup {NULL}]
  BY DEF IInv, TypeOK, Points
<1>3. Others(t)
  BY <1>1, <1>2 DEF RemoveLookup, Finish, Goto, locals, Others
<1>4. \/ pc'[t] = "dir_close"
      \/ /\ pc'[t] = "remove_open" /\ name[t] \in Names /\ dir[name[t]] # NULL /\ dir_lock' = t
         /\ sector'[t] = dir[name[t]]
  BY <1>2 DEF RemoveLookup, Finish, Goto
<1>5. Removing(t)'
  <2>1. CASE pc'[t] = "dir_close"
    BY <2>1 DEF Removing, InRemove
  <2>2. CASE /\ pc'[t] = "remove_open" /\ name[t] \in Names /\ dir[name[t]] # NULL /\ dir_lock' = t
             /\ sector'[t] = dir[name[t]]
    <3>1. dir[name[t]] \in Sectors /\ Named(dir[name[t]])
      BY <2>2 DEF IInv, TypeOK, Named
    <3>2. dir[name[t]] \notin SystemSectors
      BY <3>1, NamedUse DEF IInv
    <3> QED BY <1>1, <2>2, <3>2 DEF Removing, InRemove
  <2> QED BY <1>4, <2>1, <2>2
<1>6. pc[t] \in Outside /\ pc'[t] \in Outside
  BY <1>1, <1>4 DEF Outside, Points
<1>7. panic' # "free_map_release"
  BY <1>1 DEF Accounted
<1> QED BY <1>1, <1>3, <1>5, <1>6, <1>7, TableSame, QuietStep

LEMMA OpenInodeAccounted ==
  ASSUME IInv, IInv', Accounted, NEW t \in Threads, OpenInode(t), ~stale' PROVE Accounted'
<1>1. /\ pc[t] = "inode_open"
      /\ UNCHANGED <<name, dir, dir_lock, free_map, inode_disk, panic, leaked, file, call, count, found>>
  BY DEF OpenInode, FilesysLocked, Finish, disk, locals
<1>2. sector[t] \in Sectors /\ pc \in [Threads -> Points] /\ sector \in [Threads -> Sectors \cup {NULL}]
  BY <1>1, SMTT(60) DEF IInv, TypeOK, Points, PlaceInv, Placed, NoSector
<1>3. Others(t) /\ pc'[t] = "dir_close"
  BY <1>1, <1>2 DEF OpenInode, Finish, Goto, locals, Others
<1>4. Removing(t)'
  BY <1>3 DEF Removing, InRemove
<1>5. pc[t] \in Outside /\ pc'[t] \in Outside
  BY <1>1, <1>3 DEF Outside, Points
<1>6. panic' # "free_map_release"
  BY <1>1 DEF Accounted
<1>7. /\ \A s \in Sectors \ SystemSectors : SameInode(s)
      /\ \A s \in SystemSectors : open_inodes'[s] # NULL => ~open_inodes'[s].removed
  <2>1. CASE Opened(sector[t]) /\ stale' = (stale \/ Mistaken(t))
    <3>1. ~Mistaken(t)
      BY <2>1
    <3>2. name[t] \in Names
      BY <1>1 DEF Accounted, RemoveInv, Removing
    <3>3. Named(sector[t]) \/ open_inodes[sector[t]] # NULL
      BY <3>1, <3>2 DEF Mistaken, Named
    <3> QED BY <1>2, <2>1, <3>3, TableOpened
  <2>2. CASE UNCHANGED open_inodes
    BY <2>2, TableSame
  <2> QED BY <2>1, <2>2, OpenInodeIInv
<1> QED BY <1>1, <1>3, <1>4, <1>5, <1>6, <1>7, QuietStep

LEMMA CloseAccounted ==
  ASSUME IInv, IInv', Accounted, NEW t \in Threads, Others(t),
         pc[t] \in Outside, pc'[t] \in Outside, pc[t] # "inode_remove",
         NEW x \in Sectors, inode_close(x), Closed(x), NEW k \in Kinds, Ref(t, k, x),
         UNCHANGED <<dir, inode_disk, leaked>>,
         Removing(t)', UNCHANGED dir_lock \/ dir_lock \in {NULL, t}
  PROVE  Accounted'
<1>1. TypeOK /\ TypeOK' /\ PlaceInv /\ PlaceInv'
  BY DEF IInv
<1>2. \A s \in SystemSectors : open_inodes'[s] # NULL => ~open_inodes'[s].removed
  <2>1. \A s \in SystemSectors : open_inodes[s] # NULL => ~open_inodes[s].removed
    BY Basics DEF Accounted, OpenInv
  <2> QED BY <2>1, Basics DEF Closed
<1>3. CASE ~(open_inodes[x].open_cnt = 1 /\ open_inodes[x].removed)
  <2>1. UNCHANGED <<free_map, panic>>
    BY <1>3 DEF inode_close
  <2>2. ASSUME NEW s \in Sectors \ SystemSectors PROVE SameInode(s)
    <3>1. CASE s # x \/ open_inodes[x].open_cnt # 1
      BY <3>1 DEF Closed, SameInode
    <3>2. CASE s = x /\ open_inodes[x].open_cnt = 1
      <4>1. Cardinality(References(x)) = 1 /\ open_inodes[x] # NULL /\ open_inodes'[x] = NULL
        BY <3>2 DEF Closed
      <4>2. \A u \in Threads : ~(pc[u] = "inode_remove" /\ sector[u] = x)
        BY <4>1, LastReference
      <4>3. Named(x)
        BY <1>3, <3>2, <4>1, <4>2 DEF Accounted, OpenInv
      <4> QED BY <3>2, <4>1, <4>3 DEF SameInode
    <3> QED BY <3>1, <3>2
  <2>3. panic' # "free_map_release"
    BY <2>1 DEF Accounted
  <2> QED BY <1>2, <2>1, <2>2, <2>3, QuietStep
<1>4. CASE open_inodes[x].open_cnt = 1 /\ open_inodes[x].removed
  <2>1. /\ open_inodes[x] # NULL /\ open_inodes'[x] = NULL
        /\ \A s \in Sectors \ {x} : open_inodes'[s] = open_inodes[s]
    BY <1>4 DEF Closed
  <2>2. x \notin SystemSectors /\ ~Named(x) /\ \A u \in Threads : Makes(u) => sector[u] # x
    BY <1>4, <2>1, SMTT(60) DEF Accounted, OpenInv, NameInv, MakeInv
  <2>3. x \in Live /\ Data[x] = Extent(open_inodes[x].inode)
    BY <1>1, <2>1, <2>2, Members DEF InUse, Data, InodeOf
  <2>4. /\ {x} \cup Data[x] \subseteq free_map
        /\ Exact(free_map \ ({x} \cup Data[x]), Live \ {x}, Fresh, leaked, Data)
    BY <2>3, ExactFree DEF Accounted
  <2>5. free_map' = free_map \ ({x} \cup Data[x]) /\ UNCHANGED panic
    <3>1. free_map_release({x} \cup Data[x])
      BY <1>4, <2>3 DEF inode_close
    <3> QED BY <2>4, <3>1 DEF free_map_release
  <2>6. MakersSame
    BY DEF MakersSame, Others, Makes, Outside, InMaking
  <2>7. ASSUME NEW s \in Sectors
        PROVE  /\ Named(s)' <=> Named(s)
               /\ Adds(s)' <=> Adds(s)
               /\ Allocated(s)' <=> Allocated(s)
               /\ InUse(s)' <=> InUse(s) /\ s # x
    <3>1. Adds(s)' <=> Adds(s)
      BY <2>6 DEF MakersSame, Adds, Makes
    <3>2. Allocated(s)' <=> Allocated(s)
      BY <2>6 DEF MakersSame, Allocated, Makes, InMaking
    <3>3. InUse(s)' <=> InUse(s) /\ s # x
      BY <2>1 DEF InUse
    <3>4. Named(s)' <=> Named(s)
      BY DEF Named
    <3> QED BY <3>1, <3>2, <3>3, <3>4
  <2>8. ~Named(x) /\ ~Adds(x)
    BY <2>2 DEF Adds, Makes
  <2>9. Live' = Live \ {x} /\ Fresh' = Fresh
    BY <1>1, <2>7, <2>8, Members
  <2>10. ASSUME NEW s \in Live \ {x} PROVE Data'[s] = Data[s]
    <3>1. s \in Sectors
      BY <1>1, Members
    <3> QED BY <2>1, <3>1 DEF Data, InodeOf
  <2>11. Exact(free_map, Live, Fresh, leaked, Data)'
    <3>1. Exact(free_map \ ({x} \cup Data[x]), Live \ {x}, Fresh, leaked, Data')
      BY <2>4, <2>10, ExactSame
    <3> QED BY <2>5, <2>9, <3>1
  <2>12. NameInv'
    BY <2>1, <2>7 DEF Accounted, NameInv
  <2>13. MakeInv'
    <3>1. \A u \in Threads : (Makes(u)' <=> Makes(u)) /\ (Makes(u) => sector'[u] = sector[u])
      BY <2>6 DEF MakersSame, Makes, InMaking
    <3>2. ASSUME NEW u \in Threads, Makes(u) PROVE ~Named(sector[u])' /\ open_inodes'[sector'[u]] = NULL
      <4>1. sector[u] \in Sectors /\ sector'[u] = sector[u]
        BY <1>1, <3>1, <3>2, MakesUse
      <4> QED BY <2>1, <3>2, <4>1, SMTT(60) DEF Accounted, MakeInv, Named
    <3> QED BY <3>1, <3>2 DEF Accounted, MakeInv
  <2>14. OpenInv'
    <3>1. \A u \in Threads : pc[u] = "inode_remove" => pc'[u] = "inode_remove" /\ sector'[u] = sector[u]
      BY DEF Others
    <3> QED BY <1>2, <2>1, <2>7, <3>1, SMTT(60) DEF Accounted, OpenInv
  <2>15. RemoveInv'
    BY RemoveOthers DEF Accounted
  <2> QED BY <2>5, <2>11, <2>12, <2>13, <2>14, <2>15 DEF Accounted
<1> QED BY <1>3, <1>4

LEMMA DirCloseAccounted ==
  ASSUME IInv, IInv', Accounted, NEW t \in Threads, DirClose(t) PROVE Accounted'
<1>1. /\ pc[t] = "dir_close" /\ inode_close(ROOT_DIR_SECTOR)
      /\ UNCHANGED <<dir, inode_disk, dir_lock, file, leaked, created>>
  BY DEF DirClose, FilesysLocked, locks, history
<1>2. Moves(t, "file_open") \/ Return(t)
  BY DEF DirClose, Goto, Moves, locals
<1>3. Others(t) /\ pc'[t] \in {"file_open", "idle"}
  <2>1. CASE Moves(t, "file_open")
    <3>1. "file_open" \in Points
      BY DEF Points
    <3> QED BY <1>1, <2>1, <3>1, MovesTypes
  <2>2. CASE Return(t)
    BY <1>1, <2>2, ReturnTypes
  <2> QED BY <1>2, <2>1, <2>2
<1>4. Removing(t)'
  BY <1>3 DEF Removing, InRemove
<1>5. pc[t] \in Outside /\ pc'[t] \in Outside
  BY <1>1, <1>3 DEF Outside, Points
<1>6. Closed(ROOT_DIR_SECTOR)
  BY DirCloseIInv
<1>7. Ref(t, "dir", ROOT_DIR_SECTOR) /\ "dir" \in Kinds
  BY <1>1 DEF Ref, Kinds
<1> QED BY <1>1, <1>3, <1>4, <1>5, <1>6, <1>7, Basics, CloseAccounted

LEMMA file_openAccounted ==
  ASSUME IInv, IInv', Accounted, NEW t \in Threads, file_open(t) PROVE Accounted'
<1>1. pc[t] = "file_open" /\ UNCHANGED <<dir, inode_disk, dir_lock, leaked, created>> /\ Return(t)
  BY DEF file_open, locks, history
<1>2. \A u \in Threads \ {t} : file'[u] = file[u]
  BY DEF file_open, IInv, TypeOK
<1>3. Others(t) /\ pc'[t] = "idle"
  BY <1>1, <1>2, ReturnTypes
<1>4. Removing(t)'
  BY <1>3 DEF Removing, InRemove
<1>5. pc[t] \in Outside /\ pc'[t] \in Outside
  BY <1>1, <1>3 DEF Outside, Points
<1>6. CASE Closed(sector[t]) /\ inode_close(sector[t])
  <2>1. sector[t] \in Sectors
    BY <1>1, SMTT(60) DEF IInv, TypeOK, PlaceInv, Placed, NoSector
  <2>2. Ref(t, "call", sector[t]) /\ "call" \in Kinds
    BY <1>1 DEF Ref, Kinds
  <2> QED BY <1>1, <1>3, <1>4, <1>5, <1>6, <2>1, <2>2, CloseAccounted, SMTT(60)
<1>7. CASE UNCHANGED <<open_inodes, free_map, panic>>
  <2>1. panic' # "free_map_release"
    BY <1>7 DEF Accounted
  <2> QED BY <1>1, <1>3, <1>4, <1>5, <1>7, <2>1, TableSame, QuietStep
<1> QED BY <1>6, <1>7, file_openIInv

LEMMA CloseFileAccounted ==
  ASSUME IInv, IInv', Accounted, NEW t \in Threads, Close(t) PROVE Accounted'
<1>1. /\ pc[t] = "idle" /\ inode_close(file[t])
      /\ UNCHANGED <<dir, inode_disk, dir_lock, leaked, pc, call, name, count, sector, found>>
  BY DEF Close, FilesysLocked, locks, locals, history
<1>2. Others(t)
  BY <1>1 DEF Close, IInv, TypeOK, Others
<1>3. Removing(t)'
  BY <1>1 DEF Removing, InRemove
<1>4. pc[t] \in Outside /\ pc'[t] \in Outside
  BY <1>1 DEF Outside, Points
<1>5. Ref(t, "file", file[t]) /\ "file" \in Kinds
  BY DEF Ref, Kinds
<1>6. file[t] \in Sectors /\ Closed(file[t])
  BY CloseIInv
<1> QED BY <1>1, <1>2, <1>3, <1>4, <1>5, <1>6, CloseAccounted, SMTT(60)

LEMMA RemoveCloseAccounted ==
  ASSUME IInv, IInv', Accounted, NEW t \in Threads, RemoveClose(t) PROVE Accounted'
<1>1. /\ pc[t] = "remove_close" /\ inode_close(sector[t]) /\ Moves(t, "dir_close")
      /\ UNCHANGED <<dir, inode_disk, leaked, created, file>>
  BY DEF RemoveClose, FilesysLocked, Finish, Goto, Moves, locals, history
<1>2. Others(t) /\ pc'[t] = "dir_close"
  <2>1. "dir_close" \in Points
    BY DEF Points
  <2> QED BY <1>1, <2>1, MovesTypes
<1>3. Removing(t)'
  BY <1>2 DEF Removing, InRemove
<1>4. pc[t] \in Outside /\ pc'[t] \in Outside
  BY <1>1, <1>2 DEF Outside, Points
<1>5. Ref(t, "call", sector[t]) /\ "call" \in Kinds
  BY <1>1 DEF Ref, Kinds
<1>6. sector[t] \in Sectors /\ Closed(sector[t])
  BY <1>1, RemoveCloseIInv DEF IInv, TypeOK, PlaceInv, Placed, NoSector
<1>7. dir_lock = t
  BY <1>1 DEF Accounted, RemoveInv, Removing, InRemove
<1> QED BY <1>1, <1>2, <1>3, <1>4, <1>5, <1>6, <1>7, CloseAccounted, SMTT(60)

LEMMA CallAccounted ==
  ASSUME IInv, IInv', Accounted, NEW t \in Threads, NEW c \in {"create", "open", "remove"},
         NEW n \in AllNames, NEW k \in Nat, c = "create" => k \in DataSectors, Call(t, c, n, k)
  PROVE  Accounted'
<1>1. /\ pc[t] = "idle"
      /\ UNCHANGED <<dir, free_map, inode_disk, dir_lock, panic, file, leaked, sector, found>>
  BY DEF Call, FilesysLocked, OpenFails, disk, history, locals
<1>2. pc'[t] \in {"idle", "dir_close", c}
  BY <1>1 DEF Call, Goto, IInv, TypeOK
<1>3. Others(t)
  <2>1. pc \in [Threads -> Points] /\ LocalTypes
    BY DEF IInv, TypeOK, Points
  <2> QED BY <1>1, <2>1 DEF Call, Goto, locals, Others, LocalTypes
<1>4. Removing(t)'
  BY <1>2 DEF Removing, InRemove
<1>5. pc[t] \in Outside /\ pc'[t] \in Outside
  BY <1>1, <1>2 DEF Outside, Points
<1>6. panic' # "free_map_release"
  BY <1>1 DEF Accounted
<1>7. /\ \A s \in Sectors \ SystemSectors : SameInode(s)
      /\ \A s \in SystemSectors : open_inodes'[s] # NULL => ~open_inodes'[s].removed
  <2>1. ROOT_DIR_SECTOR \in SystemSectors
    BY DEF SystemSectors
  <2> QED BY <2>1, CallIInv, Basics, TableSame, TableOpened
<1> QED BY <1>1, <1>3, <1>4, <1>5, <1>6, <1>7, QuietStep

LEMMA RemoveOpenAccounted ==
  ASSUME IInv, IInv', Accounted, NEW t \in Threads, RemoveOpen(t) PROVE Accounted'
<1>1. pc[t] = "remove_open" /\ UNCHANGED <<dir, free_map, inode_disk, panic, file, leaked, created>>
  BY DEF RemoveOpen, FilesysLocked, disk, history
<1>2. /\ sector[t] \in Sectors /\ name[t] \in Names /\ dir[name[t]] = sector[t]
      /\ dir_lock = t /\ sector[t] \notin SystemSectors
  BY <1>1, SMTT(60) DEF IInv, TypeOK, PlaceInv, Placed, NoSector, Accounted, RemoveInv,
     Removing, InRemove
<1>3. panic' # "free_map_release"
  BY <1>1 DEF Accounted
<1>4. CASE Opened(sector[t]) /\ Moves(t, "remove_erase") /\ UNCHANGED dir_lock
  <2>1. Others(t) /\ pc'[t] = "remove_erase"
    <3>1. "remove_erase" \in Points
      BY DEF Points
    <3> QED BY <1>1, <1>4, <3>1, MovesTypes
  <2>2. UNCHANGED <<sector, name>>
    BY <1>4 DEF Moves
  <2>3. Removing(t)'
    BY <1>1, <1>2, <1>4, <2>1, <2>2 DEF Removing, InRemove
  <2>4. pc[t] \in Outside /\ pc'[t] \in Outside
    BY <1>1, <2>1 DEF Outside, Points
  <2>5. Named(sector[t])
    BY <1>2 DEF Named
  <2>6. /\ \A s \in Sectors \ SystemSectors : SameInode(s)
        /\ \A s \in SystemSectors : open_inodes'[s] # NULL => ~open_inodes'[s].removed
    BY <1>2, <1>4, <2>5, TableOpened
  <2> QED BY <1>1, <1>3, <1>4, <2>1, <2>3, <2>4, <2>6, QuietStep
<1>5. CASE UNCHANGED open_inodes /\ Moves(t, "dir_close")
  <2>1. Others(t) /\ pc'[t] = "dir_close"
    <3>1. "dir_close" \in Points
      BY DEF Points
    <3> QED BY <1>1, <1>5, <3>1, MovesTypes, SMTT(60)
  <2>2. Removing(t)'
    BY <2>1 DEF Removing, InRemove
  <2>3. pc[t] \in Outside /\ pc'[t] \in Outside
    BY <1>1, <2>1 DEF Outside, Points
  <2> QED BY <1>1, <1>2, <1>3, <1>5, <2>1, <2>2, <2>3, TableSame, QuietStep
<1> QED BY <1>4, <1>5, RemoveOpenIInv

LEMMA inode_removeAccounted ==
  ASSUME IInv, IInv', Accounted, NEW t \in Threads, inode_remove(t) PROVE Accounted'
<1>1. /\ pc[t] = "inode_remove" /\ Moves(t, "remove_close")
      /\ UNCHANGED <<dir, free_map, inode_disk, dir_lock, panic, file, leaked, created>>
  BY DEF inode_remove, FilesysLocked, Goto, Moves, disk, locks, locals, history
<1>2. sector[t] \in Sectors /\ dir_lock = t /\ sector[t] \notin SystemSectors /\ ~Named(sector[t])
  BY <1>1, SMTT(60) DEF IInv, TypeOK, PlaceInv, Placed, NoSector, Accounted, RemoveInv,
     Removing, InRemove
<1>3. Others(t) /\ pc'[t] = "remove_close" /\ UNCHANGED sector
  <2>1. "remove_close" \in Points
    BY DEF Points
  <2> QED BY <1>1, <2>1, MovesTypes DEF Moves
<1>4. /\ open_inodes[sector[t]] # NULL /\ open_inodes'[sector[t]].removed
      /\ \A s \in Sectors : /\ open_inodes'[s] = NULL <=> open_inodes[s] = NULL
                            /\ open_inodes'[s].inode = open_inodes[s].inode
                            /\ s # sector[t] => open_inodes'[s] = open_inodes[s]
  BY inode_removeIInv
<1>5. \A s \in Sectors \ SystemSectors : SameInode(s)
  BY <1>2, <1>4 DEF SameInode
<1>6. \A s \in SystemSectors : open_inodes'[s] # NULL => ~open_inodes'[s].removed
  <2>1. \A s \in SystemSectors : open_inodes[s] # NULL => ~open_inodes[s].removed
    BY Basics DEF Accounted, OpenInv
  <2> QED BY <1>2, <1>4, <2>1, Basics
<1>7. MakersSame
  BY <1>1, <1>3 DEF MakersSame, Others, Makes, InMaking
<1>8. \A u \in Threads : pc[u] = "inode_remove" =>
        \/ pc'[u] = "inode_remove" /\ sector'[u] = sector[u]
        \/ open_inodes'[sector[u]] # NULL => open_inodes'[sector[u]].removed
  BY <1>3, <1>4 DEF Others
<1>9. Exact(free_map, Live, Fresh, leaked, Data)' /\ NameInv' /\ MakeInv' /\ OpenInv'
  BY <1>1, <1>5, <1>6, <1>7, <1>8, Frame, SMTT(60)
<1>10. Removing(t)'
  BY <1>1, <1>2, <1>3 DEF Removing, InRemove
<1>11. RemoveInv'
  BY <1>1, <1>3, <1>10, RemoveOthers DEF Accounted
<1>12. panic' # "free_map_release"
  BY <1>1 DEF Accounted
<1> QED BY <1>9, <1>11, <1>12 DEF Accounted

(* The name goes first; the inode is open, and about to be marked removed. *)
LEMMA RemoveEraseAccounted ==
  ASSUME IInv, IInv', Accounted, NEW t \in Threads, RemoveErase(t) PROVE Accounted'
<1>1. /\ pc[t] = "remove_erase" /\ Moves(t, "inode_remove") /\ dir' = [dir EXCEPT ![name[t]] = NULL]
      /\ UNCHANGED <<free_map, inode_disk, open_inodes, dir_lock, panic, file, leaked, created>>
  BY DEF RemoveErase, Goto, Moves, locks, locals, history
<1>2. /\ sector[t] \in Sectors /\ name[t] \in Names /\ dir[name[t]] = sector[t]
      /\ dir_lock = t /\ sector[t] \notin SystemSectors
  BY <1>1, SMTT(60) DEF IInv, TypeOK, PlaceInv, Placed, NoSector, Accounted, RemoveInv,
     Removing, InRemove
<1>x. PICK x \in Sectors : x = sector[t]
  BY <1>2
<1>3. Others(t) /\ pc'[t] = "inode_remove" /\ UNCHANGED sector
  <2>1. "inode_remove" \in Points /\ UNCHANGED sector
    BY <1>1 DEF Points, Moves
  <2> QED BY <1>1, <2>1, MovesTypes
<1>4. TypeOK /\ TypeOK' /\ PlaceInv /\ PlaceInv'
  BY DEF IInv
<1>5. /\ \A m \in Names \ {name[t]} : dir'[m] = dir[m]
      /\ dir'[name[t]] = NULL
  BY <1>1, <1>2 DEF IInv, TypeOK
<1>6. ASSUME NEW s \in Sectors PROVE Named(s)' <=> Named(s) /\ s # x
  <2>1. \A m \in Names : dir[m] = x => m = name[t]
    BY <1>2, <1>x, Basics DEF Accounted, NameInv
  <2> QED BY <1>2, <1>x, <1>5, <2>1, Basics DEF Named
<1>7. InUse(x)
  <2>1. Ref(t, "call", x)
    BY <1>1, <1>x DEF Ref
  <2>3. Cardinality(References(x)) # 0
    BY <2>1, RefsSome DEF Kinds
  <2> QED BY <1>2, <1>x, <2>3 DEF IInv, CountInv, Opens, InUse
<1>8. MakersSame
  BY <1>1, <1>3 DEF MakersSame, Others, Makes, InMaking
<1>9. ASSUME NEW s \in Sectors
      PROVE  /\ Adds(s)' <=> Adds(s)
             /\ Allocated(s)' <=> Allocated(s)
             /\ InUse(s)' <=> InUse(s)
  <2>1. Adds(s)' <=> Adds(s)
    BY <1>8 DEF MakersSame, Adds, Makes
  <2>2. Allocated(s)' <=> Allocated(s)
    BY <1>8 DEF MakersSame, Allocated, Makes, InMaking
  <2>3. InUse(s)' <=> InUse(s)
    BY <1>1 DEF InUse
  <2> QED BY <2>1, <2>2, <2>3
<1>10. Live' = Live /\ Fresh' = Fresh
  BY <1>4, <1>6, <1>7, <1>9, Members
<1>11. Exact(free_map, Live, Fresh, leaked, Data)'
  <2>1. Data' = Data
    BY <1>1 DEF Data, InodeOf
  <2> QED BY <1>1, <1>10, <2>1 DEF Accounted
<1>12. NameInv'
  <2>1. ASSUME NEW m \in Names, NEW n \in Names, dir'[m] = dir'[n], dir'[n] # NULL PROVE m = n
    BY <1>5, <2>1, SMTT(60) DEF Accounted, NameInv
  <2>2. ASSUME NEW s \in Sectors, Named(s)', open_inodes'[s] # NULL
        PROVE  ~open_inodes'[s].removed /\ open_inodes'[s].inode = inode_disk'[s]
    BY <1>1, <1>6, <2>2 DEF Accounted, NameInv
  <2> QED BY <2>1, <2>2 DEF NameInv
<1>13. MakeInv'
  <2>1. \A u \in Threads : (Makes(u)' <=> Makes(u)) /\ (Makes(u) => sector[u] \in Sectors)
    BY <1>4, <1>8, MakesUse DEF MakersSame, Makes, InMaking
  <2>2. ASSUME NEW u \in Threads, Makes(u)' PROVE ~Named(sector[u])' /\ open_inodes'[sector'[u]] = NULL
    <3>1. PICK s \in Sectors : s = sector[u] /\ s = sector'[u]
      BY <1>3, <2>1, <2>2
    <3>2. ~Named(s) /\ open_inodes[s] = NULL
      BY <2>1, <2>2, <3>1 DEF Accounted, MakeInv
    <3>3. ~Named(s)'
      BY <1>6, <3>2
    <3> QED BY <1>1, <3>1, <3>2, <3>3 DEF Named
  <2> QED BY <1>3, <2>1, <2>2 DEF Accounted, MakeInv
<1>14. OpenInv'
  <2>1. \A u \in Threads : pc[u] = "inode_remove" => pc'[u] = "inode_remove" /\ sector'[u] = sector[u]
    BY <1>1, <1>3 DEF Others
  <2> QED BY <1>1, <1>3, <1>6, <1>x, <2>1 DEF Accounted, OpenInv
<1>15. Removing(t)'
  <2>1. ~Named(x)'
    BY <1>6
  <2>2. ~Named(sector[t])'
    BY <1>x, <1>3, <2>1 DEF Named
  <2> QED BY <1>1, <1>2, <1>3, <2>2 DEF Removing, InRemove
<1>16. RemoveInv'
  BY <1>2, <1>3, <1>15, RemoveOthers DEF Accounted
<1> QED BY <1>1, <1>11, <1>12, <1>13, <1>14, <1>16, SMTT(60) DEF Accounted

-----------------------------------------------------------------------------
(* The steps of filesys_create.                                            *)

LEMMA CreateFrame ==
  ASSUME IInv, Accounted, NEW t \in Threads, Others(t), UNCHANGED <<dir, open_inodes>>,
         \A s \in Sectors : Named(s) => inode_disk'[s] = inode_disk[s],
         pc[t] \in InCreate, pc'[t] \in InCreate \cup {"dir_close"},
         UNCHANGED dir_lock \/ dir_lock = NULL
  PROVE  NameInv' /\ OpenInv' /\ RemoveInv'
<1>1. \A s \in Sectors : Named(s)' <=> Named(s)
  BY DEF Named
<1>2. NameInv'
  BY <1>1 DEF Accounted, NameInv
<1>3. OpenInv'
  <2>1. \A u \in Threads : pc[u] = "inode_remove" => pc'[u] = "inode_remove" /\ sector'[u] = sector[u]
    BY DEF Others, InCreate
  <2> QED BY <1>1, <2>1, SMTT(60) DEF Accounted, OpenInv
<1>4. RemoveInv'
  <2>1. Removing(t)'
    BY DEF Removing, InCreate, InRemove
  <2> QED BY <2>1, RemoveOthers DEF Accounted
<1> QED BY <1>2, <1>3, <1>4

LEMMA MakeFrame ==
  ASSUME Accounted, NEW t \in Threads, Others(t), UNCHANGED <<dir, open_inodes>>,
         Makes(t)' => /\ ~Named(sector'[t]) /\ open_inodes[sector'[t]] = NULL
                      /\ \A u \in Threads \ {t} : Makes(u) => sector[u] # sector'[t]
  PROVE  MakeInv'
<1>1. \A u \in Threads \ {t} : (Makes(u)' <=> Makes(u)) /\ sector'[u] = sector[u]
  BY DEF Others, Makes
<1>2. ASSUME NEW u \in Threads, Makes(u)' PROVE ~Named(sector[u])' /\ open_inodes'[sector'[u]] = NULL
  <2>1. ~Named(sector'[u]) /\ open_inodes[sector'[u]] = NULL
    BY <1>1, <1>2 DEF Accounted, MakeInv
  <2> QED BY <2>1 DEF Named
<1>3. ASSUME NEW u \in Threads, NEW v \in Threads, Makes(u)', Makes(v)', sector'[u] = sector'[v]
      PROVE  u = v
  BY <1>1, <1>3 DEF Accounted, MakeInv
<1> QED BY <1>2, <1>3 DEF MakeInv

LEMMA CreateAllocateAccounted ==
  ASSUME IInv, IInv', Accounted, NEW t \in Threads, CreateAllocate(t) PROVE Accounted'
<1>1. /\ pc[t] = "create"
      /\ UNCHANGED <<dir, inode_disk, open_inodes, dir_lock, panic, file, leaked, created, call, name, count, found>>
  BY DEF CreateAllocate, Finish, locks, locals, history
<1>2. pc \in [Threads -> Points] /\ sector \in [Threads -> Sectors \cup {NULL}]
  BY DEF IInv, TypeOK, Points
<1>3. TypeOK /\ TypeOK' /\ PlaceInv /\ PlaceInv'
  BY DEF IInv
<1>4. CASE FreeRuns(1) = {}
  <2>1. UNCHANGED <<free_map, sector>> /\ pc' = [pc EXCEPT ![t] = "dir_close"]
    BY <1>4 DEF CreateAllocate, Finish, Goto, locals
  <2>2. Others(t) /\ pc'[t] = "dir_close"
    BY <1>1, <1>2, <2>1 DEF Others
  <2>3. pc[t] \in Outside /\ pc'[t] \in Outside /\ Removing(t)'
    BY <1>1, <2>2 DEF Outside, Points, Removing, InRemove
  <2>4. panic' # "free_map_release"
    BY <1>1 DEF Accounted
  <2> QED BY <1>1, <2>1, <2>2, <2>3, <2>4, TableSame, QuietStep, SMTT(60)
<1>5. CASE FreeRuns(1) # {}
  <2>x. PICK x \in Sectors : x = FirstFit(1) /\ x \notin free_map
    <3>1. PICK x \in FreeRuns(1) : x = FirstFit(1)
      BY <1>5, FirstFitFound
    <3>2. x \in Sectors /\ x \in Nat /\ (x..(x + 1 - 1)) \cap free_map = {}
      BY <3>1, Basics DEF FreeRuns
    <3> QED BY <3>1, <3>2, SMTT(60)
  <2>1. /\ free_map' = free_map \cup {x} /\ sector' = [sector EXCEPT ![t] = x]
        /\ pc' = [pc EXCEPT ![t] = "inode_create"]
    BY <1>5, <2>x DEF CreateAllocate, Goto
  <2>2. Others(t) /\ pc'[t] = "inode_create" /\ sector'[t] = x
    BY <1>1, <1>2, <2>1 DEF Others
  <2>3. NameInv' /\ OpenInv' /\ RemoveInv'
    BY <1>1, <2>2, CreateFrame DEF InCreate
  <2>4. ~Named(x) /\ open_inodes[x] = NULL
    <3>1. ~Named(x) /\ ~InUse(x)
      BY <1>3, <2>x, NamedUse
    <3>2. x \notin SystemSectors
      BY <2>x DEF Accounted, Exact
    <3> QED BY <3>1, <3>2 DEF InUse
  <2>5. \A u \in Threads \ {t} : Makes(u) => sector[u] # x
    BY <1>3, <2>x, MakesUse
  <2>6. MakeInv'
    BY <1>1, <2>2, <2>4, <2>5, MakeFrame
  <2>7. ASSUME NEW s \in Sectors
        PROVE  /\ Named(s)' <=> Named(s)
               /\ InUse(s)' <=> InUse(s)
               /\ Adds(s)' <=> Adds(s)
               /\ Allocated(s)' <=> Allocated(s) \/ s = x
    <3>1. (Named(s)' <=> Named(s)) /\ (InUse(s)' <=> InUse(s))
      BY <1>1 DEF Named, InUse
    <3>2. Adds(s)' <=> Adds(s)
      BY <1>1, <2>2 DEF Adds, Others
    <3>3. Allocated(s)' <=> Allocated(s) \/ s = x
      BY <1>1, <2>2 DEF Allocated, Others, InMaking
    <3> QED BY <3>1, <3>2, <3>3
  <2>8. Live' = Live /\ Fresh' = Fresh \cup {x}
    BY <1>3, <2>7, Members
  <2>9. Exact(free_map, Live, Fresh, leaked, Data)'
    <3>1. Exact(free_map \cup {x}, Live, Fresh \cup {x}, leaked, Data)
      BY <2>x, ExactAllocate DEF Accounted
    <3>2. Data' = Data
      BY <1>1 DEF Data, InodeOf
    <3> QED BY <1>1, <2>1, <2>8, <3>1, <3>2
  <2> QED BY <1>1, <2>3, <2>6, <2>9 DEF Accounted
<1> QED BY <1>4, <1>5

LEMMA inode_createAccounted ==
  ASSUME IInv, IInv', Accounted, NEW t \in Threads, inode_create(t) PROVE Accounted'
<1>1. /\ pc[t] = "inode_create"
      /\ UNCHANGED <<dir, open_inodes, dir_lock, panic, file, leaked, call, name, count, sector, found>>
  BY DEF inode_create, FilesysLocked, locks, locals
<1>2. pc \in [Threads -> Points]
  BY DEF IInv, TypeOK, Points
<1>3. TypeOK /\ TypeOK' /\ PlaceInv /\ PlaceInv'
  BY DEF IInv
<1>4. Makes(t)
  BY <1>1 DEF Makes
<1>x. PICK x \in Sectors : x = sector[t] /\ x \in Fresh
  BY <1>1, <1>3, <1>4, MakesUse
<1>5. ~Named(x) /\ open_inodes[x] = NULL /\ \A u \in Threads \ {t} : Makes(u) => sector[u] # x
  BY <1>x, <1>4 DEF Accounted, MakeInv
<1>6. CASE /\ FreeRuns(count[t]) # {} /\ Goto(t, "dir_add")
           /\ free_map' = free_map \cup Extent(NewInode(t))
           /\ inode_disk' = [inode_disk EXCEPT ![sector[t]] = NewInode(t)]
  <2>1. Extent(NewInode(t)) \cap free_map = {}
    BY <1>1, <1>6, NewInodeFree
  <2>2. Others(t) /\ pc'[t] = "dir_add" /\ sector'[t] = x
    BY <1>1, <1>2, <1>6, <1>x DEF Others, Goto
  <2>3. inode_disk'[x] = NewInode(t) /\ \A s \in Sectors \ {x} : inode_disk'[s] = inode_disk[s]
    BY <1>3, <1>6, <1>x DEF TypeOK
  <2>4. NameInv' /\ OpenInv' /\ RemoveInv'
    <3>1. pc[t] \in InCreate /\ pc'[t] \in InCreate
      BY <1>1, <2>2 DEF InCreate
    <3>2. \A s \in Sectors : Named(s) => inode_disk'[s] = inode_disk[s]
      BY <1>5, <2>3
    <3> QED BY <1>1, <2>2, <3>1, <3>2, CreateFrame
  <2>5. MakeInv'
    BY <1>1, <1>5, <2>2, MakeFrame
  <2>6. ASSUME NEW s \in Sectors
        PROVE  /\ Named(s)' <=> Named(s)
               /\ InUse(s)' <=> InUse(s)
               /\ Adds(s)' <=> Adds(s) \/ s = x
               /\ Allocated(s)' <=> Allocated(s) /\ s # x
    <3>1. (Named(s)' <=> Named(s)) /\ (InUse(s)' <=> InUse(s))
      BY <1>1 DEF Named, InUse
    <3>2. Adds(s)' <=> Adds(s) \/ s = x
      BY <1>1, <2>2 DEF Adds, Others
    <3>3. Allocated(s)' <=> Allocated(s) /\ s # x
      BY <1>1, <1>5, <1>x, <2>2, SMTT(60) DEF Allocated, Others, InMaking, Makes
    <3> QED BY <3>1, <3>2, <3>3
  <2>7. Live' = Live \cup {x} /\ Fresh' = Fresh \ {x}
    BY <1>3, <2>6, Members
  <2>8. Data'[x] = Extent(NewInode(t))
    BY <1>1, <1>5, <2>3 DEF Data, InodeOf
  <2>9. ASSUME NEW s \in Live PROVE Data'[s] = Data[s]
    <3>1. s \in Sectors /\ s # x
      BY <1>3, <1>x, Members DEF Accounted, Exact
    <3> QED BY <1>1, <2>3, <3>1 DEF Data, InodeOf
  <2>10. Exact(free_map, Live, Fresh, leaked, Data)'
    <3>1. Exact(free_map \cup Data'[x], Live \cup {x}, Fresh \ {x}, leaked, Data')
      BY <1>x, <2>1, <2>8, <2>9, ExactCreate, SMTT(60) DEF Accounted
    <3> QED BY <1>1, <1>6, <2>7, <2>8, <3>1
  <2> QED BY <1>1, <2>4, <2>5, <2>10 DEF Accounted
<1>7. CASE Goto(t, "create_undo") /\ UNCHANGED <<free_map, inode_disk, created>>
  <2>1. Others(t) /\ pc'[t] = "create_undo" /\ sector'[t] = x
    BY <1>1, <1>2, <1>7, <1>x DEF Others, Goto
  <2>2. MakersSame
    BY <1>1, <2>1 DEF MakersSame, Others, Makes, InMaking
  <2>3. NameInv' /\ OpenInv' /\ RemoveInv'
    BY <1>1, <1>7, <2>1, CreateFrame, SMTT(60) DEF InCreate
  <2>4. \A u \in Threads : pc[u] = "inode_remove" => pc'[u] = "inode_remove" /\ sector'[u] = sector[u]
    BY <1>1, <2>1 DEF Others
  <2>5. Exact(free_map, Live, Fresh, leaked, Data)' /\ MakeInv'
    BY <1>1, <1>7, <2>2, <2>4, TableSame, Frame, SMTT(60)
  <2> QED BY <1>1, <2>3, <2>5 DEF Accounted
<1> QED BY <1>6, <1>7 DEF inode_create, NewInode

LEMMA CreateUndoAccounted ==
  ASSUME IInv, IInv', Accounted, NEW t \in Threads, CreateUndo(t) PROVE Accounted'
<1>1. /\ pc[t] = "create_undo" /\ Moves(t, "dir_close") /\ free_map_release({sector[t]})
      /\ UNCHANGED <<dir, inode_disk, open_inodes, dir_lock, file, leaked, created>>
  BY DEF CreateUndo, Finish, Goto, Moves, locks, locals, history
<1>2. Others(t) /\ pc'[t] = "dir_close"
  <2>1. "dir_close" \in Points
    BY DEF Points
  <2> QED BY <1>1, <2>1, MovesTypes, SMTT(60)
<1>3. TypeOK /\ TypeOK' /\ PlaceInv /\ PlaceInv'
  BY DEF IInv
<1>4. Makes(t)
  BY <1>1 DEF Makes
<1>x. PICK x \in Sectors : x = sector[t] /\ x \in Fresh
  BY <1>1, <1>3, <1>4, MakesUse
<1>5. \A u \in Threads \ {t} : Makes(u) => sector[u] # x
  BY <1>x, <1>4 DEF Accounted, MakeInv
<1>6. x \in free_map /\ Exact(free_map \ {x}, Live, Fresh \ {x}, leaked, Data)
  BY <1>x, ExactUndo DEF Accounted
<1>7. free_map' = free_map \ {x} /\ UNCHANGED panic
  BY <1>1, <1>x, <1>6, SMTT(60) DEF free_map_release
<1>8. NameInv' /\ OpenInv' /\ RemoveInv'
  BY <1>1, <1>2, CreateFrame DEF InCreate
<1>9. MakeInv'
  <2>1. ~Makes(t)'
    BY <1>2 DEF Makes
  <2> QED BY <1>1, <1>2, <2>1, MakeFrame
<1>10. ASSUME NEW s \in Sectors
       PROVE  /\ Named(s)' <=> Named(s)
              /\ InUse(s)' <=> InUse(s)
              /\ Adds(s)' <=> Adds(s)
              /\ Allocated(s)' <=> Allocated(s) /\ s # x
  <2>1. (Named(s)' <=> Named(s)) /\ (InUse(s)' <=> InUse(s))
    BY <1>1 DEF Named, InUse
  <2>2. Adds(s)' <=> Adds(s)
    BY <1>1, <1>2 DEF Adds, Others
  <2>3. Allocated(s)' <=> Allocated(s) /\ s # x
    BY <1>1, <1>2, <1>5, <1>x DEF Allocated, Others, InMaking, Makes
  <2> QED BY <2>1, <2>2, <2>3
<1>11. Live' = Live /\ Fresh' = Fresh \ {x}
  BY <1>3, <1>10, Members
<1>12. Exact(free_map, Live, Fresh, leaked, Data)'
  <2>1. Data' = Data
    BY <1>1 DEF Data, InodeOf
  <2> QED BY <1>1, <1>6, <1>7, <1>11, <2>1
<1> QED BY <1>7, <1>8, <1>9, <1>12 DEF Accounted

(* dir_add gives the inode its name, or leaks its data.                    *)
LEMMA dir_addAccounted ==
  ASSUME IInv, IInv', Accounted, NEW t \in Threads, dir_add(t) PROVE Accounted'
<1>1. /\ pc[t] = "dir_add" /\ dir_lock = NULL
      /\ UNCHANGED <<free_map, inode_disk, open_inodes, panic, file, created>>
  BY DEF dir_add
<1>2. TypeOK /\ TypeOK' /\ PlaceInv /\ PlaceInv'
  BY DEF IInv
<1>3. Makes(t)
  BY <1>1 DEF Makes
<1>x. PICK x \in Sectors : x = sector[t] /\ x \in Live
  BY <1>1, <1>2, <1>3, MakesUse, SMTT(60)
<1>4. ~Named(x) /\ open_inodes[x] = NULL /\ \A u \in Threads \ {t} : Makes(u) => sector[u] # x
  BY <1>x, <1>3 DEF Accounted, MakeInv
<1>5. ~InUse(x) /\ ~Allocated(x)
  BY <1>1, <1>4 DEF InUse, Allocated, Makes, InMaking
<1>6. CASE /\ name[t] \in Names /\ dir[name[t]] = NULL /\ dir' = [dir EXCEPT ![name[t]] = sector[t]]
           /\ Moves(t, "dir_close") /\ UNCHANGED <<dir_lock, leaked>>
  <2>1. Others(t) /\ pc'[t] = "dir_close" /\ UNCHANGED sector
    <3>1. "dir_close" \in Points /\ UNCHANGED sector
      BY <1>6 DEF Points, Moves
    <3> QED BY <1>1, <1>6, <3>1, MovesTypes
  <2>2. dir'[name[t]] = x /\ \A m \in Names \ {name[t]} : dir'[m] = dir[m]
    BY <1>2, <1>6, <1>x DEF TypeOK
  <2>3. ASSUME NEW s \in Sectors PROVE Named(s)' <=> Named(s) \/ s = x
    BY <1>6, <2>2, Basics DEF Named
  <2>4. ASSUME NEW s \in Sectors
        PROVE  /\ InUse(s)' <=> InUse(s)
               /\ Adds(s)' <=> Adds(s) /\ s # x
               /\ Allocated(s)' <=> Allocated(s)
    <3>1. InUse(s)' <=> InUse(s)
      BY <1>1 DEF InUse
    <3>2. Adds(s)' <=> Adds(s) /\ s # x
      BY <1>1, <1>4, <1>x, <2>1 DEF Adds, Others, Makes
    <3>3. Allocated(s)' <=> Allocated(s)
      BY <1>1, <2>1 DEF Allocated, Others, InMaking
    <3> QED BY <3>1, <3>2, <3>3
  <2>5. Live' = Live /\ Fresh' = Fresh
    BY <1>2, <1>x, <2>3, <2>4, Members
  <2>6. Exact(free_map, Live, Fresh, leaked, Data)'
    <3>1. Data' = Data
      BY <1>1 DEF Data, InodeOf
    <3> QED BY <1>1, <1>6, <2>5, <3>1 DEF Accounted
  <2>7. NameInv'
    <3>1. \A m \in Names : dir[m] # x
      BY <1>4 DEF Named
    <3>2. ASSUME NEW m \in Names, NEW n \in Names, dir'[m] = dir'[n], dir'[n] # NULL PROVE m = n
      BY <2>2, <3>1, <3>2, SMTT(60) DEF Accounted, NameInv
    <3>3. ASSUME NEW s \in Sectors, Named(s)', open_inodes'[s] # NULL
          PROVE  ~open_inodes'[s].removed /\ open_inodes'[s].inode = inode_disk'[s]
      BY <1>1, <1>4, <2>3, <3>3 DEF Accounted, NameInv
    <3> QED BY <3>2, <3>3 DEF NameInv
  <2>8. MakeInv'
    <3>1. ~Makes(t)' /\ \A u \in Threads \ {t} : Makes(u)' <=> Makes(u)
      BY <2>1 DEF Makes, Others
    <3>2. ASSUME NEW u \in Threads, Makes(u)' PROVE ~Named(sector[u])' /\ open_inodes'[sector'[u]] = NULL
      <4>1. u # t /\ Makes(u)
        BY <3>1, <3>2
      <4>2. PICK s \in Sectors : s = sector[u] /\ s # x
        BY <1>2, <1>4, <4>1, MakesUse
      <4>3. ~Named(s) /\ open_inodes[s] = NULL
        BY <4>1, <4>2 DEF Accounted, MakeInv
      <4>4. ~Named(s)'
        BY <2>3, <4>2, <4>3
      <4> QED BY <1>1, <2>1, <4>2, <4>3, <4>4 DEF Named
    <3> QED BY <2>1, <3>1, <3>2 DEF Accounted, MakeInv
  <2>9. OpenInv'
    <3>1. \A u \in Threads : pc[u] = "inode_remove" => pc'[u] = "inode_remove" /\ sector'[u] = sector[u]
      BY <1>1, <2>1 DEF Others
    <3> QED BY <1>1, <2>3, <3>1, SMTT(60) DEF Accounted, OpenInv
  <2>10. RemoveInv'
    <3>1. Removing(t)'
      BY <2>1 DEF Removing, InRemove
    <3> QED BY <1>1, <2>1, <3>1, RemoveOthers DEF Accounted
  <2> QED BY <1>1, <2>6, <2>7, <2>8, <2>9, <2>10, SMTT(60) DEF Accounted
<1>7. CASE /\ leaked' = leaked \cup Extent(inode_disk[sector[t]])
           /\ Moves(t, "create_undo") /\ UNCHANGED dir
  <2>1. Others(t) /\ pc'[t] = "create_undo" /\ sector'[t] = x
    <3>1. "create_undo" \in Points /\ UNCHANGED sector
      BY <1>7 DEF Points, Moves
    <3> QED BY <1>1, <1>7, <1>x, <3>1, MovesTypes
  <2>2. NameInv' /\ OpenInv' /\ RemoveInv'
    BY <1>1, <1>7, <2>1, CreateFrame DEF InCreate
  <2>3. MakeInv'
    BY <1>1, <1>4, <1>7, <2>1, MakeFrame
  <2>4. ASSUME NEW s \in Sectors
        PROVE  /\ Named(s)' <=> Named(s)
               /\ InUse(s)' <=> InUse(s)
               /\ Adds(s)' <=> Adds(s) /\ s # x
               /\ Allocated(s)' <=> Allocated(s) \/ s = x
    <3>1. (Named(s)' <=> Named(s)) /\ (InUse(s)' <=> InUse(s))
      BY <1>1, <1>7 DEF Named, InUse
    <3>2. Adds(s)' <=> Adds(s) /\ s # x
      BY <1>1, <1>4, <1>x, <2>1 DEF Adds, Others, Makes
    <3>3. Allocated(s)' <=> Allocated(s) \/ s = x
      BY <1>1, <2>1 DEF Allocated, Others, InMaking
    <3> QED BY <3>1, <3>2, <3>3
  <2>5. Live' = Live \ {x} /\ Fresh' = Fresh \cup {x}
    BY <1>2, <1>4, <1>5, <2>4, Members
  <2>6. Exact(free_map, Live, Fresh, leaked, Data)'
    <3>1. Data' = Data /\ Data[x] = Extent(inode_disk[sector[t]])
      BY <1>1, <1>4, <1>x DEF Data, InodeOf
    <3>2. Exact(free_map, Live \ {x}, Fresh \cup {x}, leaked \cup Data[x], Data)
      BY <1>x, ExactLose DEF Accounted
    <3> QED BY <1>1, <1>7, <2>5, <3>1, <3>2
  <2> QED BY <1>1, <2>2, <2>3, <2>6 DEF Accounted
<1> QED BY <1>6, <1>7 DEF dir_add, Finish, Goto, Moves, locals

-----------------------------------------------------------------------------
(* The second invariant.                                                   *)

LEMMA InitAInv == ASSUME Init PROVE AInv
<1>1. Live = {} /\ Fresh = {}
  BY Basics DEF Init, Live, LiveInodes, Fresh, InMaking
<1>2. Exact(free_map, Live, Fresh, leaked, Data)
  BY <1>1 DEF Init, Exact
<1>3. NameInv /\ MakeInv /\ OpenInv
  BY DEF Init, NameInv, MakeInv, OpenInv, Makes
<1>4. RemoveInv
  BY DEF Init, RemoveInv, Removing, InRemove
<1>5. panic # "free_map_release"
  BY NullAssumption DEF Init
<1> QED BY <1>2, <1>3, <1>4, <1>5 DEF AInv, Accounted

LEMMA StutterAInv == ASSUME AInv, UNCHANGED vars PROVE AInv'
<1> USE DEF vars, disk, locks, locals, history
<1>1. Live' = Live /\ Fresh' = Fresh /\ Data' = Data
  BY DEF Live, LiveInodes, Fresh, Data, InodeOf
<1>2. NameInv => NameInv'
  BY DEF NameInv, Named
<1>3. MakeInv => MakeInv'
  BY DEF MakeInv, Makes, Named
<1>4. OpenInv => OpenInv'
  BY DEF OpenInv, Named
<1>5. RemoveInv => RemoveInv'
  BY DEF RemoveInv, Removing, Named
<1> QED BY <1>1, <1>2, <1>3, <1>4, <1>5 DEF AInv, Accounted

LEMMA StepStale == ASSUME NEW t \in Threads, Step(t), ~stale' PROVE ~stale
BY DEF Step, DirClose, Relock, CreateAllocate, inode_create, dir_add, CreateUndo, OpenLookup,
       OpenInode, file_open, RemoveLookup, RemoveOpen, RemoveErase, inode_remove, RemoveClose, history

LEMMA NextAInv == ASSUME IInv, AInv, Next PROVE AInv'
<1>1. PICK t \in Threads : Step(t) \/ User(t)
  BY DEF Next
<1>2. IInv'
  BY NextIInv
<1>3. CASE Step(t)
  <2> SUFFICES ASSUME ~stale' PROVE Accounted'
    BY DEF AInv
  <2>1. Accounted
    BY <1>3, StepStale DEF AInv
  <2> QED BY <1>2, <1>3, <2>1, DirCloseAccounted, RelockAccounted, CreateAllocateAccounted,
             inode_createAccounted, dir_addAccounted, CreateUndoAccounted, OpenLookupAccounted,
             OpenInodeAccounted, file_openAccounted, RemoveLookupAccounted, RemoveOpenAccounted,
             RemoveEraseAccounted, inode_removeAccounted, RemoveCloseAccounted DEF Step
<1>4. CASE User(t)
  <2>1. ASSUME NEW n \in AllNames, NEW k \in DataSectors, Call(t, "create", n, k) PROVE AInv'
    <3>1. k \in Nat /\ stale' = stale
      BY <2>1, FileSysAssumption DEF Call, history
    <3> QED BY <1>2, <2>1, <3>1, CallAccounted DEF AInv
  <2>2. ASSUME NEW n \in AllNames, NEW c \in {"open", "remove"}, Call(t, c, n, 0) PROVE AInv'
    <3>1. stale' = stale
      BY <2>2 DEF Call, history
    <3> QED BY <1>2, <2>2, <3>1, CallAccounted DEF AInv
  <2>3. CASE Close(t)
    <3>1. stale' = stale
      BY <2>3 DEF Close, history
    <3> QED BY <1>2, <2>3, <3>1, CloseFileAccounted DEF AInv
  <2> QED BY <1>4, <2>1, <2>2, <2>3 DEF User
<1> QED BY <1>1, <1>3, <1>4

THEOREM SpecAInv == Spec => []AInv
<1>1. Init => AInv
  BY InitAInv
<1>2. IInv /\ AInv /\ [Next]_vars => AInv'
  BY NextAInv, StutterAInv
<1> QED BY <1>1, <1>2, SpecIInv, PTL DEF Spec

(* As long as no filesys_open has opened another file than the one it      *)
(* looked up, the free map is exactly the sectors in use and each has one  *)
(* use, whatever creations fail and leak on the way; and no                *)
(* free_map_release finds a sector that is free already.                   *)
THEOREM SpecSectorAccounting == Spec => []SectorAccounting
<1>1. ASSUME IInv, Accounted PROVE SectorAccounting
  <2>1. Live \subseteq Sectors
    BY <1>1, SMTT(60) DEF IInv, TypeOK, Live, LiveInodes
  <2>2. \A s \in Live : Data[s] = Extent(InodeOf(s))
    BY <2>1 DEF Data
  <2>3. UNION {Data[s] : s \in Live} = UNION {Extent(InodeOf(s)) : s \in Live}
    BY <2>2
  <2>4. ASSUME NEW s \in {dir[n] : n \in Names} \ {NULL}, open_inodes[s] # NULL
        PROVE  ~open_inodes[s].removed
    <3>1. s \in Sectors /\ Named(s)
      BY <1>1, <2>4 DEF IInv, TypeOK, Named
    <3> QED BY <1>1, <2>4, <3>1 DEF Accounted, NameInv
  <2>5. ASSUME NEW s \in Live
        PROVE  /\ s \notin Fresh
               /\ Extent(InodeOf(s)) \cap (SystemSectors \cup Live \cup Fresh \cup leaked) = {}
               /\ \A r \in Live \ {s} : Extent(InodeOf(s)) \cap Extent(InodeOf(r)) = {}
    BY <1>1, <2>2 DEF Accounted, Exact
  <2>6. free_map = SystemSectors \cup Live \cup Fresh \cup leaked
                     \cup UNION {Extent(InodeOf(s)) : s \in Live}
    BY <1>1, <2>3 DEF Accounted, Exact
  <2>7. panic # "free_map_release"
    BY <1>1 DEF Accounted
  <2> QED BY <2>4, <2>5, <2>6, <2>7 DEF SectorAccounting, Live, Fresh, InMaking
<1>2. IInv /\ AInv => SectorAccounting
  BY <1>1 DEF AInv, SectorAccounting
<1> QED BY <1>2, SpecIInv, SpecAInv, PTL

=============================================================================
