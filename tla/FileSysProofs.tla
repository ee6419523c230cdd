--------------------------- MODULE FileSysProofs ---------------------------
(***************************************************************************)
(* Proofs about the table of open inodes and the free map, for any number  *)
(* of threads and names, any size of the device and of the directory, with *)
(* or without failing mallocs and names that dir_add refuses.              *)
(***************************************************************************)
EXTENDS FileSys, FiniteSetTheorems, TLAPS

(* Zenon proves a leaf unless the leaf names another prover.               *)
USE ZenonT(60)

Points == {"idle", "create", "inode_create", "dir_add", "create_undo", "open", "inode_open",
           "file_open", "remove", "remove_open", "remove_erase", "inode_remove",
           "remove_close", "dir_close"}
InCreate == {"create", "inode_create", "dir_add", "create_undo"}
InOpen == {"open", "inode_open", "file_open"}
InRemove == {"remove", "remove_open", "remove_erase", "inode_remove", "remove_close"}
NoSector == {"idle", "create", "open", "remove"}

(* The types of the locals, which TypeOK leaves out.                       *)
LocalTypes ==
  /\ call \in [Threads -> {"none", "create", "open", "remove"}]
  /\ name \in [Threads -> Names \cup {BadName, NULL}]
  /\ count \in [Threads -> Nat]
  /\ DOMAIN found = Threads
  /\ created \in Nat

(* Where a thread is tells which call it is in, and whether it has found a *)
(* sector; a thread that opens a file has none open.                       *)
Placed(t) ==
  /\ pc[t] \in NoSector => sector[t] = NULL
  /\ pc[t] \notin NoSector \cup {"dir_close"} => sector[t] # NULL
  /\ pc[t] \in InCreate => call[t] = "create"
  /\ pc[t] \in InOpen => call[t] = "open"
  /\ pc[t] \in InRemove => call[t] = "remove"
  /\ call[t] = "open" => file[t] = NULL
  /\ pc[t] \in {"create", "inode_create"} => count[t] \in DataSectors
  /\ pc[t] = "dir_add" => inode_disk[sector[t]] # NULL

PlaceInv == \A t \in Threads : Placed(t)

(* Every inode on the disk has its data on the device.                     *)
DiskInv == \A s \in Sectors : inode_disk[s] # NULL => Extent(inode_disk[s]) \subseteq Sectors

(* The creations still to come are within the bound.                       *)
Creators == {t \in Threads : pc[t] \in {"create", "inode_create"}}
BudgetInv == created + Cardinality(Creators) <= MaxCreates

(* A thread's reference of a kind to the inode in a sector.                *)
Kinds == {"file", "call", "dir"}
Ref(t, k, s) ==
  \/ k = "file" /\ file[t] = s
  \/ /\ k = "call" /\ sector[t] = s
     /\ \/ pc[t] \in {"file_open", "remove_erase", "inode_remove", "remove_close"}
        \/ pc[t] = "dir_close" /\ call[t] = "open"
  \/ k = "dir" /\ s = ROOT_DIR_SECTOR /\ pc[t] \notin {"idle", "file_open"}

Opens(s) == IF open_inodes[s] = NULL THEN 0 ELSE open_inodes[s].open_cnt
CountInv == \A s \in Sectors : Cardinality(References(s)) = Opens(s)

IInv == TypeOK /\ LocalTypes /\ PlaceInv /\ DiskInv /\ BudgetInv /\ CountInv

-----------------------------------------------------------------------------
(* References as a set of pairs.                                           *)

LEMMA RefMember ==
  ASSUME NEW s
  PROVE  /\ References(s) = {x \in Threads \X Kinds : Ref(x[1], x[2], s)}
         /\ References(s)' = {x \in Threads \X Kinds : Ref(x[1], x[2], s)'}
<1>1. ASSUME NEW x \in References(s)
      PROVE  x \in Threads \X Kinds /\ Ref(x[1], x[2], s)
  BY SMTT(60) DEF References, Ref, Kinds
<1>2. ASSUME NEW x \in Threads \X Kinds, Ref(x[1], x[2], s) PROVE x \in References(s)
  <2>1. PICK t \in Threads, k \in Kinds : x = <<t, k>>
    BY <1>2, SMTT(60)
  <2>2. Ref(t, k, s)
    BY <1>2, <2>1
  <2> QED BY <2>1, <2>2 DEF References, Ref
<1>3. ASSUME NEW x \in References(s)'
      PROVE  x \in Threads \X Kinds /\ Ref(x[1], x[2], s)'
  BY SMTT(60) DEF References, Ref, Kinds
<1>4. ASSUME NEW x \in Threads \X Kinds, Ref(x[1], x[2], s)' PROVE x \in References(s)'
  <2>1. PICK t \in Threads, k \in Kinds : x = <<t, k>>
    BY <1>4, SMTT(60)
  <2>2. Ref(t, k, s)'
    BY <1>4, <2>1
  <2> QED BY <2>1, <2>2 DEF References, Ref
<1>5. References(s) = {x \in Threads \X Kinds : Ref(x[1], x[2], s)}
  BY <1>1, <1>2
<1>6. References(s)' = {x \in Threads \X Kinds : Ref(x[1], x[2], s)'}
  BY <1>3, <1>4
<1> QED BY <1>5, <1>6

LEMMA RefsFinite ==
  ASSUME NEW s
  PROVE  /\ IsFiniteSet(References(s)) /\ Cardinality(References(s)) \in Nat
         /\ IsFiniteSet(References(s)') /\ Cardinality(References(s)') \in Nat
<1>1. IsFiniteSet(Kinds)
  <2>1. Kinds = ({} \cup {"file"}) \cup {"call"} \cup {"dir"}
    BY DEF Kinds
  <2> QED BY <2>1, FS_EmptySet, FS_AddElement
<1>2. IsFiniteSet(Threads \X Kinds)
  BY <1>1, FS_Product, FileSysAssumption
<1>3. References(s) \in SUBSET (Threads \X Kinds) /\ References(s)' \in SUBSET (Threads \X Kinds)
  BY RefMember, SMTT(60)
<1>4. IsFiniteSet(References(s)) /\ IsFiniteSet(References(s)')
  BY <1>2, <1>3, FS_Subset
<1> QED BY <1>4, FS_CardinalityType

LEMMA RefsSome ==
  ASSUME NEW s, NEW t \in Threads, NEW k \in Kinds, Ref(t, k, s)
  PROVE  Cardinality(References(s)) # 0
<1>1. <<t, k>> \in Threads \X Kinds /\ <<t, k>>[1] = t /\ <<t, k>>[2] = k
  OBVIOUS
<1>2. References(s) # {}
  BY <1>1, RefMember, SMTT(60)
<1> QED BY <1>2, RefsFinite, FS_EmptySet

(* Whoever is about to mark an inode removed has a reference of its own,   *)
(* so that another thread's close is not the last.                         *)
LEMMA LastReference ==
  ASSUME NEW x, Cardinality(References(x)) = 1, NEW t \in Threads, NEW k \in Kinds, Ref(t, k, x),
         NEW u \in Threads, pc[u] = "inode_remove", sector[u] = x
  PROVE  u = t
<1>1. /\ <<t, k>> \in Threads \X Kinds /\ <<t, k>>[1] = t /\ <<t, k>>[2] = k
      /\ <<u, "call">> \in Threads \X Kinds /\ <<u, "call">>[1] = u /\ <<u, "call">>[2] = "call"
  BY DEF Kinds
<1>2. Ref(u, "call", x)
  BY DEF Ref
<1>3. <<t, k>> \in References(x) /\ <<u, "call">> \in References(x)
  BY <1>1, <1>2, RefMember
<1>4. \E y : References(x) = {y}
  BY RefsFinite, FS_Singleton
<1> QED BY <1>3, <1>4, SMTT(60)

(* A step takes no reference to the inode in s and drops none.             *)
Keeps(s) == \A t \in Threads, k \in Kinds : Ref(t, k, s)' <=> Ref(t, k, s)

(* A step changes the reference of kind k that t has to s, and no other.   *)
KeepsBut(t, k, s) ==
  \A u \in Threads, j \in Kinds : (<<u, j>> # <<t, k>>) => (Ref(u, j, s)' <=> Ref(u, j, s))

LEMMA RefsSame == ASSUME NEW s, Keeps(s) PROVE References(s)' = References(s)
<1>1. \A x \in Threads \X Kinds : Ref(x[1], x[2], s)' <=> Ref(x[1], x[2], s)
  BY DEF Keeps
<1> QED BY <1>1, RefMember

LEMMA RefsAdd ==
  ASSUME NEW s, NEW t \in Threads, NEW k \in Kinds, KeepsBut(t, k, s), ~Ref(t, k, s), Ref(t, k, s)'
  PROVE  Cardinality(References(s)') = Cardinality(References(s)) + 1
<1>1. \A x \in Threads \X Kinds : x # <<t, k>> => (Ref(x[1], x[2], s)' <=> Ref(x[1], x[2], s))
  BY SMTT(60) DEF KeepsBut
<1>2. <<t, k>> \in Threads \X Kinds /\ <<t, k>>[1] = t /\ <<t, k>>[2] = k
  OBVIOUS
<1>3. <<t, k>> \notin References(s) /\ References(s)' = References(s) \cup {<<t, k>>}
  BY <1>1, <1>2, RefMember
<1> QED BY <1>3, RefsFinite, FS_AddElement

LEMMA RefsDrop ==
  ASSUME NEW s, NEW t \in Threads, NEW k \in Kinds, KeepsBut(t, k, s), Ref(t, k, s), ~Ref(t, k, s)'
  PROVE  /\ Cardinality(References(s)) > 0
         /\ Cardinality(References(s)') = Cardinality(References(s)) - 1
<1>1. \A x \in Threads \X Kinds : x # <<t, k>> => (Ref(x[1], x[2], s)' <=> Ref(x[1], x[2], s))
  BY SMTT(60) DEF KeepsBut
<1>2. <<t, k>> \in Threads \X Kinds /\ <<t, k>>[1] = t /\ <<t, k>>[2] = k
  OBVIOUS
<1>3. <<t, k>> \in References(s) /\ References(s)' = References(s) \ {<<t, k>>}
  BY <1>1, <1>2, RefMember, SMTT(60)
<1>4. Cardinality(References(s)') = Cardinality(References(s)) - 1
  BY <1>3, RefsFinite, FS_RemoveElement
<1> QED BY <1>4, RefsFinite, SMTT(60)

(* file_open turns the reference of the call into one of the file.         *)
LEMMA RefsMove ==
  ASSUME NEW s, NEW t \in Threads, NEW j \in Kinds, NEW k \in Kinds, j # k,
         \A u \in Threads, i \in Kinds :
           u # t \/ i \notin {j, k} => (Ref(u, i, s)' <=> Ref(u, i, s)),
         Ref(t, j, s), ~Ref(t, k, s), ~Ref(t, j, s)', Ref(t, k, s)'
  PROVE  Cardinality(References(s)') = Cardinality(References(s))
<1>1. \A x \in Threads \X Kinds :
        x \notin {<<t, j>>, <<t, k>>} => (Ref(x[1], x[2], s)' <=> Ref(x[1], x[2], s))
  BY SMTT(60)
<1>2. /\ <<t, j>> \in Threads \X Kinds /\ <<t, j>>[1] = t /\ <<t, j>>[2] = j
      /\ <<t, k>> \in Threads \X Kinds /\ <<t, k>>[1] = t /\ <<t, k>>[2] = k
      /\ <<t, j>> # <<t, k>>
  OBVIOUS
<1> DEFINE R == References(s) \ {<<t, j>>}
<1>3. <<t, j>> \in References(s) /\ <<t, k>> \notin R /\ References(s)' = R \cup {<<t, k>>}
  BY <1>1, <1>2, RefMember, SMTT(60)
<1>4. IsFiniteSet(R) /\ Cardinality(R) = Cardinality(References(s)) - 1
  BY <1>3, RefsFinite, FS_RemoveElement
<1> HIDE DEF R
<1>5. Cardinality(References(s)') = Cardinality(R) + 1
  BY <1>3, <1>4, FS_AddElement
<1> QED BY <1>4, <1>5, RefsFinite, SMTT(60)

-----------------------------------------------------------------------------
(* The table of open inodes.                                               *)

LEMMA Basics ==
  /\ NULL \notin Sectors /\ ROOT_DIR_SECTOR \in Sectors /\ FREE_MAP_SECTOR \in Sectors
  /\ SystemSectors \subseteq Sectors /\ Sectors \subseteq Nat /\ DeviceSize \in Nat
  /\ NULL \notin Threads
BY FileSysAssumption, SMTT(60) DEF Sectors, ROOT_DIR_SECTOR, FREE_MAP_SECTOR, SystemSectors

LEMMA CountedType ==
  ASSUME NEW r \in OpenInodes, NEW n \in Nat \ {0}
  PROVE  /\ Counted(r, n) \in OpenInodes /\ Counted(r, n).open_cnt = n
         /\ Counted(r, n).removed = r.removed /\ Counted(r, n).inode = r.inode
BY DEF Counted, OpenInodes

LEMMA OnDiskType ==
  ASSUME TypeOK, NEW s \in Sectors
  PROVE  /\ OnDisk(s) \in OpenInodes /\ OnDisk(s).open_cnt = 1
         /\ ~OnDisk(s).removed /\ OnDisk(s).inode = inode_disk[s]
<1>1. inode_disk[s] \in Inodes
  BY DEF TypeOK
<1> QED BY <1>1, SMTT(60) DEF OnDisk, OpenInodes

(* What inode_open does to the table, once it has memory.                  *)
Opened(s) ==
  /\ \A r \in Sectors \ {s} : open_inodes'[r] = open_inodes[r]
  /\ open_inodes'[s] # NULL
  /\ open_inodes[s] = NULL => ~open_inodes'[s].removed /\ open_inodes'[s].inode = inode_disk[s]
  /\ open_inodes[s] # NULL => /\ open_inodes'[s].removed = open_inodes[s].removed
                              /\ open_inodes'[s].inode = open_inodes[s].inode

(* What inode_close does to it.                                            *)
Closed(s) ==
  /\ \A r \in Sectors \ {s} : open_inodes'[r] = open_inodes[r]
  /\ open_inodes[s] # NULL /\ open_inodes[s].open_cnt = Cardinality(References(s))
  /\ open_inodes[s].open_cnt = 1 => open_inodes'[s] = NULL
  /\ open_inodes[s].open_cnt # 1 => /\ open_inodes'[s] # NULL
                                    /\ open_inodes'[s].removed = open_inodes[s].removed
                                    /\ open_inodes'[s].inode = open_inodes[s].inode

(* inode_open, once it has memory, by a thread that takes a reference.     *)
LEMMA OpenCount ==
  ASSUME IInv, NEW s \in Sectors, open_inodes' = inode_open(s),
         NEW t \in Threads, NEW k \in Kinds, KeepsBut(t, k, s), ~Ref(t, k, s), Ref(t, k, s)',
         \A r \in Sectors \ {s} : Keeps(r)
  PROVE  /\ open_inodes' \in [Sectors -> OpenInodes \cup {NULL}] /\ CountInv'
         /\ Opened(s)
<1> DEFINE new == IF open_inodes[s] = NULL THEN OnDisk(s)
                  ELSE Counted(open_inodes[s], open_inodes[s].open_cnt + 1)
<1>1. open_inodes \in [Sectors -> OpenInodes \cup {NULL}] /\ TypeOK
  BY DEF IInv, TypeOK
<1>2. open_inodes' = [open_inodes EXCEPT ![s] = new]
  BY DEF inode_open
<1>3. open_inodes[s] # NULL => open_inodes[s] \in OpenInodes /\ open_inodes[s].open_cnt + 1 \in Nat \ {0}
  BY <1>1, SMTT(60) DEF OpenInodes
<1>4. /\ new \in OpenInodes /\ new.open_cnt = Opens(s) + 1
      /\ open_inodes[s] = NULL => ~new.removed /\ new.inode = inode_disk[s]
      /\ open_inodes[s] # NULL =>
           new.removed = open_inodes[s].removed /\ new.inode = open_inodes[s].inode
  <2>1. CASE open_inodes[s] = NULL
    BY <1>1, <2>1, OnDiskType, SMTT(60) DEF Opens
  <2>2. CASE open_inodes[s] # NULL
    BY <1>3, <2>2, CountedType DEF Opens
  <2> QED BY <2>1, <2>2
<1> HIDE DEF new
<1>5. new # NULL
  BY <1>4, NullAssumption
<1>6. /\ open_inodes' \in [Sectors -> OpenInodes \cup {NULL}] /\ open_inodes'[s] = new
      /\ \A r \in Sectors \ {s} : open_inodes'[r] = open_inodes[r]
  BY <1>1, <1>2, <1>4
<1>7. \A r \in Sectors : Cardinality(References(r)) = Opens(r)
  BY DEF IInv, CountInv
<1>8. ASSUME NEW r \in Sectors PROVE Cardinality(References(r)') = Opens(r)'
  <2>1. CASE r = s
    <3>1. Opens(r)' = Opens(s) + 1
      BY <1>4, <1>5, <1>6, <2>1 DEF Opens
    <3>2. Cardinality(References(r)') = Cardinality(References(r)) + 1
      BY <2>1, RefsAdd
    <3> QED BY <1>7, <2>1, <3>1, <3>2
  <2>2. CASE r # s
    <3>1. Opens(r)' = Opens(r)
      BY <1>6, <2>2 DEF Opens
    <3>2. References(r)' = References(r)
      BY <2>2, RefsSame
    <3> QED BY <1>7, <3>1, <3>2
  <2> QED BY <2>1, <2>2
<1>9. CountInv'
  BY <1>8 DEF CountInv
<1> QED BY <1>4, <1>5, <1>6, <1>9 DEF Opened

(* inode_close of an inode that the thread has a reference to.             *)
LEMMA CloseCount ==
  ASSUME IInv, NEW s \in Sectors, inode_close(s),
         NEW t \in Threads, NEW k \in Kinds, KeepsBut(t, k, s), Ref(t, k, s), ~Ref(t, k, s)',
         \A r \in Sectors \ {s} : Keeps(r)
  PROVE  /\ open_inodes' \in [Sectors -> OpenInodes \cup {NULL}] /\ CountInv'
         /\ Closed(s)
<1>1. open_inodes \in [Sectors -> OpenInodes \cup {NULL}] /\ TypeOK
  BY DEF IInv, TypeOK
<1>2. \A r \in Sectors : Cardinality(References(r)) = Opens(r)
  BY DEF IInv, CountInv
<1>3. /\ Cardinality(References(s)) > 0
      /\ Cardinality(References(s)') = Cardinality(References(s)) - 1
  BY RefsDrop
<1> DEFINE n == open_inodes[s].open_cnt
           new == IF n = 1 THEN NULL ELSE Counted(open_inodes[s], n - 1)
<1>4. open_inodes' = [open_inodes EXCEPT ![s] = new]
  BY DEF inode_close
<1>5. open_inodes[s] # NULL /\ open_inodes[s] \in OpenInodes /\ n = Cardinality(References(s))
  BY <1>1, <1>2, <1>3, SMTT(60) DEF Opens
<1>6. n \in Nat \ {0}
  BY <1>5 DEF OpenInodes
<1>7. n # 1 => /\ new \in OpenInodes /\ new.open_cnt = n - 1
               /\ new.removed = open_inodes[s].removed /\ new.inode = open_inodes[s].inode
  <2>1. n # 1 => n - 1 \in Nat \ {0}
    BY <1>6, SMTT(60)
  <2> QED BY <1>5, <2>1, CountedType
<1>8. n = 1 => new = NULL
  OBVIOUS
<1> HIDE DEF new, n
<1>9. n # 1 => new # NULL
  BY <1>7, NullAssumption
<1>10. /\ open_inodes' \in [Sectors -> OpenInodes \cup {NULL}] /\ open_inodes'[s] = new
       /\ \A r \in Sectors \ {s} : open_inodes'[r] = open_inodes[r]
  BY <1>1, <1>4, <1>7, <1>8
<1>11. ASSUME NEW r \in Sectors PROVE Cardinality(References(r)') = Opens(r)'
  <2>1. CASE r = s
    <3>1. Opens(r)' = n - 1
      BY <1>6, <1>7, <1>8, <1>9, <1>10, <2>1, SMTT(60) DEF Opens
    <3> QED BY <1>3, <1>5, <2>1, <3>1
  <2>2. CASE r # s
    <3>1. Opens(r)' = Opens(r)
      BY <1>10, <2>2, SMTT(60) DEF Opens
    <3>2. References(r)' = References(r)
      BY <2>2, RefsSame
    <3> QED BY <1>2, <3>1, <3>2
  <2> QED BY <2>1, <2>2
<1>12. CountInv'
  BY <1>11 DEF CountInv
<1> QED BY <1>5, <1>7, <1>8, <1>9, <1>10, <1>12 DEF n, Closed

(* A step that leaves the table alone, or marks an inode removed.          *)
LEMMA KeepCount ==
  ASSUME IInv, \A s \in Sectors : Keeps(s) /\ Opens(s)' = Opens(s)
  PROVE  CountInv'
<1>1. \A s \in Sectors : References(s)' = References(s)
  BY RefsSame
<1> QED BY <1>1 DEF IInv, CountInv

(* bitmap_scan_and_flip finds the first run, when there is one.            *)
LEMMA FirstFitFound ==
  ASSUME NEW cnt \in Nat, FreeRuns(cnt) # {}
  PROVE  FirstFit(cnt) \in FreeRuns(cnt)
<1> DEFINE R == OpToRel(<, Nat)
           T == FreeRuns(cnt)
<1> HIDE DEF R, T
<1>1. T \subseteq Nat /\ T # {}
  BY Basics DEF T, FreeRuns
<1>2. \E x \in T : \A y \in T : <<y, x>> \notin R
  <2>1. IsWellFoundedOn(R, Nat)
    BY NatLessThanWellFounded DEF R
  <2> QED BY <1>1, <2>1, WFMin
<1>3. PICK x \in T : \A y \in T : <<y, x>> \notin R
  BY <1>2
<1>4. \A y \in Nat : y < x => <<y, x>> \in R
  <2>1. ASSUME NEW y \in Nat, y < x PROVE <<y, x>> \in R
    <3>1. <<y, x>> \in Nat \X Nat /\ <<y, x>>[1] = y /\ <<y, x>>[2] = x
      BY <1>1
    <3> QED BY <2>1, <3>1 DEF R, OpToRel
  <2> QED BY <2>1
<1>5. ASSUME NEW y \in T PROVE x <= y
  <2>1. x \in Nat /\ y \in Nat /\ ~(y < x)
    BY <1>1, <1>3, <1>4
  <2> QED BY <2>1, SMTT(60)
<1> QED BY <1>3, <1>5 DEF T, FirstFit

-----------------------------------------------------------------------------
(* What a step of one thread leaves alone.                                 *)
Others(t) ==
  \A u \in Threads \ {t} :
    /\ pc'[u] = pc[u] /\ call'[u] = call[u] /\ name'[u] = name[u] /\ count'[u] = count[u]
    /\ sector'[u] = sector[u] /\ found'[u] = found[u] /\ file'[u] = file[u]

LEMMA OthersRefs ==
  ASSUME NEW t \in Threads, Others(t), NEW s
  PROVE  /\ (\A j \in Kinds : Ref(t, j, s)' <=> Ref(t, j, s)) => Keeps(s)
         /\ \A k \in Kinds : (\A j \in Kinds \ {k} : Ref(t, j, s)' <=> Ref(t, j, s))
                                => KeepsBut(t, k, s)
<1>1. ASSUME NEW u \in Threads \ {t}, NEW k \in Kinds PROVE Ref(u, k, s)' <=> Ref(u, k, s)
  BY DEF Others, Ref
<1>2. (\A j \in Kinds : Ref(t, j, s)' <=> Ref(t, j, s)) => Keeps(s)
  BY <1>1 DEF Keeps
<1>3. ASSUME NEW k \in Kinds, \A j \in Kinds \ {k} : Ref(t, j, s)' <=> Ref(t, j, s),
             NEW u \in Threads, NEW j \in Kinds, <<u, j>> # <<t, k>>
      PROVE  Ref(u, j, s)' <=> Ref(u, j, s)
  <2>1. CASE u = t
    BY <1>3, <2>1
  <2>2. CASE u # t
    BY <1>1, <2>2
  <2> QED BY <2>1, <2>2
<1> QED BY <1>2, <1>3 DEF KeepsBut

LEMMA CreatorsFinite ==
  /\ IsFiniteSet(Creators) /\ Cardinality(Creators) \in Nat
  /\ IsFiniteSet(Creators') /\ Cardinality(Creators') \in Nat
<1>1. Creators \in SUBSET Threads /\ Creators' \in SUBSET Threads
  BY DEF Creators
<1> QED BY <1>1, FS_Subset, FS_CardinalityType, FileSysAssumption

(* A step of one thread that creates no inode.                             *)
LEMMA OneThread ==
  ASSUME IInv, NEW t \in Threads, Others(t), TypeOK', LocalTypes', Placed(t)', CountInv',
         UNCHANGED <<inode_disk, created>>,
         pc'[t] \in {"create", "inode_create"} => pc[t] \in {"create", "inode_create"}
  PROVE  IInv'
<1>1. \A u \in Threads \ {t} : Placed(u)'
  BY SMTT(60) DEF IInv, PlaceInv, Placed, Others
<1>2. PlaceInv'
  BY <1>1 DEF PlaceInv
<1>3. DiskInv'
  BY DEF IInv, DiskInv
<1>4. BudgetInv'
  <2>1. Creators' \in SUBSET Creators
    BY DEF Creators, Others
  <2>2. Cardinality(Creators') <= Cardinality(Creators)
    BY <2>1, CreatorsFinite, FS_Subset
  <2> QED BY <2>2, CreatorsFinite, FileSysAssumption, SMTT(60) DEF IInv, BudgetInv, LocalTypes
<1> QED BY <1>2, <1>3, <1>4 DEF IInv

-----------------------------------------------------------------------------
(* One lemma per action.  First the steps that leave the table alone.      *)

LEMMA Quiet ==
  ASSUME IInv, NEW t \in Threads, Others(t), UNCHANGED open_inodes,
         \A s \in Sectors, k \in Kinds : Ref(t, k, s)' <=> Ref(t, k, s)
  PROVE  CountInv'
<1>1. ASSUME NEW s \in Sectors PROVE Keeps(s) /\ Opens(s)' = Opens(s)
  BY OthersRefs DEF Opens
<1> QED BY <1>1, KeepCount

(* The step goes to the point l and keeps the other locals.                *)
Moves(t, l) == pc' = [pc EXCEPT ![t] = l] /\ UNCHANGED <<call, name, count, sector, found>>

LEMMA MovesTypes ==
  ASSUME IInv, NEW t \in Threads, NEW l \in Points, Moves(t, l), UNCHANGED <<created, file>>
  PROVE  /\ pc' \in [Threads -> Points] /\ pc'[t] = l /\ Others(t)
         /\ sector' \in [Threads -> Sectors \cup {NULL}] /\ LocalTypes'
<1>1. pc \in [Threads -> Points]
  BY DEF IInv, TypeOK, Points
<1>2. pc' \in [Threads -> Points] /\ pc'[t] = l /\ Others(t)
  BY <1>1 DEF Moves, Others
<1>3. sector' \in [Threads -> Sectors \cup {NULL}]
  BY DEF IInv, TypeOK, Moves
<1>4. LocalTypes'
  BY DEF IInv, LocalTypes, Moves
<1> QED BY <1>2, <1>3, <1>4

LEMMA RelockIInv == ASSUME IInv, NEW t \in Threads, Relock(t) PROVE IInv'
<1> USE DEF Relock, disk, locks, locals, history
<1>1. TypeOK' /\ LocalTypes'
  BY DEF IInv, TypeOK, LocalTypes
<1>2. Others(t) /\ Placed(t)'
  BY DEF IInv, PlaceInv, Placed, Others
<1>3. CountInv'
  BY <1>2, Quiet, SMTT(60) DEF Ref
<1> QED BY <1>1, <1>2, <1>3, OneThread

LEMMA CreateAllocateIInv == ASSUME IInv, NEW t \in Threads, CreateAllocate(t) PROVE IInv'
<1> USE DEF locks, locals, history
<1>1. CASE FreeRuns(1) = {}
  <2>1. /\ pc[t] = "create" /\ Moves(t, "dir_close")
        /\ UNCHANGED <<dir, free_map, inode_disk, open_inodes, locks, panic, file, history>>
    BY <1>1 DEF CreateAllocate, Finish, Goto, Moves
  <2>2. pc'[t] = "dir_close" /\ Others(t) /\ LocalTypes' /\ TypeOK'
    BY <2>1, MovesTypes DEF IInv, TypeOK, Points
  <2>3. call[t] = "create"
    BY <2>1 DEF IInv, PlaceInv, Placed, InCreate
  <2>4. Placed(t)'
    BY <2>1, <2>2, <2>3 DEF Moves, Placed, NoSector, InCreate, InOpen, InRemove
  <2>5. CountInv'
    <3>1. \A s \in Sectors, k \in Kinds : Ref(t, k, s)' <=> Ref(t, k, s)
      BY <2>1, <2>2, <2>3 DEF Ref, Moves
    <3> QED BY <2>1, <2>2, <3>1, Quiet
  <2> QED BY <2>1, <2>2, <2>4, <2>5, OneThread
<1>2. CASE FreeRuns(1) # {}
  <2>1. FirstFit(1) \in Sectors
    BY <1>2, FirstFitFound DEF FreeRuns
  <2>2. /\ pc[t] = "create" /\ pc' = [pc EXCEPT ![t] = "inode_create"]
        /\ sector' = [sector EXCEPT ![t] = FirstFit(1)] /\ free_map' = free_map \cup {FirstFit(1)}
        /\ UNCHANGED <<call, name, count, found, dir, inode_disk, open_inodes, locks, panic, file, history>>
    BY <1>2 DEF CreateAllocate, Goto
  <2>3. TypeOK' /\ LocalTypes'
    <3>1. TypeOK'
      BY <2>1, <2>2 DEF IInv, TypeOK
    <3>2. LocalTypes'
      BY <2>2 DEF IInv, LocalTypes
    <3> QED BY <3>1, <3>2
  <2>4. Others(t) /\ Placed(t)'
    BY <2>1, <2>2, Basics, SMTT(60) DEF IInv, TypeOK, PlaceInv, Placed, Others, NoSector,
       InCreate, InOpen, InRemove
  <2>5. CountInv'
    <3>1. pc'[t] = "inode_create"
      BY <2>2 DEF IInv, TypeOK
    <3>2. \A s \in Sectors, k \in Kinds : Ref(t, k, s)' <=> Ref(t, k, s)
      BY <2>2, <3>1 DEF Ref
    <3> QED BY <2>2, <2>4, <3>2, Quiet
  <2> QED BY <2>2, <2>3, <2>4, <2>5, OneThread
<1> QED BY <1>1, <1>2

LEMMA ReleaseTypes ==
  ASSUME TypeOK, NEW S, free_map_release(S)
  PROVE  free_map' \subseteq Sectors /\ panic' \in {NULL, "lock_acquire", "free_map_release"}
BY DEF TypeOK, free_map_release

LEMMA dir_addIInv == ASSUME IInv, NEW t \in Threads, dir_add(t) PROVE IInv'
<1>1. PICK l \in {"dir_close", "create_undo"} : Moves(t, l)
  BY DEF dir_add, Finish, Goto, Moves, locals
<1>2. pc[t] = "dir_add" /\ call[t] = "create" /\ sector[t] \in Sectors /\ inode_disk[sector[t]] # NULL
  BY Basics DEF dir_add, IInv, TypeOK, PlaceInv, Placed, InCreate, NoSector
<1>3. UNCHANGED <<free_map, inode_disk, open_inodes, filesys_lock, panic, file, created, stale>>
  BY DEF dir_add
<1>4. /\ pc' \in [Threads -> Points] /\ pc'[t] = l /\ Others(t)
      /\ sector' \in [Threads -> Sectors \cup {NULL}] /\ LocalTypes'
  <2>1. l \in Points
    BY DEF Points
  <2> QED BY <1>1, <1>3, <2>1, MovesTypes
<1>5. dir' \in [Names -> Sectors \cup {NULL}] /\ dir_lock' \in Threads \cup {NULL}
  BY <1>2 DEF dir_add, IInv, TypeOK
<1>6. leaked' \subseteq Sectors
  <2>1. Extent(inode_disk[sector[t]]) \subseteq Sectors
    BY <1>2 DEF IInv, DiskInv
  <2> QED BY <2>1 DEF dir_add, IInv, TypeOK
<1>7. TypeOK'
  BY <1>3, <1>4, <1>5, <1>6 DEF IInv, TypeOK, Points
<1>8. Placed(t)'
  BY <1>1, <1>2, <1>3, <1>4, Basics
     DEF Placed, Moves, NoSector, InCreate, InOpen, InRemove
<1>9. CountInv'
  <2>1. \A s \in Sectors, k \in Kinds : Ref(t, k, s)' <=> Ref(t, k, s)
    BY <1>1, <1>2, <1>3, <1>4 DEF Ref, Moves
  <2> QED BY <1>3, <1>4, <2>1, Quiet
<1> QED BY <1>2, <1>3, <1>4, <1>7, <1>8, <1>9, OneThread

LEMMA CreateUndoIInv == ASSUME IInv, NEW t \in Threads, CreateUndo(t) PROVE IInv'
<1>1. Moves(t, "dir_close")
  BY DEF CreateUndo, Finish, Goto, Moves, locals
<1>2. pc[t] = "create_undo" /\ call[t] = "create"
  BY DEF CreateUndo, IInv, PlaceInv, Placed, InCreate
<1>3. UNCHANGED <<dir, inode_disk, open_inodes, dir_lock, filesys_lock, file, created, leaked, stale>>
  BY DEF CreateUndo, locks, history
<1>4. /\ pc' \in [Threads -> Points] /\ pc'[t] = "dir_close" /\ Others(t)
      /\ sector' \in [Threads -> Sectors \cup {NULL}] /\ LocalTypes'
  BY <1>1, <1>3, MovesTypes DEF Points
<1>5. TypeOK'
  <2>1. free_map' \subseteq Sectors /\ panic' \in {NULL, "lock_acquire", "free_map_release"}
    BY ReleaseTypes DEF CreateUndo, IInv
  <2>2. TypeOK
    BY DEF IInv
  <2> QED BY <1>3, <1>4, <2>1, <2>2 DEF TypeOK, Points
<1>6. Placed(t)'
  BY <1>1, <1>2, <1>3, <1>4 DEF Placed, Moves, NoSector, InCreate, InOpen, InRemove
<1>7. CountInv'
  <2>1. \A s \in Sectors, k \in Kinds : Ref(t, k, s)' <=> Ref(t, k, s)
    BY <1>1, <1>2, <1>3, <1>4 DEF Ref, Moves
  <2> QED BY <1>3, <1>4, <2>1, Quiet
<1> QED BY <1>3, <1>4, <1>5, <1>6, <1>7, OneThread

(* A lookup in the directory that fails, or finds a sector.                *)
LEMMA LookupTypes ==
  ASSUME IInv, NEW t \in Threads, name[t] \in Names, dir[name[t]] # NULL
  PROVE  dir[name[t]] \in Sectors
BY DEF IInv, TypeOK

LEMMA OpenLookupIInv == ASSUME IInv, NEW t \in Threads, OpenLookup(t) PROVE IInv'
<1>1. pc[t] = "open" /\ call[t] = "open" /\ sector[t] = NULL
  BY DEF OpenLookup, IInv, TypeOK, PlaceInv, Placed, InOpen, NoSector
<1>2. UNCHANGED <<call, count, dir, free_map, inode_disk, open_inodes, dir_lock, filesys_lock,
                  panic, file, created, leaked, stale, name>>
  BY DEF OpenLookup, Finish, disk, locks, locals, history
<1>3. \/ Moves(t, "dir_close")
      \/ /\ pc' = [pc EXCEPT ![t] = "inode_open"] /\ dir[name[t]] \in Sectors
         /\ sector' = [sector EXCEPT ![t] = dir[name[t]]]
  BY LookupTypes DEF OpenLookup, Finish, Goto, Moves, locals
<1>4. TypeOK' /\ LocalTypes'
  <2>1. DOMAIN found' = Threads
    BY DEF OpenLookup, Finish, locals, IInv, LocalTypes
  <2> QED BY <1>2, <1>3, <2>1 DEF IInv, TypeOK, LocalTypes, Moves
<1>5. Others(t)
  <2>1. \A u \in Threads \ {t} : found'[u] = found[u]
    BY DEF OpenLookup, Finish, locals, IInv, LocalTypes
  <2> QED BY <1>2, <1>3, <2>1 DEF IInv, TypeOK, Others, Moves
<1>6. Placed(t)' /\ pc'[t] \in {"dir_close", "inode_open"}
  BY <1>1, <1>2, <1>3, Basics, SMTT(60)
     DEF IInv, TypeOK, PlaceInv, Placed, Moves, NoSector, InCreate, InOpen, InRemove
<1>7. CountInv'
  <2>1. \A s \in Sectors, k \in Kinds : Ref(t, k, s)' <=> Ref(t, k, s)
    BY <1>1, <1>2, <1>3, <1>6, Basics, SMTT(60) DEF Ref, Moves, IInv, TypeOK
  <2> QED BY <1>2, <1>5, <2>1, Quiet
<1> QED BY <1>2, <1>4, <1>5, <1>6, <1>7, OneThread

LEMMA RemoveLookupIInv == ASSUME IInv, NEW t \in Threads, RemoveLookup(t) PROVE IInv'
<1>1. pc[t] = "remove" /\ call[t] = "remove" /\ sector[t] = NULL
  BY DEF RemoveLookup, IInv, TypeOK, PlaceInv, Placed, InRemove, NoSector
<1>2. UNCHANGED <<call, name, count, found, dir, free_map, inode_disk, open_inodes, filesys_lock,
                  panic, file, created, leaked, stale>>
  BY DEF RemoveLookup, Finish, disk, locals, history
<1>3. /\ dir_lock' \in Threads \cup {NULL}
      /\ \/ Moves(t, "dir_close")
         \/ /\ pc' = [pc EXCEPT ![t] = "remove_open"] /\ dir[name[t]] \in Sectors
            /\ sector' = [sector EXCEPT ![t] = dir[name[t]]]
  BY LookupTypes DEF RemoveLookup, Finish, Goto, Moves, locals
<1>4. TypeOK' /\ LocalTypes'
  <2>1. TypeOK
    BY DEF IInv
  <2>2. TypeOK'
    BY <1>2, <1>3, <2>1 DEF TypeOK, Moves
  <2>3. LocalTypes'
    BY <1>2 DEF IInv, LocalTypes
  <2> QED BY <2>2, <2>3
<1>5. Others(t)
  BY <1>2, <1>3 DEF IInv, TypeOK, Others, Moves
<1>6. Placed(t)' /\ pc'[t] \in {"dir_close", "remove_open"}
  BY <1>1, <1>2, <1>3, Basics, SMTT(60)
     DEF IInv, TypeOK, PlaceInv, Placed, Moves, NoSector, InCreate, InOpen, InRemove
<1>7. CountInv'
  <2>1. \A s \in Sectors, k \in Kinds : Ref(t, k, s)' <=> Ref(t, k, s)
    BY <1>1, <1>2, <1>3, <1>6, Basics DEF Ref, Moves, IInv, TypeOK
  <2> QED BY <1>2, <1>5, <2>1, Quiet
<1> QED BY <1>2, <1>4, <1>5, <1>6, <1>7, OneThread

LEMMA RemoveEraseIInv == ASSUME IInv, NEW t \in Threads, RemoveErase(t) PROVE IInv'
<1>1. Moves(t, "inode_remove")
  BY DEF RemoveErase, Goto, Moves, locals
<1>2. pc[t] = "remove_erase" /\ call[t] = "remove" /\ sector[t] # NULL
  BY DEF RemoveErase, IInv, PlaceInv, Placed, InRemove, NoSector
<1>3. UNCHANGED <<free_map, inode_disk, open_inodes, dir_lock, filesys_lock, panic, file, created,
                  leaked, stale>>
  BY DEF RemoveErase, locks, history
<1>4. /\ pc' \in [Threads -> Points] /\ pc'[t] = "inode_remove" /\ Others(t)
      /\ sector' \in [Threads -> Sectors \cup {NULL}] /\ LocalTypes'
  BY <1>1, <1>3, MovesTypes DEF Points
<1>5. TypeOK'
  <2>1. dir' \in [Names -> Sectors \cup {NULL}]
    BY DEF IInv, TypeOK, RemoveErase
  <2>2. TypeOK
    BY DEF IInv
  <2> QED BY <1>3, <1>4, <2>1, <2>2 DEF TypeOK, Points
<1>6. Placed(t)'
  BY <1>1, <1>2, <1>3, <1>4 DEF Placed, Moves, NoSector, InCreate, InOpen, InRemove
<1>7. CountInv'
  <2>1. \A s \in Sectors, k \in Kinds : Ref(t, k, s)' <=> Ref(t, k, s)
    BY <1>1, <1>2, <1>3, <1>4 DEF Ref, Moves
  <2> QED BY <1>3, <1>4, <2>1, Quiet
<1> QED BY <1>3, <1>4, <1>5, <1>6, <1>7, OneThread

(* inode_remove marks the inode.                                           *)
LEMMA inode_removeIInv ==
  ASSUME IInv, NEW t \in Threads, inode_remove(t)
  PROVE  /\ IInv'
         /\ open_inodes[sector[t]] # NULL /\ open_inodes'[sector[t]].removed
         /\ \A s \in Sectors : /\ open_inodes'[s] = NULL <=> open_inodes[s] = NULL
                               /\ open_inodes'[s].inode = open_inodes[s].inode
                               /\ s # sector[t] => open_inodes'[s] = open_inodes[s]
<1>1. Moves(t, "remove_close")
  BY DEF inode_remove, Goto, Moves, locals
<1>2. pc[t] = "inode_remove" /\ call[t] = "remove" /\ sector[t] # NULL /\ sector[t] \in Sectors
  BY DEF inode_remove, FilesysLocked, IInv, TypeOK, PlaceInv, Placed, InRemove, NoSector
<1>3. UNCHANGED <<dir, free_map, inode_disk, dir_lock, filesys_lock, panic, file, created, leaked, stale>>
  BY DEF inode_remove, disk, locks, history
<1>4. /\ pc' \in [Threads -> Points] /\ pc'[t] = "remove_close" /\ Others(t)
      /\ sector' \in [Threads -> Sectors \cup {NULL}] /\ LocalTypes'
  BY <1>1, <1>3, MovesTypes DEF Points
<1>5. Placed(t)'
  BY <1>1, <1>2, <1>3, <1>4 DEF Placed, Moves, NoSector, InCreate, InOpen, InRemove
<1>6. \A s \in Sectors, k \in Kinds : Ref(t, k, s)' <=> Ref(t, k, s)
  BY <1>1, <1>2, <1>3, <1>4 DEF Ref, Moves
<1>7. open_inodes[sector[t]] \in OpenInodes
  <2>1. Ref(t, "call", sector[t])
    BY <1>2 DEF Ref
  <2>3. Cardinality(References(sector[t])) # 0
    BY <2>1, RefsSome DEF Kinds
  <2>4. Cardinality(References(sector[t])) = Opens(sector[t])
    BY <1>2 DEF IInv, CountInv
  <2> QED BY <1>2, <2>3, <2>4 DEF Opens, IInv, TypeOK
<1> DEFINE old == open_inodes[sector[t]]
           new == [old EXCEPT !.removed = TRUE]
<1>8. open_inodes' = [open_inodes EXCEPT ![sector[t]] = new]
  BY DEF inode_remove
<1>9. new \in OpenInodes /\ new.open_cnt = old.open_cnt /\ new.inode = old.inode /\ new.removed
  BY <1>7 DEF OpenInodes
<1>10. new # NULL /\ old # NULL
  BY <1>7, <1>9, NullAssumption
<1> HIDE DEF new
<1>11. /\ open_inodes' \in [Sectors -> OpenInodes \cup {NULL}] /\ open_inodes'[sector[t]] = new
       /\ \A s \in Sectors \ {sector[t]} : open_inodes'[s] = open_inodes[s]
  BY <1>2, <1>8, <1>9 DEF IInv, TypeOK
<1>12. TypeOK'
  <2>1. TypeOK
    BY DEF IInv
  <2> QED BY <1>3, <1>4, <1>11, <2>1 DEF TypeOK, Points
<1>13. ASSUME NEW s \in Sectors PROVE Opens(s)' = Opens(s)
  BY <1>9, <1>10, <1>11 DEF Opens
<1>14. CountInv'
  BY <1>4, <1>6, <1>13, OthersRefs, KeepCount
<1> QED BY <1>2, <1>3, <1>4, <1>5, <1>9, <1>10, <1>11, <1>12, <1>14, OneThread

-----------------------------------------------------------------------------
(* Then the steps that open and close inodes.                              *)

LEMMA Opening ==
  ASSUME IInv, NEW t \in Threads, Others(t), NEW s \in Sectors, NEW k \in Kinds,
         open_inodes' = inode_open(s), ~Ref(t, k, s), Ref(t, k, s)',
         \A j \in Kinds \ {k} : Ref(t, j, s)' <=> Ref(t, j, s),
         \A r \in Sectors \ {s}, j \in Kinds : Ref(t, j, r)' <=> Ref(t, j, r)
  PROVE  /\ open_inodes' \in [Sectors -> OpenInodes \cup {NULL}] /\ CountInv' /\ Opened(s)
<1>1. KeepsBut(t, k, s)
  BY OthersRefs
<1>2. \A r \in Sectors \ {s} : Keeps(r)
  BY OthersRefs
<1> QED BY <1>1, <1>2, OpenCount

LEMMA Closing ==
  ASSUME IInv, NEW t \in Threads, Others(t), NEW s \in Sectors, NEW k \in Kinds,
         inode_close(s), Ref(t, k, s), ~Ref(t, k, s)',
         \A j \in Kinds \ {k} : Ref(t, j, s)' <=> Ref(t, j, s),
         \A r \in Sectors \ {s}, j \in Kinds : Ref(t, j, r)' <=> Ref(t, j, r)
  PROVE  /\ open_inodes' \in [Sectors -> OpenInodes \cup {NULL}] /\ CountInv' /\ Closed(s)
         /\ free_map' \subseteq Sectors /\ panic' \in {NULL, "lock_acquire", "free_map_release"}
<1>1. KeepsBut(t, k, s)
  BY OthersRefs
<1>2. \A r \in Sectors \ {s} : Keeps(r)
  BY OthersRefs
<1>3. \/ free_map_release({s} \cup Extent(open_inodes[s].inode))
      \/ UNCHANGED <<free_map, panic>>
  BY DEF inode_close
<1>4. free_map' \subseteq Sectors /\ panic' \in {NULL, "lock_acquire", "free_map_release"}
  BY <1>3, ReleaseTypes DEF IInv, TypeOK
<1> QED BY <1>1, <1>2, <1>4, CloseCount

LEMMA OpenInodeIInv ==
  ASSUME IInv, NEW t \in Threads, OpenInode(t)
  PROVE  /\ IInv'
         /\ \/ Opened(sector[t]) /\ stale' = (stale \/ Mistaken(t)) /\ UNCHANGED sector
            \/ UNCHANGED <<open_inodes, stale>>
<1>1. pc[t] = "inode_open" /\ call[t] = "open" /\ sector[t] \in Sectors /\ sector[t] # NULL
  BY DEF OpenInode, FilesysLocked, IInv, TypeOK, PlaceInv, Placed, InOpen, NoSector
<1>s. PICK s \in Sectors : s = sector[t]
  BY <1>1
<1>2. /\ pc' = [pc EXCEPT ![t] = "dir_close"]
      /\ UNCHANGED <<call, name, count, found, dir, free_map, inode_disk, dir_lock, panic, file, created, leaked>>
  BY DEF OpenInode, Finish, Goto, disk, locals
<1>3. pc' \in [Threads -> Points] /\ pc'[t] = "dir_close" /\ LocalTypes'
  <2>1. pc \in [Threads -> Points]
    BY DEF IInv, TypeOK, Points
  <2>2. LocalTypes'
    BY <1>2 DEF IInv, LocalTypes
  <2> QED BY <1>2, <2>1, <2>2 DEF Points
<1>4. CASE open_inodes' = inode_open(sector[t]) /\ stale' = (stale \/ Mistaken(t)) /\ Finish(t)
           /\ UNCHANGED filesys_lock
  <2>1. UNCHANGED sector
    BY <1>4 DEF Finish, locals
  <2>2. Others(t)
    BY <1>2, <2>1 DEF Others, IInv, TypeOK
  <2>3. Placed(t)'
    BY <1>1, <1>2, <1>3, <2>1 DEF IInv, PlaceInv, Placed, NoSector, InCreate, InOpen, InRemove
  <2>4. /\ ~Ref(t, "call", s) /\ Ref(t, "call", s)'
        /\ \A j \in Kinds \ {"call"} : Ref(t, j, s)' <=> Ref(t, j, s)
        /\ \A r \in Sectors \ {s}, j \in Kinds : Ref(t, j, r)' <=> Ref(t, j, r)
    BY <1>1, <1>2, <1>3, <1>s, <2>1, SMTT(60) DEF Ref, Kinds
  <2>5. open_inodes' \in [Sectors -> OpenInodes \cup {NULL}] /\ CountInv' /\ Opened(s)
    <3>1. "call" \in Kinds
      BY DEF Kinds
    <3> QED BY <1>s, <1>4, <2>2, <2>4, <3>1, Opening
  <2>6. TypeOK'
    <3>1. TypeOK
      BY DEF IInv
    <3> QED BY <1>2, <1>3, <1>4, <2>1, <2>5, <3>1 DEF TypeOK, Points
  <2>7. IInv'
    BY <1>2, <1>3, <2>2, <2>3, <2>5, <2>6, OneThread
  <2> QED BY <1>s, <1>4, <2>1, <2>5, <2>7
<1>5. CASE OpenFails(t, sector[t]) /\ sector' = [sector EXCEPT ![t] = NULL] /\ UNCHANGED stale
  <2>1. Others(t)
    BY <1>2, <1>5 DEF Others, IInv, TypeOK
  <2>2. sector'[t] = NULL /\ UNCHANGED open_inodes /\ filesys_lock' = t
    BY <1>5 DEF IInv, TypeOK, OpenFails
  <2>3. Placed(t)'
    BY <1>1, <1>2, <1>3, <2>2 DEF IInv, PlaceInv, Placed, NoSector, InCreate, InOpen, InRemove
  <2>4. CountInv'
    <3>1. \A r \in Sectors, k \in Kinds : Ref(t, k, r)' <=> Ref(t, k, r)
      BY <1>1, <1>2, <1>3, <2>2, Basics DEF Ref
    <3> QED BY <2>1, <2>2, <3>1, Quiet
  <2>5. TypeOK'
    <3>1. TypeOK
      BY DEF IInv
    <3> QED BY <1>2, <1>3, <1>5, <2>2, <3>1 DEF TypeOK, Points
  <2> QED BY <1>2, <1>3, <1>5, <2>1, <2>2, <2>3, <2>4, <2>5, OneThread
<1> QED BY <1>4, <1>5 DEF OpenInode

LEMMA RemoveOpenIInv ==
  ASSUME IInv, NEW t \in Threads, RemoveOpen(t)
  PROVE  /\ IInv'
         /\ \/ Opened(sector[t]) /\ Moves(t, "remove_erase") /\ UNCHANGED dir_lock
            \/ UNCHANGED open_inodes /\ Moves(t, "dir_close")
<1>1. pc[t] = "remove_open" /\ call[t] = "remove" /\ sector[t] \in Sectors /\ sector[t] # NULL
  BY DEF RemoveOpen, FilesysLocked, IInv, TypeOK, PlaceInv, Placed, InRemove, NoSector
<1>s. PICK s \in Sectors : s = sector[t]
  BY <1>1
<1>2. UNCHANGED <<dir, free_map, inode_disk, panic, file, created, leaked, stale>>
  BY DEF RemoveOpen, disk, history
<1>3. CASE open_inodes' = inode_open(sector[t]) /\ Goto(t, "remove_erase") /\ UNCHANGED <<locks, locals>>
  <2>1. Moves(t, "remove_erase") /\ UNCHANGED <<dir_lock, filesys_lock>>
    BY <1>3 DEF Moves, Goto, locals, locks
  <2>2. /\ pc' \in [Threads -> Points] /\ pc'[t] = "remove_erase" /\ Others(t)
        /\ sector' \in [Threads -> Sectors \cup {NULL}] /\ LocalTypes'
    BY <1>2, <2>1, MovesTypes DEF Points
  <2>3. Placed(t)'
    BY <1>1, <1>2, <2>1, <2>2 DEF Placed, Moves, NoSector, InCreate, InOpen, InRemove
  <2>4. /\ ~Ref(t, "call", s) /\ Ref(t, "call", s)'
        /\ \A j \in Kinds \ {"call"} : Ref(t, j, s)' <=> Ref(t, j, s)
        /\ \A r \in Sectors \ {s}, j \in Kinds : Ref(t, j, r)' <=> Ref(t, j, r)
    BY <1>1, <1>2, <1>s, <2>1, <2>2 DEF Ref, Kinds, Moves
  <2>5. open_inodes' \in [Sectors -> OpenInodes \cup {NULL}] /\ CountInv' /\ Opened(s)
    <3>1. "call" \in Kinds
      BY DEF Kinds
    <3> QED BY <1>s, <1>3, <2>2, <2>4, <3>1, Opening
  <2>6. TypeOK'
    <3>1. TypeOK
      BY DEF IInv
    <3> QED BY <1>2, <2>1, <2>2, <2>5, <3>1 DEF TypeOK, Points
  <2>7. IInv'
    BY <1>2, <2>2, <2>3, <2>5, <2>6, OneThread
  <2> QED BY <1>s, <2>1, <2>5, <2>7
<1>4. CASE OpenFails(t, sector[t]) /\ dir_lock' = NULL /\ Finish(t)
  <2>1. Moves(t, "dir_close") /\ filesys_lock' = t /\ UNCHANGED open_inodes
    BY <1>4 DEF Moves, Goto, Finish, locals, OpenFails
  <2>2. /\ pc' \in [Threads -> Points] /\ pc'[t] = "dir_close" /\ Others(t)
        /\ sector' \in [Threads -> Sectors \cup {NULL}] /\ LocalTypes'
    BY <1>2, <2>1, MovesTypes DEF Points
  <2>3. Placed(t)'
    BY <1>1, <1>2, <2>1, <2>2 DEF Placed, Moves, NoSector, InCreate, InOpen, InRemove
  <2>4. CountInv'
    <3>1. \A r \in Sectors, k \in Kinds : Ref(t, k, r)' <=> Ref(t, k, r)
      BY <1>1, <1>2, <2>1, <2>2 DEF Ref, Moves
    <3> QED BY <2>1, <2>2, <3>1, Quiet
  <2>5. TypeOK'
    <3>1. TypeOK
      BY DEF IInv
    <3> QED BY <1>2, <1>4, <2>1, <2>2, <3>1 DEF TypeOK, Points
  <2>6. IInv'
    BY <1>2, <2>1, <2>2, <2>3, <2>4, <2>5, OneThread
  <2> QED BY <2>1, <2>6
<1> QED BY <1>3, <1>4 DEF RemoveOpen

LEMMA RemoveCloseIInv ==
  ASSUME IInv, NEW t \in Threads, RemoveClose(t)
  PROVE  IInv' /\ Closed(sector[t])
<1>1. pc[t] = "remove_close" /\ call[t] = "remove" /\ sector[t] \in Sectors /\ sector[t] # NULL
  BY DEF RemoveClose, FilesysLocked, IInv, TypeOK, PlaceInv, Placed, InRemove, NoSector
<1>s. PICK s \in Sectors : s = sector[t]
  BY <1>1
<1>2. UNCHANGED <<dir, inode_disk, filesys_lock, file, created, leaked, stale>> /\ dir_lock' = NULL
  BY DEF RemoveClose, history
<1>3. Moves(t, "dir_close")
  BY DEF RemoveClose, Moves, Goto, Finish, locals
<1>4. /\ pc' \in [Threads -> Points] /\ pc'[t] = "dir_close" /\ Others(t)
      /\ sector' \in [Threads -> Sectors \cup {NULL}] /\ LocalTypes'
  BY <1>2, <1>3, MovesTypes DEF Points
<1>5. Placed(t)'
  BY <1>1, <1>2, <1>3, <1>4 DEF Placed, Moves, NoSector, InCreate, InOpen, InRemove
<1>6. /\ Ref(t, "call", s) /\ ~Ref(t, "call", s)'
      /\ \A j \in Kinds \ {"call"} : Ref(t, j, s)' <=> Ref(t, j, s)
      /\ \A r \in Sectors \ {s}, j \in Kinds : Ref(t, j, r)' <=> Ref(t, j, r)
  BY <1>1, <1>2, <1>3, <1>4, <1>s, SMTT(60) DEF Ref, Kinds, Moves
<1>7. /\ open_inodes' \in [Sectors -> OpenInodes \cup {NULL}] /\ CountInv' /\ Closed(s)
      /\ free_map' \subseteq Sectors /\ panic' \in {NULL, "lock_acquire", "free_map_release"}
  <2>1. "call" \in Kinds /\ inode_close(s)
    BY <1>s DEF Kinds, RemoveClose
  <2> QED BY <1>4, <1>6, <2>1, Closing
<1>8. TypeOK'
  <2>1. TypeOK
    BY DEF IInv
  <2> QED BY <1>2, <1>4, <1>7, <2>1 DEF TypeOK, Points
<1> QED BY <1>s, <1>2, <1>4, <1>5, <1>7, <1>8, OneThread

LEMMA ReturnTypes ==
  ASSUME IInv, NEW t \in Threads, Return(t), created' = created,
         \A u \in Threads \ {t} : file'[u] = file[u]
  PROVE  /\ pc' \in [Threads -> Points] /\ sector' \in [Threads -> Sectors \cup {NULL}]
         /\ LocalTypes' /\ Others(t)
         /\ pc'[t] = "idle" /\ call'[t] = "none" /\ sector'[t] = NULL
<1>1. pc \in [Threads -> Points] /\ sector \in [Threads -> Sectors \cup {NULL}] /\ LocalTypes
  BY DEF IInv, TypeOK, Points
<1>2. pc' \in [Threads -> Points] /\ sector' \in [Threads -> Sectors \cup {NULL}]
  BY <1>1 DEF Return, Goto, Points
<1>3. LocalTypes'
  BY <1>1 DEF Return, LocalTypes
<1>4. Others(t) /\ pc'[t] = "idle" /\ call'[t] = "none" /\ sector'[t] = NULL
  BY <1>1 DEF Return, Goto, LocalTypes, Others
<1> QED BY <1>2, <1>3, <1>4

LEMMA file_openIInv ==
  ASSUME IInv, NEW t \in Threads, file_open(t)
  PROVE  IInv' /\ ((Closed(sector[t]) /\ inode_close(sector[t]))
                     \/ UNCHANGED <<open_inodes, free_map, panic>>)
<1>1. /\ pc[t] = "file_open" /\ call[t] = "open" /\ file[t] = NULL
      /\ sector[t] \in Sectors /\ sector[t] # NULL
  BY DEF file_open, IInv, TypeOK, PlaceInv, Placed, InOpen, NoSector
<1>s. PICK s \in Sectors : s = sector[t]
  BY <1>1
<1>2. UNCHANGED <<dir, inode_disk, dir_lock, filesys_lock, created, leaked, stale>>
  BY DEF file_open, locks, history
<1>3. file' \in [Threads -> Sectors \cup {NULL}] /\ \A u \in Threads \ {t} : file'[u] = file[u]
  BY <1>1 DEF file_open, IInv, TypeOK
<1>4. /\ pc' \in [Threads -> Points] /\ sector' \in [Threads -> Sectors \cup {NULL}]
      /\ LocalTypes' /\ Others(t)
      /\ pc'[t] = "idle" /\ call'[t] = "none" /\ sector'[t] = NULL
  <2>1. Return(t)
    BY DEF file_open
  <2> QED BY <1>2, <1>3, <2>1, ReturnTypes
<1>5. Placed(t)'
  BY <1>4 DEF Placed, NoSector, InCreate, InOpen, InRemove
<1>6. TypeOK
  BY DEF IInv
<1>7. CASE file' = [file EXCEPT ![t] = sector[t]] /\ UNCHANGED <<free_map, open_inodes, panic>>
  <2>1. file'[t] = s
    BY <1>7, <1>s DEF IInv, TypeOK
  <2>2. TypeOK'
    BY <1>2, <1>3, <1>4, <1>6, <1>7 DEF TypeOK, Points
  <2>3. \A r \in Sectors : Cardinality(References(r)) = Opens(r)
    BY DEF IInv, CountInv
  <2>4. Cardinality(References(s)') = Cardinality(References(s))
    <3>1. /\ Ref(t, "call", s) /\ ~Ref(t, "file", s) /\ ~Ref(t, "call", s)' /\ Ref(t, "file", s)'
          /\ \A i \in Kinds : i \notin {"call", "file"} => (Ref(t, i, s)' <=> Ref(t, i, s))
      BY <1>1, <1>4, <1>s, <2>1 DEF Ref, Kinds
    <3>2. \A u \in Threads \ {t}, i \in Kinds : Ref(u, i, s)' <=> Ref(u, i, s)
      BY <1>4 DEF Others, Ref
    <3>3. "call" \in Kinds /\ "file" \in Kinds /\ "call" # "file"
      BY DEF Kinds
    <3>4. \A u \in Threads, i \in Kinds :
            u # t \/ i \notin {"call", "file"} => (Ref(u, i, s)' <=> Ref(u, i, s))
      BY <3>1, <3>2
    <3> QED BY <3>1, <3>3, <3>4, RefsMove
  <2>5. ASSUME NEW r \in Sectors, r # s PROVE References(r)' = References(r)
    <3>1. \A j \in Kinds : Ref(t, j, r)' <=> Ref(t, j, r)
      BY <1>1, <1>4, <1>s, <2>1, <2>5, Basics DEF Ref
    <3> QED BY <1>4, <3>1, OthersRefs, RefsSame
  <2>6. ASSUME NEW r \in Sectors PROVE Cardinality(References(r)') = Opens(r)'
    <3>1. Opens(r)' = Opens(r)
      BY <1>7 DEF Opens
    <3> QED BY <2>3, <2>4, <2>5, <3>1
  <2>7. CountInv'
    BY <2>6 DEF CountInv
  <2>8. IInv'
    BY <1>2, <1>4, <1>5, <2>2, <2>7, OneThread
  <2> QED BY <1>7, <2>8
<1>8. CASE inode_close(sector[t]) /\ UNCHANGED file
  <2>1. /\ Ref(t, "call", s) /\ ~Ref(t, "call", s)'
        /\ \A j \in Kinds \ {"call"} : Ref(t, j, s)' <=> Ref(t, j, s)
        /\ \A r \in Sectors \ {s}, j \in Kinds : Ref(t, j, r)' <=> Ref(t, j, r)
    BY <1>1, <1>4, <1>8, <1>s, Basics DEF Ref, Kinds
  <2>2. /\ open_inodes' \in [Sectors -> OpenInodes \cup {NULL}] /\ CountInv' /\ Closed(s)
        /\ free_map' \subseteq Sectors /\ panic' \in {NULL, "lock_acquire", "free_map_release"}
    <3>1. "call" \in Kinds /\ inode_close(s)
      BY <1>8, <1>s DEF Kinds
    <3> QED BY <1>4, <2>1, <3>1, Closing
  <2>3. TypeOK'
    BY <1>2, <1>3, <1>4, <1>6, <2>2 DEF TypeOK, Points
  <2>4. IInv'
    BY <1>2, <1>4, <1>5, <2>2, <2>3, OneThread
  <2> QED BY <1>8, <1>s, <2>2, <2>4
<1> QED BY <1>7, <1>8 DEF file_open

LEMMA CloseIInv ==
  ASSUME IInv, NEW t \in Threads, Close(t)
  PROVE  IInv' /\ file[t] \in Sectors /\ Closed(file[t])
<1>1. pc[t] = "idle" /\ file[t] \in Sectors /\ file[t] # NULL
  BY DEF Close, FilesysLocked, IInv, TypeOK
<1>s. PICK s \in Sectors : s = file[t]
  BY <1>1
<1>2. UNCHANGED <<dir, inode_disk, dir_lock, filesys_lock, pc, call, name, count, sector, found,
                  created, leaked, stale>>
  BY DEF Close, locks, locals, history
<1>3. /\ file' \in [Threads -> Sectors \cup {NULL}] /\ file'[t] = NULL
      /\ \A u \in Threads \ {t} : file'[u] = file[u]
  BY <1>1 DEF Close, IInv, TypeOK
<1>4. Others(t) /\ LocalTypes'
  BY <1>2, <1>3 DEF Others, IInv, LocalTypes
<1>5. Placed(t)'
  BY <1>2, <1>3 DEF IInv, PlaceInv, Placed
<1>6. /\ Ref(t, "file", s) /\ ~Ref(t, "file", s)'
      /\ \A j \in Kinds \ {"file"} : Ref(t, j, s)' <=> Ref(t, j, s)
      /\ \A r \in Sectors \ {s}, j \in Kinds : Ref(t, j, r)' <=> Ref(t, j, r)
  BY <1>1, <1>2, <1>3, <1>s, Basics DEF Ref, Kinds
<1>7. /\ open_inodes' \in [Sectors -> OpenInodes \cup {NULL}] /\ CountInv' /\ Closed(s)
      /\ free_map' \subseteq Sectors /\ panic' \in {NULL, "lock_acquire", "free_map_release"}
  <2>1. "file" \in Kinds /\ inode_close(s)
    BY <1>s DEF Kinds, Close
  <2> QED BY <1>4, <1>6, <2>1, Closing
<1>8. TypeOK'
  <2>1. TypeOK
    BY DEF IInv
  <2> QED BY <1>2, <1>3, <1>7, <2>1 DEF TypeOK
<1>9. IInv'
  BY <1>2, <1>4, <1>5, <1>7, <1>8, OneThread
<1> QED BY <1>s, <1>7, <1>9

LEMMA DirCloseIInv ==
  ASSUME IInv, NEW t \in Threads, DirClose(t)
  PROVE  IInv' /\ Closed(ROOT_DIR_SECTOR)
<1>1. pc[t] = "dir_close" /\ inode_close(ROOT_DIR_SECTOR)
  BY DEF DirClose, FilesysLocked
<1>2. UNCHANGED <<dir, inode_disk, dir_lock, filesys_lock, file, created, leaked, stale>>
  BY DEF DirClose, locks, history
<1>3. \/ /\ call[t] = "open" /\ sector[t] # NULL /\ Moves(t, "file_open")
      \/ ~(call[t] = "open" /\ sector[t] # NULL) /\ Return(t)
  BY DEF DirClose, Goto, Moves, locals
<1>4. /\ pc' \in [Threads -> Points] /\ sector' \in [Threads -> Sectors \cup {NULL}]
      /\ LocalTypes' /\ Others(t)
      /\ \/ call[t] = "open" /\ sector[t] # NULL /\ pc'[t] = "file_open" /\ UNCHANGED <<call, sector>>
         \/ /\ ~(call[t] = "open" /\ sector[t] # NULL)
            /\ pc'[t] = "idle" /\ call'[t] = "none" /\ sector'[t] = NULL
  <2>1. CASE call[t] = "open" /\ sector[t] # NULL /\ Moves(t, "file_open")
    <3>1. "file_open" \in Points /\ UNCHANGED <<call, sector>>
      BY <2>1 DEF Points, Moves
    <3> QED BY <1>2, <2>1, <3>1, MovesTypes
  <2>2. CASE ~(call[t] = "open" /\ sector[t] # NULL) /\ Return(t)
    BY <1>2, <2>2, ReturnTypes
  <2> QED BY <1>3, <2>1, <2>2
<1>5. Placed(t)'
  <2>1. call[t] = "open" => file[t] = NULL
    BY DEF IInv, PlaceInv, Placed
  <2> QED BY <1>2, <1>4, <2>1 DEF Placed, NoSector, InCreate, InOpen, InRemove
<1>s. PICK s \in Sectors : s = ROOT_DIR_SECTOR
  BY Basics
<1>6. /\ Ref(t, "dir", s) /\ ~Ref(t, "dir", s)'
      /\ \A j \in Kinds \ {"dir"} : Ref(t, j, s)' <=> Ref(t, j, s)
      /\ \A r \in Sectors \ {s}, j \in Kinds : Ref(t, j, r)' <=> Ref(t, j, r)
  BY <1>1, <1>2, <1>4, <1>s, Basics, SMTT(60) DEF Ref, Kinds
<1>7. /\ open_inodes' \in [Sectors -> OpenInodes \cup {NULL}] /\ CountInv' /\ Closed(s)
      /\ free_map' \subseteq Sectors /\ panic' \in {NULL, "lock_acquire", "free_map_release"}
  <2>1. "dir" \in Kinds /\ inode_close(s)
    BY <1>1, <1>s DEF Kinds
  <2> QED BY <1>4, <1>6, <2>1, Closing
<1>8. TypeOK'
  <2>1. TypeOK
    BY DEF IInv
  <2> QED BY <1>2, <1>4, <1>7, <2>1 DEF TypeOK, Points
<1>9. IInv'
  BY <1>2, <1>4, <1>5, <1>7, <1>8, OneThread
<1> QED BY <1>s, <1>7, <1>9

LEMMA CallIInv ==
  ASSUME IInv, NEW t \in Threads, NEW c \in {"create", "open", "remove"}, NEW n \in AllNames,
         NEW k \in Nat, c = "create" => k \in DataSectors, Call(t, c, n, k)
  PROVE  IInv' /\ (Opened(ROOT_DIR_SECTOR) \/ UNCHANGED open_inodes)
<1>1. /\ pc[t] = "idle" /\ sector[t] = NULL
      /\ c = "open" => file[t] = NULL
      /\ c = "create" => created + Cardinality({u \in Threads : call[u] = "create"}) < MaxCreates
  BY DEF Call, FilesysLocked, IInv, PlaceInv, Placed, NoSector
<1>2. UNCHANGED <<dir, free_map, inode_disk, dir_lock, panic, file, created, leaked, stale>>
  BY DEF Call, disk, history
<1>3. CASE /\ open_inodes' = inode_open(ROOT_DIR_SECTOR)
           /\ Goto(t, c) \/ Goto(t, "dir_close")
           /\ call' = [call EXCEPT ![t] = c]
           /\ name' = [name EXCEPT ![t] = n]
           /\ count' = [count EXCEPT ![t] = k]
           /\ UNCHANGED <<sector, found, filesys_lock>>
  <2>1. PICK l \in {c, "dir_close"} : pc' = [pc EXCEPT ![t] = l]
    BY <1>3 DEF Goto
  <2>2. pc' \in [Threads -> Points] /\ pc'[t] = l
    <3>1. pc \in [Threads -> Points] /\ l \in Points
      BY DEF IInv, TypeOK, Points
    <3> QED BY <2>1, <3>1
  <2>3. LocalTypes' /\ call'[t] = c /\ count'[t] = k
    <3>1. n \in Names \cup {BadName, NULL}
      BY DEF AllNames
    <3>2. LocalTypes
      BY DEF IInv
    <3> QED BY <1>2, <1>3, <3>1, <3>2 DEF LocalTypes
  <2>4. Others(t)
    <3>1. pc \in [Threads -> Points] /\ LocalTypes
      BY DEF IInv, TypeOK, Points
    <3> QED BY <1>2, <1>3, <2>1, <3>1 DEF Others, LocalTypes
  <2>5. Placed(t)'
    BY <1>1, <1>2, <1>3, <2>2, <2>3 DEF Placed, NoSector, InCreate, InOpen, InRemove
  <2>s. PICK s \in Sectors : s = ROOT_DIR_SECTOR
    BY Basics
  <2>6. /\ ~Ref(t, "dir", s) /\ Ref(t, "dir", s)'
        /\ \A j \in Kinds \ {"dir"} : Ref(t, j, s)' <=> Ref(t, j, s)
        /\ \A r \in Sectors \ {s}, j \in Kinds : Ref(t, j, r)' <=> Ref(t, j, r)
    BY <1>1, <1>2, <1>3, <2>2, <2>s, Basics DEF Ref, Kinds
  <2>7. open_inodes' \in [Sectors -> OpenInodes \cup {NULL}] /\ CountInv' /\ Opened(s)
    <3>1. "dir" \in Kinds
      BY DEF Kinds
    <3> QED BY <1>3, <2>4, <2>6, <2>s, <3>1, Opening
  <2>8. TypeOK'
    <3>1. TypeOK
      BY DEF IInv
    <3> QED BY <1>2, <1>3, <2>2, <2>7, <3>1 DEF TypeOK, Points
  <2>9. CASE l = "create"
    <3> DEFINE callers == {u \in Threads : call[u] = "create"}
    <3>1. callers \in SUBSET Threads /\ Creators \in SUBSET callers
      BY DEF IInv, PlaceInv, Placed, InCreate, Creators
    <3>2. Cardinality(Creators) <= Cardinality(callers) /\ Cardinality(callers) \in Nat
      BY <3>1, FS_Subset, FS_CardinalityType, FileSysAssumption
    <3>3. Creators' = Creators \cup {t}
      BY <2>2, <2>4, <2>9 DEF Creators, Others
    <3>4. Cardinality(Creators') <= Cardinality(Creators) + 1
      <4>1. t \notin Creators
        BY <1>1 DEF Creators
      <4> QED BY <3>3, <4>1, CreatorsFinite, FS_AddElement, SMTT(60)
    <3>5. c = "create"
      BY <2>9
    <3> HIDE DEF callers
    <3>6. created + Cardinality(callers) < MaxCreates
      BY <1>1, <3>5 DEF callers
    <3>7. BudgetInv'
      BY <1>2, <3>2, <3>4, <3>6, CreatorsFinite, FileSysAssumption, SMTT(60) DEF IInv,
         LocalTypes, BudgetInv
    <3>8. \A u \in Threads \ {t} : Placed(u)'
      BY <1>2, <2>4, SMTT(60) DEF IInv, PlaceInv, Placed, Others
    <3>9. PlaceInv' /\ DiskInv'
      BY <1>2, <2>5, <3>8 DEF IInv, PlaceInv, DiskInv
    <3> QED BY <2>s, <2>3, <2>7, <2>8, <3>7, <3>9 DEF IInv
  <2>10. CASE l # "create"
    <3>1. pc'[t] \notin {"create", "inode_create"}
      BY <2>2, <2>10
    <3>2. IInv'
      BY <1>2, <2>3, <2>4, <2>5, <2>7, <2>8, <3>1, OneThread
    <3> QED BY <2>s, <2>7, <3>2
  <2> QED BY <2>9, <2>10
<1>4. CASE OpenFails(t, ROOT_DIR_SECTOR) /\ UNCHANGED <<pc, locals>>
  <2>1. UNCHANGED <<open_inodes, pc, call, name, count, sector, found>> /\ filesys_lock' = t
    BY <1>4 DEF OpenFails, locals
  <2>2. TypeOK' /\ LocalTypes'
    <3>1. TypeOK /\ LocalTypes
      BY DEF IInv
    <3>2. TypeOK'
      BY <1>2, <2>1, <3>1 DEF TypeOK
    <3>3. LocalTypes'
      BY <1>2, <2>1, <3>1 DEF LocalTypes
    <3> QED BY <3>2, <3>3
  <2>3. Others(t) /\ Placed(t)'
    BY <1>2, <2>1 DEF IInv, PlaceInv, Placed, Others
  <2>4. CountInv'
    <3>1. \A s \in Sectors, j \in Kinds : Ref(t, j, s)' <=> Ref(t, j, s)
      BY <1>2, <2>1 DEF Ref
    <3> QED BY <2>1, <2>3, <3>1, Quiet
  <2> QED BY <1>2, <2>1, <2>2, <2>3, <2>4, OneThread
<1> QED BY <1>3, <1>4 DEF Call

(* The inode that inode_create writes: its data are free sectors.          *)
NewInode(t) == [start |-> FirstFit(count[t]), count |-> count[t], id |-> created + 1]

LEMMA NewInodeFree ==
  ASSUME IInv, NEW t \in Threads, pc[t] = "inode_create", FreeRuns(count[t]) # {}
  PROVE  /\ NewInode(t) \in DiskInodes /\ NewInode(t) # NULL
         /\ Extent(NewInode(t)) \subseteq Sectors /\ Extent(NewInode(t)) \cap free_map = {}
         /\ created + 1 <= MaxCreates
<1>1. count[t] \in DataSectors /\ count[t] \in Nat
  BY FileSysAssumption DEF IInv, PlaceInv, Placed
<1> DEFINE f == FirstFit(count[t])
<1>2. f \in FreeRuns(count[t])
  BY <1>1, FirstFitFound
<1> HIDE DEF f
<1>3. f \in Sectors /\ f + count[t] <= DeviceSize /\ (f..(f + count[t] - 1)) \cap free_map = {}
  BY <1>2 DEF FreeRuns
<1>4. created + 1 <= MaxCreates
  <2>1. t \in Creators
    BY DEF Creators
  <2>2. Cardinality(Creators) # 0
    BY <2>1, CreatorsFinite, FS_EmptySet
  <2> QED BY <2>2, CreatorsFinite, FileSysAssumption, SMTT(60) DEF IInv, BudgetInv, LocalTypes
<1>5. created \in Nat
  BY DEF IInv, LocalTypes
<1>6. NewInode(t) = [start |-> f, count |-> count[t], id |-> created + 1]
  BY DEF NewInode, f
<1>7. NewInode(t) \in DiskInodes
  BY <1>1, <1>3, <1>4, <1>5, <1>6, FileSysAssumption, SMTT(60) DEF DiskInodes
<1>8. Extent(NewInode(t)) = f..(f + count[t] - 1)
  BY <1>6, SMTT(60) DEF Extent
<1>9. Extent(NewInode(t)) \subseteq Sectors
  BY <1>1, <1>3, <1>8, Basics, SMTT(60) DEF Sectors
<1> QED BY <1>3, <1>4, <1>7, <1>8, <1>9, NullAssumption

LEMMA inode_createIInv == ASSUME IInv, NEW t \in Threads, inode_create(t) PROVE IInv'
<1>1. pc[t] = "inode_create" /\ call[t] = "create" /\ sector[t] \in Sectors /\ sector[t] # NULL
  BY DEF inode_create, FilesysLocked, IInv, TypeOK, PlaceInv, Placed, InCreate, NoSector
<1>2. UNCHANGED <<dir, open_inodes, dir_lock, filesys_lock, panic, call, name, count, sector, found,
                  file, leaked, stale>>
  BY DEF inode_create, locks, locals
<1>3. TypeOK /\ LocalTypes /\ pc \in [Threads -> Points]
  BY DEF IInv, TypeOK, Points
<1>4. CASE /\ FreeRuns(count[t]) # {} /\ Goto(t, "dir_add") /\ created' = created + 1
           /\ free_map' = free_map \cup Extent(NewInode(t))
           /\ inode_disk' = [inode_disk EXCEPT ![sector[t]] = NewInode(t)]
  <2>1. /\ NewInode(t) \in DiskInodes /\ NewInode(t) # NULL
        /\ Extent(NewInode(t)) \subseteq Sectors /\ created + 1 <= MaxCreates
    BY <1>1, <1>4, NewInodeFree
  <2>2. pc' \in [Threads -> Points] /\ pc'[t] = "dir_add"
    BY <1>3, <1>4 DEF Goto, Points
  <2>3. /\ inode_disk' \in [Sectors -> Inodes] /\ inode_disk'[sector[t]] = NewInode(t)
        /\ \A s \in Sectors \ {sector[t]} : inode_disk'[s] = inode_disk[s]
    BY <1>1, <1>3, <1>4, <2>1 DEF TypeOK, Inodes
  <2>4. TypeOK'
    BY <1>2, <1>3, <1>4, <2>1, <2>2, <2>3 DEF TypeOK, Points
  <2>5. LocalTypes'
    BY <1>2, <1>3, <1>4, SMTT(60) DEF LocalTypes
  <2>6. Others(t)
    BY <1>2, <1>3, <1>4 DEF Others, Goto
  <2>7. Placed(t)'
    <3>1. Placed(t)
      BY DEF IInv, PlaceInv
    <3> QED BY <1>1, <1>2, <2>1, <2>2, <2>3, <3>1 DEF Placed, NoSector, InCreate, InOpen, InRemove
  <2>8. ASSUME NEW u \in Threads \ {t} PROVE Placed(u)'
    <3>1. Placed(u) /\ (sector[u] # NULL => sector[u] \in Sectors)
      BY <1>3 DEF IInv, PlaceInv, TypeOK
    <3>2. pc[u] = "dir_add" => inode_disk'[sector[u]] # NULL
      BY <2>1, <2>3, <3>1 DEF Placed, NoSector
    <3> QED BY <1>2, <2>6, <3>1, <3>2 DEF Placed, Others
  <2>9. PlaceInv'
    BY <2>7, <2>8 DEF PlaceInv
  <2>10. DiskInv'
    BY <2>1, <2>3 DEF DiskInv, IInv
  <2>11. BudgetInv'
    <3>1. t \in Creators /\ Creators' = Creators \ {t}
      BY <1>1, <2>2, <2>6 DEF Creators, Others
    <3>2. Cardinality(Creators') = Cardinality(Creators) - 1
      BY <3>1, CreatorsFinite, FS_RemoveElement
    <3> QED BY <1>3, <1>4, <3>2, CreatorsFinite, FileSysAssumption, SMTT(60) DEF IInv,
               BudgetInv, LocalTypes
  <2>12. CountInv'
    <3>1. \A s \in Sectors, k \in Kinds : Ref(t, k, s)' <=> Ref(t, k, s)
      BY <1>1, <1>2, <2>2 DEF Ref
    <3> QED BY <1>2, <2>6, <3>1, Quiet
  <2> QED BY <2>4, <2>5, <2>9, <2>10, <2>11, <2>12 DEF IInv
<1>5. CASE Goto(t, "create_undo") /\ UNCHANGED <<free_map, inode_disk, created>>
  <2>1. Moves(t, "create_undo")
    BY <1>2, <1>5 DEF Moves, Goto
  <2>2. /\ pc' \in [Threads -> Points] /\ pc'[t] = "create_undo" /\ Others(t)
        /\ sector' \in [Threads -> Sectors \cup {NULL}] /\ LocalTypes'
    BY <1>2, <1>5, <2>1, MovesTypes DEF Points
  <2>3. TypeOK'
    BY <1>2, <1>3, <1>5, <2>2 DEF TypeOK, Points
  <2>4. Placed(t)'
    BY <1>1, <1>2, <2>2 DEF Placed, NoSector, InCreate, InOpen, InRemove
  <2>5. CountInv'
    <3>1. \A s \in Sectors, k \in Kinds : Ref(t, k, s)' <=> Ref(t, k, s)
      BY <1>1, <1>2, <2>2 DEF Ref
    <3> QED BY <1>2, <2>2, <3>1, Quiet
  <2> QED BY <1>5, <2>2, <2>3, <2>4, <2>5, OneThread
<1> QED BY <1>4, <1>5 DEF inode_create, NewInode

-----------------------------------------------------------------------------
(* The first invariant.                                                    *)

LEMMA InitIInv == ASSUME Init PROVE IInv
<1>1. TypeOK
  BY Basics DEF Init, TypeOK, Inodes
<1>2. LocalTypes /\ PlaceInv /\ DiskInv
  BY DEF Init, LocalTypes, PlaceInv, Placed, DiskInv, NoSector, InCreate, InOpen, InRemove
<1>3. BudgetInv
  <2>1. Creators = {}
    BY DEF Init, Creators
  <2> QED BY <2>1, FS_EmptySet, FileSysAssumption, SMTT(60) DEF Init, BudgetInv
<1>4. CountInv
  <2>1. ASSUME NEW s \in Sectors PROVE Cardinality(References(s)) = Opens(s)
    <3>1. \A t \in Threads, k \in Kinds : ~Ref(t, k, s)
      BY Basics DEF Init, Ref
    <3>2. References(s) = {}
      BY <3>1, RefMember, SMTT(60)
    <3> QED BY <3>2, FS_EmptySet DEF Init, Opens
  <2> QED BY <2>1 DEF CountInv
<1> QED BY <1>1, <1>2, <1>3, <1>4 DEF IInv

LEMMA StutterIInv == ASSUME IInv, UNCHANGED vars PROVE IInv'
<1> USE DEF vars, disk, locks, locals, history
<1>1. TypeOK'
  BY DEF IInv, TypeOK
<1>2. LocalTypes' /\ PlaceInv' /\ DiskInv'
  BY DEF IInv, LocalTypes, PlaceInv, Placed, DiskInv
<1>3. BudgetInv'
  BY DEF IInv, BudgetInv, Creators
<1>4. CountInv'
  BY DEF IInv, CountInv, References, Opens
<1> QED BY <1>1, <1>2, <1>3, <1>4 DEF IInv

LEMMA NextIInv == ASSUME IInv, Next PROVE IInv'
<1>1. PICK t \in Threads : Step(t) \/ User(t)
  BY DEF Next
<1>2. CASE Step(t)
  BY <1>2, DirCloseIInv, RelockIInv, CreateAllocateIInv, inode_createIInv, dir_addIInv,
     CreateUndoIInv, OpenLookupIInv, OpenInodeIInv, file_openIInv, RemoveLookupIInv,
     RemoveOpenIInv, RemoveEraseIInv, inode_removeIInv, RemoveCloseIInv DEF Step
<1>3. CASE User(t)
  <2>1. ASSUME NEW n \in AllNames, NEW k \in DataSectors, Call(t, "create", n, k) PROVE IInv'
    BY <2>1, CallIInv, FileSysAssumption
  <2>2. ASSUME NEW n \in AllNames, NEW c \in {"open", "remove"}, Call(t, c, n, 0) PROVE IInv'
    BY <2>2, CallIInv
  <2>3. CASE Close(t)
    BY <2>3, CloseIInv
  <2> QED BY <1>3, <2>1, <2>2, <2>3 DEF User
<1> QED BY <1>1, <1>2, <1>3

THEOREM SpecIInv == Spec => []IInv
<1>1. Init => IInv
  BY InitIInv
<1>2. IInv /\ [Next]_vars => IInv'
  BY NextIInv, StutterIInv
<1> QED BY <1>1, <1>2, PTL DEF Spec

(* However threads create, open, close and remove files at the same time,  *)
(* and whichever mallocs fail, open_cnt is the number of references to the *)
(* inode, and inode_close frees it exactly at the last one.                *)
THEOREM SpecOpenCountExact == Spec => []OpenCountExact
<1>1. IInv => OpenCountExact
  BY DEF IInv, CountInv, Opens, OpenCountExact
<1> QED BY <1>1, SpecIInv, PTL

=============================================================================
