----------------------------- MODULE Partition -----------------------------
(***************************************************************************)
(* devices/partition.c with the registry of devices/block.c and the choice *)
(* of devices in threads/init.c: the scan of a disk's partition tables at  *)
(* boot, the block devices it registers, the roles they get, and accesses  *)
(* through them.  Sector numbers have SECTOR_BITS bits (32 in the source), *)
(* tables have fewer entries.  The recursion of read_partition_table is a  *)
(* stack of frames, at most MaxDepth deep.                                 *)
(***************************************************************************)
EXTENDS Integers, Sequences, FiniteSets

CONSTANTS
  SECTOR_BITS,   \* width of block_sector_t
  DiskSize,      \* sectors of the disk
  Disks,         \* disks: the partition table that each sector holds
  MaxDepth       \* frames that the kernel stack holds

Wrap(n) == n % 2^SECTOR_BITS

(* Types of a table entry and of a block device.                           *)
Extended == "extended"
Roles == {"filesys", "scratch"}

VARIABLES
  disk,          \* the table in each sector
  frames,        \* the active calls of read_partition_table, innermost last
  part_nr,       \* partitions encountered
  all_blocks,    \* the block devices in probe order; the disk is the first
  block_by_role, \* index of the device with each role, 0 for none
  boot,          \* how far the boot is
  access         \* the latest sector access: device, sector, and disk sector

partVars == <<disk, frames, part_nr, all_blocks, block_by_role, boot, access>>

NoAccess == [dev |-> 0, sector |-> 0, at |-> 0]

PartInit ==
  /\ disk = [s \in 0..(DiskSize - 1) |-> [valid |-> FALSE, entries |-> <<>>]]
  /\ frames = <<>>
  /\ part_nr = 0
  /\ all_blocks = <<>>
  /\ block_by_role = [r \in Roles |-> 0]
  /\ boot = "off"
  /\ access = NoAccess

-----------------------------------------------------------------------------
(* check_sector panics on a sector past the end of the device; the panic   *)
(* ends every behaviour.                                                   *)
check_sector(block, sector) == sector < block.size

block_register(type, size, start, nr) ==
  all_blocks' = Append(all_blocks, [type |-> type, size |-> size, start |-> start, nr |-> nr])

block_type_of(part_type) ==
  IF part_type \in {"kernel", "filesys", "scratch", "swap"} THEN part_type ELSE "foreign"

PowerOn ==
  /\ boot = "off"
  /\ disk' \in Disks
  /\ boot' = "on"
  /\ UNCHANGED <<frames, part_nr, all_blocks, block_by_role, access>>

(* read_partition_table up to its loop: the frame it leaves, if any.  The  *)
(* table is always read from sector 0 of the disk.                         *)
Enter(stack, sector, primary_extended_sector) ==
  IF sector >= DiskSize \/ ~disk[0].valid THEN stack
  ELSE Append(stack, [sector |-> sector, primary |-> primary_extended_sector,
                      pt |-> disk[0].entries, i |-> 1])

(* ide_init registers the whole disk and scans it.                         *)
partition_scan ==
  /\ boot = "on"
  /\ block_register("raw", DiskSize, 0, 0)
  /\ frames' = Enter(<<>>, 0, 0)
  /\ boot' = "scanning"
  /\ UNCHANGED <<disk, part_nr, block_by_role, access>>

(* Fault: the sum of start and size is not checked for wrapping around.    *)
found_partitionNoWrap(part_type, start, size, nr) ==
  IF start >= DiskSize \/ Wrap(start + size) > DiskSize
  THEN UNCHANGED all_blocks
  ELSE block_register(block_type_of(part_type), size, start, nr)

found_partition(part_type, start, size, nr) ==
  IF start >= DiskSize \/ Wrap(start + size) < start \/ Wrap(start + size) > DiskSize
  THEN UNCHANGED all_blocks
  ELSE block_register(block_type_of(part_type), size, start, nr)

Top == frames[Len(frames)]
Advanced == [frames EXCEPT ![Len(frames)].i = @ + 1]

parse_entry ==
  /\ boot = "scanning" /\ frames # <<>> /\ Top.i <= Len(Top.pt)
  /\ LET e == Top.pt[Top.i]
     IN \/ /\ e.size = 0 \/ e.type = "empty"
           /\ frames' = Advanced
           /\ UNCHANGED <<part_nr, all_blocks>>
        \/ /\ e.size # 0 /\ e.type = Extended
           /\ Len(frames) < MaxDepth
           /\ frames' = IF Top.sector = 0 THEN Enter(Advanced, e.offset, e.offset)
                        ELSE Enter(Advanced, Wrap(e.offset + Top.primary), Top.primary)
           /\ UNCHANGED <<part_nr, all_blocks>>
        \/ /\ e.size # 0 /\ e.type \notin {"empty", Extended}
           /\ part_nr' = part_nr + 1
           /\ found_partition(e.type, Wrap(e.offset + Top.sector), e.size, part_nr')
           /\ frames' = Advanced
  /\ UNCHANGED <<disk, block_by_role, boot, access>>

table_done ==
  /\ boot = "scanning" /\ frames # <<>> /\ Top.i > Len(Top.pt)
  /\ frames' = SubSeq(frames, 1, Len(frames) - 1)
  /\ UNCHANGED <<disk, part_nr, all_blocks, block_by_role, boot, access>>

(* The first device of the type, or the device that an option names (by    *)
(* its number here); naming a device that does not exist panics.           *)
Located(role, nr) ==
  LET found == {k \in 1..Len(all_blocks) : IF nr # 0 THEN all_blocks[k].nr = nr
                                                     ELSE all_blocks[k].type = role}
  IN IF found = {} THEN 0 ELSE CHOOSE k \in found : \A j \in found : k <= j

locate_block_devices ==
  /\ boot = "scanning" /\ frames = <<>>
  /\ \E filesys, scratch \in 0..2 :
       LET f == Located("filesys", filesys)
           s == Located("scratch", scratch)
       IN IF (filesys # 0 /\ f = 0) \/ (scratch # 0 /\ s = 0)
          THEN boot' = "panic" /\ UNCHANGED block_by_role
          ELSE boot' = "running" /\ block_by_role' = [filesys |-> f, scratch |-> s]
  /\ UNCHANGED <<disk, frames, part_nr, all_blocks, access>>

(* partition_read and partition_write, called by block_read and by         *)
(* block_write, which refuses devices of other systems.                    *)
partition_sector(p, sector) == Wrap(p.start + sector)

block_access ==
  /\ boot = "running"
  /\ \E r \in Roles, sector \in 0..DiskSize, write \in BOOLEAN :
       LET k == block_by_role[r]
       IN /\ k # 0
          /\ IF ~check_sector(all_blocks[k], sector) \/ (write /\ all_blocks[k].type = "foreign")
             THEN boot' = "panic" /\ UNCHANGED access
             ELSE LET at == partition_sector(all_blocks[k], sector)
                  IN IF check_sector(all_blocks[1], at)
                     THEN access' = [dev |-> k, sector |-> sector, at |-> at] /\ UNCHANGED boot
                     ELSE boot' = "device panic" /\ UNCHANGED access
  /\ UNCHANGED <<disk, frames, part_nr, all_blocks, block_by_role>>

PartNext ==
  PowerOn \/ partition_scan \/ parse_entry \/ table_done \/ locate_block_devices \/ block_access

-----------------------------------------------------------------------------
(* partition.c found_partition, block.c check_sector: whatever numbers a   *)
(* table holds, a sector that exists in a partition exists on the disk and *)
(* lies in the part of it that the table gave to that partition, so the    *)
(* check against the disk behind the partition never panics.               *)
PartitionsInDisk ==
  /\ boot # "device panic"
  /\ \A k \in 1..Len(all_blocks) : all_blocks[k].start + all_blocks[k].size <= DiskSize
  /\ access.dev # 0 =>
       access.at = all_blocks[access.dev].start + access.sector

(* partition.c: "Reads the partition table in the given SECTOR of BLOCK".  *)
TableOfSector == \A k \in 1..Len(frames) : frames[k].pt = disk[frames[k].sector].entries
=============================================================================
