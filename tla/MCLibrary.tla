----------------------------- MODULE MCLibrary -----------------------------
(***************************************************************************)
(* System calls on files (Syscall) and what has no concurrency of its own, *)
(* in one run: the containers of lib/kernel (List, Hash, Bitmap), the      *)
(* algorithms of lib (Strings, Stdlib, Stdio) and the layouts on disk      *)
(* (Partition, Ustar).  The first state decides which.                     *)
(*                                                                         *)
(* Syscall: bytes 4 to 19 are mapped, 16 to 19 read-only.  The string at 4 *)
(* names the file; the string at 14 runs out of the mapped bytes.  A stack *)
(* at 4 has room for three arguments, one at 14 for none.  The second      *)
(* inode is for a file that is created while a removed one of the same     *)
(* name is still open.                                                     *)
(***************************************************************************)
EXTENDS Syscall, Sequences, TLC

CONSTANTS p1, p2, a, i1, i2, e1, e2, e3, e4, l1, l2, NIL

VARIABLES
  part,
  heap, lseq, lok,                                        \* List
  buckets, elem_cnt, hset, hret,                                    \* Hash
  bitmap, abits, bfile, bret,                                       \* Bitmap
  smem, scall, scase, pcall,                                        \* the algorithms
  disk, frames, part_nr, all_blocks, block_by_role, boot, access,   \* Partition
  files, scratch, append_sector, extract_sector, stopped, boots, archive, torn

MCProcs == {p1, p2}
MCNames == {a}
MCInodes == {i1, i2}
MCSizes == {0, 1}
MCMapped == 4..19
MCWritable == 4..15
MCNul == {5}
MCPointers == {0, 4, 14}
MCStacks == {4, 14}
MCNameAt == [x \in MCPointers |-> a]
MCCounts == {1}

LI == INSTANCE List WITH
        Elems <- {e1, e2, e3, e4}, Lists <- {l1, l2},
        Key <- [e \in {e1, e2, e3, e4} |-> IF e \in {e1, e3} THEN 2 ELSE 1]
HA == INSTANCE Hash WITH
        HElems <- 1..7, HKey <- <<1, 2, 3, 4, 5, 1, 2>>, HashOf <- <<0, 2, 4, 1, 5>>,
        MIN_BUCKETS <- 2, BEST_ELEMS_PER_BUCKET <- 1, MaxLog <- 3, NOELEM <- 0
BM == INSTANCE Bitmap WITH ELEM_BITS <- 2, BitCounts <- {3, 4}, BITMAP_ERROR <- 99
ST == INSTANCE Strings WITH MemSize <- 5, Chars <- {0, 1, 2}, NULLP <- 99
(* Texts of a space, both signs, a letter and the digits 0, 3, 4 and 6.    *)
SL == INSTANCE Stdlib WITH
        HALF <- 4, INT_BITS <- 7, MaxArray <- 6, Values <- {1, 2, 3}, RC4_SIZE <- 4,
        Seeds <- {<<x, y>> : x \in 0..3, y \in 0..3},
        Texts <- UNION {[1..n -> {-1, -2, -3, -4, 0, 3, 4, 6}] : n \in 0..4}

-----------------------------------------------------------------------------
(* The conversions that printf is given: flags, a width (with * where      *)
(* negative), a precision, a type and a value that may not fit in it.      *)
TypeBits == [CHAR |-> 4, SHORT |-> 6, INT |-> 14, LONG |-> 14, SIZET |-> 14,
             PTRDIFFT |-> 14, INTMAX |-> 16, LONGLONG |-> 16]
FlagTexts ==
  {<<>>, <<"-">>, <<"+">>, <<" ">>, <<"#">>, <<"0">>, <<"'">>, <<"-", "0">>,
   <<"+", " ">>, <<"#", "0">>, <<"'", "0">>, <<"0", "+">>}
WidthText(w) == IF w < 0 THEN <<"*">> ELSE IF w = 0 THEN <<>> ELSE IF w = 4 THEN <<"4">> ELSE <<"7">>
PrecisionText(p) ==
  CASE p = -1 -> <<>> [] p = 0 -> <<".">> [] p = 2 -> <<".", "2">> [] p = 12 -> <<".", "1", "2">>
Conversion(f, w, p, l, ch, v) ==
  [fmt |-> <<"%">> \o f \o WidthText(w) \o PrecisionText(p) \o l[1] \o <<ch>>,
   args |-> (IF w < 0 THEN <<w>> ELSE <<>>) \o <<v>>,
   flags |-> {f[i] : i \in 1..Len(f)}, width |-> w, precision |-> p,
   type |-> l[2], ch |-> ch, value |-> v]

(* The digit buffer counts the commas of a group among the digits of a     *)
(* precision, and "%0*d" pads twice when its width is negative (README);   *)
(* both are left out.                                                      *)
Regular(k) ==
  /\ "'" \in k.flags => k.precision <= 2
  /\ ("0" \in k.flags /\ "-" \notin k.flags /\ k.width < 0) => k.precision >= 0
IntegerCalls ==
  {Conversion(f, w, p, l, ch, v) :
     f \in FlagTexts, w \in {0, 4, 7, -7}, p \in {-1, 0, 2, 12},
     l \in {<<<<>>, "INT">>, <<<<"h", "h">>, "CHAR">>, <<<<"j">>, "INTMAX">>},
     ch \in {"d", "o", "u", "X"}, v \in {0, 7, -8, 1000, 8191}}
StringCalls ==
  {Conversion(f, w, p, <<<<>>, "INT">>, "s", v) :
     f \in FlagTexts, w \in {0, 4, -7}, p \in {-1, 0, 2}, v \in {<<>>, <<"a", "b", "c">>}}

IO == INSTANCE Stdio WITH
        Bits <- TypeBits, BUFSIZE <- 8, PER_LINE <- 4,
        Conversions <- {k \in IntegerCalls : Regular(k)},
        StringConversions <- StringCalls, BufSizes <- {0, 1, 4},
        Dumps <- [ofs : 0..5, size : 0..9],
        Sizes <- {0, 1, 1023, 1024, 1048575, 1048576}

-----------------------------------------------------------------------------
(* Partition tables of two entries, those that do not fit the disk and     *)
(* those whose end wraps around among them; every other sector holds the   *)
(* table of a logical partition.                                           *)
Entry(t, o, s) == [type |-> t, offset |-> o, size |-> s]
TableEntries ==
  {Entry("empty", 0, 0), Entry("filesys", 1, 0), Entry("linux", 2, 1),
   Entry("extended", 1, 1), Entry("extended", 7, 1)}
    \cup {Entry(t, o, s) : t \in {"filesys", "scratch"}, o \in {1, 7}, s \in {1, 3, 7}}
Tables ==
  {[valid |-> TRUE, entries |-> <<e, f>>] : e \in TableEntries, f \in TableEntries}
    \cup {[valid |-> FALSE, entries |-> <<>>]}
Logical == [valid |-> TRUE, entries |-> <<Entry("filesys", 1, 1), Entry("empty", 0, 0)>>]

PT == INSTANCE Partition WITH
        SECTOR_BITS <- 3, DiskSize <- 4, MaxDepth <- 3,
        Disks <- {[s \in 0..3 |-> IF s = 0 THEN t ELSE Logical] : t \in Tables}

(* The names "a", "..//a" and one that is too long.                        *)
US == INSTANCE Ustar WITH
        NAME_SIZE <- 3, OCTAL_SIZE <- 4, UINT_MAX <- 511, SECTOR <- 2, ScratchSize <- 6,
        Names <- {<<97>>, <<46, 46, 47, 47, 97>>, <<97, 97, 97>>},
        Contents <- {<<>>, <<7, 8, 9>>}, MaxFiles <- 2, MaxBoots <- 2

-----------------------------------------------------------------------------
listVars == <<heap, lseq, lok>>
hashVars == <<buckets, elem_cnt, hset, hret>>
bitmapVars == <<bitmap, abits, bfile, bret>>
containers == <<listVars, hashVars, bitmapVars>>
stringVars == <<smem, scall>>
algorithms == <<stringVars, scase, pcall>>
partVars == <<disk, frames, part_nr, all_blocks, block_by_role, boot, access>>
ustarVars == <<files, scratch, append_sector, extract_sector, stopped, boots, archive, torn>>
images == <<partVars, ustarVars>>
libraryVars == <<part, vars, containers, algorithms, images>>

Parts == {"syscall", "list", "hash", "bitmap", "strings", "stdlib", "stdio",
          "partition", "ustar"}

LibraryInit ==
  /\ part \in Parts /\ Init
  /\ LI!ListInit /\ HA!HashInit /\ BM!BitmapInit
  /\ ST!StringsInit /\ SL!StdlibInit /\ IO!StdioInit
  /\ PT!PartInit /\ US!UstarInit

ContainersNext ==
  \/ part = "list" /\ LI!ListNext /\ UNCHANGED <<hashVars, bitmapVars>>
  \/ part = "hash" /\ HA!HashNext /\ UNCHANGED <<listVars, bitmapVars>>
  \/ part = "bitmap" /\ BM!BitmapNext /\ UNCHANGED <<listVars, hashVars>>

AlgorithmsNext ==
  \/ part = "strings" /\ ST!StringsNext /\ UNCHANGED <<scase, pcall>>
  \/ part = "stdlib" /\ SL!StdlibNext /\ UNCHANGED <<stringVars, pcall>>
  \/ part = "stdio" /\ IO!StdioNext /\ UNCHANGED <<stringVars, scase>>

ImagesNext ==
  \/ part = "partition" /\ PT!PartNext /\ UNCHANGED ustarVars
  \/ part = "ustar" /\ US!UstarNext /\ UNCHANGED partVars

LibraryNext ==
  /\ \/ part = "syscall" /\ Next /\ UNCHANGED <<containers, algorithms, images>>
     \/ ContainersNext /\ UNCHANGED <<vars, algorithms, images>>
     \/ AlgorithmsNext /\ UNCHANGED <<vars, containers, images>>
     \/ ImagesNext /\ UNCHANGED <<vars, containers, algorithms>>
  /\ UNCHANGED part

LibrarySpec == LibraryInit /\ [][LibraryNext]_libraryVars

(* One part alone.                                                         *)
OnlyPartition == LibraryInit /\ part = "partition" /\ [][LibraryNext]_libraryVars

Symmetry == Permutations(MCInodes)

-----------------------------------------------------------------------------
(* list.c, hash.c, bitmap.c: after any sequence of calls the links, the    *)
(* buckets and the words stand for the sequence, the set and the array of  *)
(* bits that the calls describe, and the functions answer accordingly.     *)
ContainersExact ==
  /\ part = "list" => LI!ListIsSequence
  /\ part = "hash" => HA!HashIsSet
  /\ part = "bitmap" => BM!BitmapIsArray

(* string.c, arithmetic.c, stdlib.c, random.c: overlapping moves, tokens,  *)
(* copies into short buffers, 64-bit division by halves, the heap sort and *)
(* atoi at the ends of an int give what their comments say.                *)
AlgorithmsExact ==
  /\ part = "strings" => ST!StringsAnswer
  /\ part = "stdlib" => SL!DivisionExact /\ SL!SortAndSearch /\ SL!AtoiExact /\ SL!TableIsPermutation

(* stdio.c: every combination of flags, width, precision and type prints   *)
(* what it means, and no buffer is overrun.                                *)
PrintfExact == part = "stdio" => IO!PrintfExact /\ IO!DumpExact

(* partition.c and block.c: no access to a partition leaves the partition  *)
(* or the disk.  ustar.c and fsutil.c: the files of an archive come back   *)
(* after a reboot, under names below the root.                             *)
ImagesExact ==
  /\ part = "partition" => PT!PartitionsInDisk
  /\ part = "ustar" => US!ArchiveComesBack /\ US!NamesStayBelow

(* partition.c:41, "Reads the partition table in the given SECTOR of       *)
(* BLOCK": the table that a call goes through is that of its sector.       *)
TableOfSector == part = "partition" => PT!TableOfSector
=============================================================================
