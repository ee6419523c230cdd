------------------------------- MODULE Ustar -------------------------------
(***************************************************************************)
(* Archives in ustar format: lib/ustar.c makes and parses their headers,   *)
(* and the actions `append' and `extract' of filesys/fsutil.c copy files   *)
(* to and from the scratch device.                                         *)
(*                                                                         *)
(* A header is a record of the fields that are examined, a field a         *)
(* sequence of bytes.  The fields that are always the same are left out.   *)
(***************************************************************************)
EXTENDS Integers, Sequences, FiniteSets, SequencesExt, FiniteSetsExt

CONSTANTS
  NAME_SIZE,     \* bytes of the name field, 100 in the code
  OCTAL_SIZE,    \* bytes of an octal field, 8 or 12
  UINT_MAX,      \* the largest value an octal field may have
  SECTOR,        \* bytes of a sector
  ScratchSize,   \* sectors of the scratch device
  Names,         \* file names, sequences of bytes
  Contents,      \* contents of files
  MaxFiles,      \* bound: files in the file system
  MaxBoots       \* bound: boots of the machine

NUL == 0
SPC == 1
DOT == 46
SLASH == 47
ZERO == 48       \* the digit 0
REGULAR == 48    \* the type flags, '0' and '5'
DIRECTORY == 53
NOERROR == ""

-----------------------------------------------------------------------------
(* lib/ustar.c                                                             *)

StartsWith(s, p) == Len(s) >= Len(p) /\ SubSeq(s, 1, Len(p)) = p

RECURSIVE strip_antisocial_prefixes(_)
strip_antisocial_prefixes(s) ==
  IF \E p \in {<<SLASH>>, <<DOT, SLASH>>, <<DOT, DOT, SLASH>>} : StartsWith(s, p)
  THEN LET i == Min({j \in 1..Len(s) : s[j] = SLASH})
       IN  strip_antisocial_prefixes(SubSeq(s, i + 1, Len(s)))
  ELSE IF s \in {<<>>, <<DOT, DOT>>} THEN <<DOT>> ELSE s

(* snprintf with "%0*o": octal digits that fill the field but its last     *)
(* byte; a longer number loses its last digits.                            *)
OctalField(n) ==
  LET width == Max({OCTAL_SIZE - 1, Min({k \in 1..10 : 8^k > n})})
      all == [i \in 1..width |-> ZERO + ((n \div 8^(width - i)) % 8)]
  IN  Append(SubSeq(all, 1, OCTAL_SIZE - 1), NUL)

(* strlcpy into a field of zeros.                                          *)
NameField(s) == [i \in 1..NAME_SIZE |-> IF i <= Len(s) THEN s[i] ELSE NUL]

SumOf(s) == FoldLeft(LAMBDA a, b : a + b, 0, s)

(* The sum of all bytes but those of the checksum.                         *)
calculate_chksum(h) == SumOf(h.name) + SumOf(h.size) + h.typeflag + SumOf(h.magic)

ZeroHeader == [name |-> NameField(<<>>), size |-> [i \in 1..OCTAL_SIZE |-> NUL],
               chksum |-> [i \in 1..OCTAL_SIZE |-> NUL], typeflag |-> NUL, magic |-> <<NUL>>]

MAGIC == <<2>>

(* ustar_make_header: the header in a sequence, empty if the name is too   *)
(* long.                                                                   *)
ustar_make_header(file_name, type, size) ==
  LET s == strip_antisocial_prefixes(file_name)
      h == [ZeroHeader EXCEPT !.name = NameField(s), !.size = OctalField(size),
                              !.typeflag = type, !.magic = MAGIC]
  IN  IF Len(s) > NAME_SIZE - 1 THEN <<>>
      ELSE <<[h EXCEPT !.chksum = OctalField(calculate_chksum(h))]>>

(* parse_octal_field: the value, -1 for a field that is not in order.      *)
RECURSIVE OctalValue(_, _, _)
OctalValue(s, ofs, value) ==
  IF ofs > Len(s) THEN -1
  ELSE IF s[ofs] \in ZERO..(ZERO + 7)
  THEN IF value > UINT_MAX \div 8 THEN -1
       ELSE OctalValue(s, ofs + 1, (value * 8) + (s[ofs] - ZERO))
  ELSE IF s[ofs] \in {NUL, SPC} /\ ofs > 1 THEN value ELSE -1
parse_octal_field(s) == OctalValue(s, 1, 0)

(* The name in its field, up to the first NUL.                             *)
NameIn(s) == LET ends == {i \in 1..Len(s) : s[i] = NUL}
             IN  IF ends = {} THEN s ELSE SubSeq(s, 1, Min(ends) - 1)

EofHeader == [error |-> NOERROR, name |-> <<>>, type |-> NUL, size |-> 0]
Bad(e) == [EofHeader EXCEPT !.error = e]

ustar_parse_header(h) ==
  LET size == IF h.typeflag = REGULAR THEN parse_octal_field(h.size) ELSE 0
  IN  IF h = ZeroHeader THEN EofHeader
      ELSE IF h.magic # MAGIC THEN Bad("not a ustar archive")
      ELSE IF parse_octal_field(h.chksum) = -1 THEN Bad("corrupt chksum field")
      ELSE IF parse_octal_field(h.chksum) # calculate_chksum(h) THEN Bad("checksum mismatch")
      ELSE IF h.name[NAME_SIZE] # NUL THEN Bad("file name too long")
      ELSE IF h.typeflag \notin {REGULAR, DIRECTORY} THEN Bad("unimplemented file type")
      ELSE IF size = -1 THEN Bad("corrupt file size field")
      ELSE [error |-> NOERROR, name |-> strip_antisocial_prefixes(NameIn(h.name)),
            type |-> h.typeflag, size |-> size]

-----------------------------------------------------------------------------
(* filesys/fsutil.c.  A sector holds a header or data; a sector of zeros   *)
(* is both.                                                                *)
Data(bytes) == [header |-> [ZeroHeader EXCEPT !.magic = <<3>>], data |-> bytes]
HeaderSector(h) == [header |-> h, data |-> <<>>]
ZeroSector == HeaderSector(ZeroHeader)

VARIABLES
  files,         \* the file system: name to content, as a set of pairs
  scratch,       \* the scratch device
  append_sector, extract_sector,
  stopped,       \* the kernel panicked
  boots,
  archive,       \* history: what was appended since the archive was begun, in order
  torn           \* history: the device was too small for it

ustarVars == <<files, scratch, append_sector, extract_sector, stopped, boots, archive, torn>>

UstarInit ==
  /\ files = {}
  /\ scratch = [s \in 0..(ScratchSize - 1) |-> ZeroSector]
  /\ append_sector = 0 /\ extract_sector = 0
  /\ stopped = FALSE
  /\ boots = 1
  /\ archive = <<>>
  /\ torn = FALSE

(* The sectors of a file's data.                                           *)
Chunks(c) == [i \in 1..((Len(c) + SECTOR - 1) \div SECTOR) |->
                Data(SubSeq(c, SECTOR * (i - 1) + 1, Min({SECTOR * i, Len(c)})))]

AppendPosition(n) == append_sector + n

(* fsutil_append.  A name too long is a panic, and so is the first sector  *)
(* beyond the device: the ones before it have been written by then.        *)
fsutil_append(f) ==
  LET h == ustar_make_header(f[1], REGULAR, Len(f[2]))
      out == <<HeaderSector(h[1])>> \o Chunks(f[2])
      all == out \o <<ZeroSector, ZeroSector>>
  IN  /\ ~stopped /\ f \in files
      /\ IF h = <<>>
         THEN stopped' = TRUE /\ UNCHANGED <<scratch, append_sector, archive, torn>>
         ELSE /\ scratch' = [s \in DOMAIN scratch |->
                   IF s >= append_sector /\ s < append_sector + Len(all)
                   THEN all[(s - append_sector) + 1] ELSE scratch[s]]
              /\ append_sector' = AppendPosition(Len(out))
              /\ stopped' = (append_sector + Len(all) > ScratchSize)
              /\ torn' = stopped'
              /\ archive' = (IF append_sector = 0 THEN <<>> ELSE archive)
                              \o <<<<strip_antisocial_prefixes(f[1]), f[2]>>>>
      /\ UNCHANGED <<files, extract_sector, boots>>

(* The loop of fsutil_extract, from sector s on: where it stops, the files *)
(* it has created, and whether it stops at the end of the archive rather   *)
(* than at a header that is not in order, a name that exists already, or   *)
(* the end of the device.                                                  *)
RECURSIVE ExtractLoop(_, _, _)
ExtractLoop(s, taken, got) ==
  LET stop(ok, at) == [ok |-> ok, at |-> at, got |-> got]
  IN  IF s >= ScratchSize THEN stop(FALSE, s)
      ELSE LET h == ustar_parse_header(scratch[s].header)
               n == (h.size + SECTOR - 1) \div SECTOR
               there == Min({n, ScratchSize - 1 - s})
               bytes == FlattenSeq([i \in 1..there |-> scratch[s + i].data])
               file == <<h.name, bytes \o [i \in 1..(h.size - Len(bytes)) |-> NUL]>>
           IN  IF h.error # NOERROR THEN stop(FALSE, s + 1)
               ELSE IF h.type = NUL THEN stop(TRUE, s + 1)
               ELSE IF h.type = DIRECTORY THEN ExtractLoop(s + 1, taken, got)
               ELSE IF h.name \in taken THEN stop(FALSE, s + 1)
               ELSE IF there < n THEN [stop(FALSE, s + 1 + there) EXCEPT !.got = Append(@, file)]
               ELSE ExtractLoop(s + 1 + n, taken \cup {h.name}, Append(got, file))

NamesOf(S) == {f[1] : f \in S}

(* fsutil_extract, which erases the archive when it is through.  It        *)
(* "should precede all `append's", and does in the command lines here.     *)
fsutil_extract ==
  LET r == ExtractLoop(extract_sector, NamesOf(files), <<>>)
  IN  /\ ~stopped /\ append_sector = 0
      /\ stopped' = ~r.ok
      /\ files' = files \cup ToSet(r.got)
      /\ extract_sector' = r.at
      /\ IF r.ok THEN /\ scratch' = [scratch EXCEPT ![0] = ZeroSector, ![1] = ZeroSector]
                      /\ archive' = <<>> /\ torn' = FALSE
         ELSE UNCHANGED <<scratch, archive, torn>>
      /\ UNCHANGED <<append_sector, boots>>

(* A program writes a file, or fsutil_rm deletes it.                       *)
CreateFile(f) ==
  /\ ~stopped /\ f[1] \notin NamesOf(files) /\ Cardinality(files) < MaxFiles
  /\ files' = files \cup {f}
  /\ UNCHANGED <<scratch, append_sector, extract_sector, stopped, boots, archive, torn>>

fsutil_rm(f) ==
  /\ ~stopped /\ f \in files
  /\ files' = files \ {f}
  /\ UNCHANGED <<scratch, append_sector, extract_sector, stopped, boots, archive, torn>>

(* The machine boots again, and its file system may be formatted.          *)
Boot(format) ==
  /\ boots < MaxBoots
  /\ boots' = boots + 1
  /\ files' = IF format THEN {} ELSE files
  /\ append_sector' = 0 /\ extract_sector' = 0
  /\ stopped' = FALSE
  /\ UNCHANGED <<scratch, archive, torn>>

UstarNext ==
  \/ \E n \in Names, c \in Contents : \/ CreateFile(<<n, c>>) \/ fsutil_rm(<<n, c>>)
                                      \/ fsutil_append(<<n, c>>)
  \/ fsutil_extract
  \/ \E format \in BOOLEAN : Boot(format)

-----------------------------------------------------------------------------
(* Whatever was appended since the archive was begun, in this boot or the  *)
(* one before, is what the first `extract' of a boot finds: the same files *)
(* in the same order with the same bytes, up to the prefixes stripped from *)
(* their names, and then the end of the archive.  An archive that has been *)
(* extracted is gone, "so that the extraction operation is idempotent".    *)
ArchiveComesBack ==
  LET r == ExtractLoop(0, {}, <<>>)
      names == [i \in 1..Len(archive) |-> archive[i][1]]
  IN  (~torn /\ IsInjective(names)) => r.ok /\ r.got = archive

(* The names of files in an archive never lead out of the directory they   *)
(* are extracted to, and stripping a name twice changes nothing more.      *)
NamesStayBelow ==
  \A i \in 1..Len(archive) :
    LET n == archive[i][1]
    IN  /\ strip_antisocial_prefixes(n) = n
        /\ n[1] # SLASH
        /\ ~StartsWith(n, <<DOT, DOT, SLASH>>) /\ n # <<DOT, DOT>>
=============================================================================
