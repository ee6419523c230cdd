--------------------------- MODULE SyscallProofs ---------------------------
(***************************************************************************)
(* Proofs about the table of file descriptors, for any number of           *)
(* processes, files, descriptors and any layout of user memory.            *)
(***************************************************************************)
EXTENDS Syscall, FiniteSetTheorems, TLAPS

(* Zenon proves a leaf unless the leaf names another prover.               *)
USE ZenonT(60)

(* next_fd is above every number that open has returned, and an open       *)
(* descriptor is one that open has returned.                               *)
NumbersGiven ==
  \A p \in Procs :
    /\ next_fd[p] >= 2
    /\ \A g \in given[p] : g[1] < next_fd[p]
    /\ \A e \in file_descriptors[p] : e.fd < next_fd[p] /\ <<e.fd, e.inode>> \in given[p]

CountsExact == \A i \in Inodes : open_cnt[i] = Cardinality(References(i))

OneEntry == \A p \in Procs : \A e, f \in file_descriptors[p] : e.fd = f.fd => e = f

NoFilesOutside == \A p \in Procs : pc[p] \in {"unborn", "dead"} => file_descriptors[p] = {}

IInv ==
  TypeOK /\ PosWithinFile /\ CountsExact /\ OneEntry /\ NoFilesOutside /\ NumbersGiven

(* What a step may do to the meaning of a number (FdMeansOneFile).         *)
MeaningKept ==
  \A p \in Procs : \A e \in file_descriptors'[p] :
    (\E g \in given[p] : g[1] = e.fd)
      => \E f \in file_descriptors[p] : f.fd = e.fd /\ f.inode = e.inode

-----------------------------------------------------------------------------
LEMMA ReferencesFinite == ASSUME NEW i PROVE IsFiniteSet(References(i))
<1>1. IsFiniteSet(Procs) /\ MAX_FDS \in Nat
  BY SyscallAssumption
<1>2. IsFiniteSet(2..(MAX_FDS - 1))
  BY <1>1, FS_Interval, SMTT(60)
<1>3. IsFiniteSet(Procs \X (2..(MAX_FDS - 1)))
  BY <1>1, <1>2, FS_Product
<1>4. QED
  BY <1>3, FS_Subset DEF References

(* A step that opens, closes and moves no file.                            *)
LEMMA FilesKept ==
  ASSUME IInv, UNCHANGED <<tableVars, length, open_cnt>>,
         machine' \in {"up", "off", "panic"},
         pc' \in [Procs -> {"unborn", "user", "exiting", "dead"}],
         dir' \in [Names -> Inodes \cup {NULL}],
         NoFilesOutside'
  PROVE  IInv' /\ MeaningKept
<1> USE DEF tableVars
<1>1. TypeOK' /\ PosWithinFile' /\ OneEntry' /\ NumbersGiven'
  BY DEF IInv, TypeOK, PosWithinFile, OneEntry, NumbersGiven
<1>2. CountsExact'
  BY DEF IInv, CountsExact, References
<1>3. MeaningKept
  BY DEF MeaningKept
<1>4. QED
  BY <1>1, <1>2, <1>3 DEF IInv

LEMMA ExitInv == ASSUME IInv, NEW p \in Procs, exit(p) PROVE IInv' /\ MeaningKept
<1>1. pc' \in [Procs -> {"unborn", "user", "exiting", "dead"}] /\ NoFilesOutside'
  BY DEF exit, IInv, TypeOK, NoFilesOutside, tableVars
<1>2. QED
  BY <1>1, FilesKept DEF exit, IInv, TypeOK, fsVars

LEMMA KeepInv == ASSUME IInv, UNCHANGED vars PROVE IInv' /\ MeaningKept
<1>1. NoFilesOutside'
  BY DEF vars, IInv, NoFilesOutside
<1>2. QED
  BY <1>1, FilesKept DEF vars, tableVars, IInv, TypeOK

LEMMA StopInv ==
  ASSUME IInv, machine' \in {"off", "panic"}, UNCHANGED <<pc, tableVars, fsVars>>
  PROVE  IInv' /\ MeaningKept
<1>1. NoFilesOutside'
  BY DEF tableVars, IInv, NoFilesOutside
<1>2. QED
  BY <1>1, FilesKept DEF fsVars, IInv, TypeOK

LEMMA ExitDoneInv == ASSUME IInv, NEW p \in Procs, ExitDone(p) PROVE IInv' /\ MeaningKept
<1>1. pc' \in [Procs -> {"unborn", "user", "exiting", "dead"}] /\ NoFilesOutside'
  BY DEF ExitDone, IInv, TypeOK, NoFilesOutside, tableVars
<1>2. QED
  BY <1>1, FilesKept DEF ExitDone, IInv, TypeOK, fsVars

LEMMA ExecInv == ASSUME IInv, NEW p \in Procs, NEW a, exec(p, a) PROVE IInv' /\ MeaningKept
<1>1. ASSUME NEW q \in Procs, pc' = [pc EXCEPT ![q] = "user"], UNCHANGED <<machine, tableVars, fsVars>>
      PROVE  IInv' /\ MeaningKept
  <2>1. pc' \in [Procs -> {"unborn", "user", "exiting", "dead"}] /\ NoFilesOutside'
    BY <1>1 DEF IInv, TypeOK, NoFilesOutside, tableVars
  <2>2. QED
    BY <1>1, <2>1, FilesKept DEF IInv, TypeOK, fsVars
<1>2. QED
  BY <1>1, KeepInv, ExitInv DEF exec, Keep

LEMMA RemoveInv ==
  ASSUME IInv, NEW p \in Procs, NEW a \in Pointers, remove(p, a) PROVE IInv' /\ MeaningKept
<1>1. ASSUME dir' = [dir EXCEPT ![NameAt[a]] = NULL], UNCHANGED <<machine, pc, tableVars, length, open_cnt>>
      PROVE  IInv' /\ MeaningKept
  <2>1. NoFilesOutside' /\ dir' \in [Names -> Inodes \cup {NULL}]
    BY <1>1 DEF IInv, TypeOK, NoFilesOutside, tableVars
  <2>2. QED
    BY <1>1, <2>1, FilesKept DEF IInv, TypeOK
<1>2. QED
  BY <1>1, KeepInv, StopInv DEF remove, Keep, Panic

(* The inode of a new file is referred to by no descriptor.                *)
LEMMA CreateInv ==
  ASSUME IInv, NEW p \in Procs, NEW a \in Pointers, NEW size \in Sizes, create(p, a, size)
  PROVE  IInv' /\ MeaningKept
<1>1. ASSUME NEW i \in FreeInodes, dir' = [dir EXCEPT ![NameAt[a]] = i],
             length' = [length EXCEPT ![i] = size],
             UNCHANGED <<machine, pc, tableVars, open_cnt>>
      PROVE  IInv' /\ MeaningKept
  <2> USE DEF tableVars
  <2>1. i \in Inodes /\ open_cnt[i] = 0 /\ size \in Nat
    BY SyscallAssumption DEF FreeInodes
  <2>2. References(i) = {}
    <3>1. Cardinality(References(i)) = 0
      BY <2>1 DEF IInv, CountsExact
    <3>2. QED
      BY <3>1, ReferencesFinite, FS_EmptySet
  <2>3. \A q \in Procs : \A e \in file_descriptors[q] : e.inode \in Inodes /\ e.inode # i
    <3> SUFFICES ASSUME NEW q \in Procs, NEW e \in file_descriptors[q] PROVE e.inode \in Inodes /\ e.inode # i
      OBVIOUS
    <3>1. e \in Entries
      BY DEF IInv, TypeOK
    <3>2. e.inode = i => <<q, e.fd>> \in References(i)
      BY <3>1 DEF References, Entries
    <3>3. QED
      BY <2>2, <3>1, <3>2 DEF Entries
  <2>4. TypeOK'
    BY <1>1, <2>1 DEF IInv, TypeOK
  <2>5. PosWithinFile'
    <3>1. \A q \in Procs : \A e \in file_descriptors[q] : length'[e.inode] = length[e.inode]
      BY <1>1, <2>3 DEF IInv, TypeOK
    <3>2. QED
      BY <1>1, <3>1 DEF IInv, PosWithinFile
  <2>6. OneEntry' /\ NoFilesOutside' /\ NumbersGiven' /\ MeaningKept
    BY <1>1 DEF IInv, OneEntry, NoFilesOutside, NumbersGiven, MeaningKept
  <2>7. CountsExact'
    BY <1>1 DEF IInv, CountsExact, References
  <2>8. QED
    BY <2>4, <2>5, <2>6, <2>7 DEF IInv
<1>2. QED
  BY <1>1, KeepInv, ExitInv DEF create, Keep

-----------------------------------------------------------------------------
(* open adds one reference, under a number that was never given before.    *)
LEMMA OpenStep ==
  ASSUME IInv, NEW p \in Procs, NEW i \in Inodes, NEW fd, User(p),
         fd = next_fd[p], fd < MAX_FDS,
         open_cnt' = [open_cnt EXCEPT ![i] = @ + 1],
         next_fd' = [next_fd EXCEPT ![p] = fd + 1],
         file_descriptors' = [file_descriptors EXCEPT ![p] =
           @ \cup {[fd |-> fd, inode |-> i, pos |-> 0]}],
         given' = [given EXCEPT ![p] = @ \cup {<<fd, i>>}],
         UNCHANGED <<machine, pc, dir, length>>
  PROVE  IInv' /\ MeaningKept
<1> DEFINE new == [fd |-> fd, inode |-> i, pos |-> 0]
<1>1. fd \in 2..(MAX_FDS - 1) /\ MAX_FDS \in Nat
  BY SyscallAssumption, SMTT(60) DEF IInv, TypeOK, NumbersGiven
<1>2. new \in Entries /\ <<fd, i>> \in (2..(MAX_FDS - 1)) \X Inodes
  BY <1>1 DEF Entries
<1>3. TypeOK'
  BY <1>1, <1>2, SMTT(60) DEF IInv, TypeOK
<1>4. /\ file_descriptors'[p] = file_descriptors[p] \cup {new}
      /\ given'[p] = given[p] \cup {<<fd, i>>} /\ next_fd'[p] = fd + 1
      /\ \A q \in Procs : q # p => /\ file_descriptors'[q] = file_descriptors[q]
                                   /\ given'[q] = given[q] /\ next_fd'[q] = next_fd[q]
  BY DEF IInv, TypeOK
<1>5. \A e \in file_descriptors[p] : e.fd # fd
  <2> SUFFICES ASSUME NEW e \in file_descriptors[p] PROVE e.fd # fd
    OBVIOUS
  <2>1. e.fd \in Int
    BY SMTT(60) DEF IInv, TypeOK, Entries
  <2>2. e.fd < fd
    BY DEF IInv, NumbersGiven
  <2>3. QED
    BY <1>1, <2>1, <2>2, SMTT(60)
<1>6. PosWithinFile'
  BY <1>1, <1>4, SMTT(60) DEF IInv, PosWithinFile, TypeOK
<1>7. OneEntry' /\ MeaningKept
  BY <1>1, <1>4, <1>5, SMTT(60) DEF IInv, OneEntry, MeaningKept, NumbersGiven
<1>8. NoFilesOutside'
  BY <1>4 DEF IInv, NoFilesOutside, User
<1>9. NumbersGiven'
  BY <1>1, <1>4, SMTT(60) DEF IInv, NumbersGiven, TypeOK, Entries
<1>10. CountsExact'
  <2>1. References(i)' = References(i) \cup {<<p, fd>>} /\ <<p, fd>> \notin References(i)
    <3>1. <<p, fd>> \notin References(i)
      BY <1>5 DEF References
    <3>2. <<p, fd>> \in References(i)'
      <4>1. new \in file_descriptors'[p] /\ new.fd = fd /\ new.inode = i
        BY <1>4
      <4> HIDE DEF new
      <4>2. QED
        BY <1>1, <4>1 DEF References
    <3>3. ASSUME NEW r \in Procs \X (2..(MAX_FDS - 1)), r # <<p, fd>>
          PROVE  (\E f \in file_descriptors'[r[1]] : f.fd = r[2] /\ f.inode = i)
                   <=> \E f \in file_descriptors[r[1]] : f.fd = r[2] /\ f.inode = i
      <4>1. r[1] # p \/ r[2] # fd
        BY <3>3, SMTT(60)
      <4>2. QED
        BY <1>4, <4>1, SMTT(60)
    <3>4. QED
      BY <3>1, <3>2, <3>3, SMTT(60) DEF References
  <2>2. \A j \in Inodes : j # i => References(j)' = References(j)
    BY <1>1, <1>4, <1>5, SMTT(60) DEF References
  <2>3. Cardinality(References(i)') = Cardinality(References(i)) + 1
    BY <2>1, ReferencesFinite, FS_AddElement
  <2>4. QED
    BY <2>2, <2>3 DEF IInv, CountsExact, TypeOK
<1>11. QED
  BY <1>3, <1>6, <1>7, <1>8, <1>9, <1>10 DEF IInv

LEMMA OpenInv ==
  ASSUME IInv, NEW p \in Procs, NEW a \in Pointers, User(p), open(p, a)
  PROVE  IInv' /\ MeaningKept
<1> DEFINE i == dir[NameAt[a]]
           fd == next_fd[p]
<1>1. ~validate_string(a) => exit(p)
  BY DEF open
<1>2. fd >= MAX_FDS /\ validate_string(a) => UNCHANGED vars
  BY DEF open, Keep
<1>3. CASE validate_string(a) /\ ~(fd >= MAX_FDS)
  <2>1. i # NULL => i \in Inodes
    BY SyscallAssumption DEF IInv, TypeOK
  <2>2. fd < MAX_FDS
    BY <1>3, SyscallAssumption, SMTT(60) DEF IInv, TypeOK
  <2>3. \/ UNCHANGED vars
        \/ Panic
        \/ /\ i # NULL
           /\ open_cnt' = [open_cnt EXCEPT ![i] = @ + 1]
           /\ next_fd' = [next_fd EXCEPT ![p] = fd + 1]
           /\ file_descriptors' = [file_descriptors EXCEPT ![p] =
                @ \cup {[fd |-> fd, inode |-> i, pos |-> 0]}]
           /\ given' = [given EXCEPT ![p] = @ \cup {<<fd, i>>}]
           /\ UNCHANGED <<machine, pc, dir, length>>
    BY <1>3 DEF open, Keep
  <2> HIDE DEF i, fd
  <2>4. QED
    BY <2>1, <2>2, <2>3, KeepInv, StopInv, OpenStep DEF Panic, fd
<1>4. QED
  BY <1>1, <1>2, <1>3, ExitInv, KeepInv

(* close and process_exit take one away.                                   *)
LEMMA CloseInv ==
  ASSUME IInv, NEW p \in Procs, NEW e \in file_descriptors[p], file_close(e),
         file_descriptors' = [file_descriptors EXCEPT ![p] = @ \ {e}],
         UNCHANGED <<machine, pc, next_fd, dir, length, given>>
  PROVE  IInv' /\ MeaningKept
<1> DEFINE i == e.inode
<1>1. e \in Entries /\ i \in Inodes /\ e.fd \in 2..(MAX_FDS - 1)
  BY SMTT(60) DEF IInv, TypeOK, Entries
<1>2. /\ file_descriptors'[p] = file_descriptors[p] \ {e}
      /\ \A q \in Procs : q # p => file_descriptors'[q] = file_descriptors[q]
  BY DEF IInv, TypeOK
<1>3. References(i)' = References(i) \ {<<p, e.fd>>} /\ <<p, e.fd>> \in References(i)
  BY <1>1, <1>2, SMTT(60) DEF References, IInv, OneEntry
<1>4. \A j \in Inodes : j # i => References(j)' = References(j)
  BY <1>1, <1>2 DEF References, IInv, OneEntry
<1>5. /\ Cardinality(References(i)') = Cardinality(References(i)) - 1
      /\ Cardinality(References(i)) \in Nat /\ Cardinality(References(i)) # 0
  BY <1>3, ReferencesFinite, FS_RemoveElement, FS_CardinalityType, FS_EmptySet
<1>6. open_cnt[i] - 1 \in Nat
  BY <1>1, <1>5, SMTT(60) DEF IInv, CountsExact
<1>7. TypeOK'
  BY <1>1, <1>2, <1>6 DEF IInv, TypeOK, file_close
<1>8. CountsExact'
  BY <1>1, <1>4, <1>5 DEF IInv, CountsExact, TypeOK, file_close
<1>9. PosWithinFile' /\ OneEntry' /\ NoFilesOutside' /\ NumbersGiven' /\ MeaningKept
  BY <1>2, SMTT(60) DEF IInv, PosWithinFile, OneEntry, NoFilesOutside, NumbersGiven, MeaningKept
<1>10. QED
  BY <1>7, <1>8, <1>9 DEF IInv

(* read, write and seek move a position within the file.                   *)
LEMMA SeekInv ==
  ASSUME IInv, NEW p \in Procs, NEW e \in file_descriptors[p],
         NEW pos \in 0..length[e.inode], file_seek(p, e, pos)
  PROVE  IInv' /\ MeaningKept
<1> DEFINE new == [fd |-> e.fd, inode |-> e.inode, pos |-> pos]
<1>1. e \in Entries /\ length[e.inode] \in Nat
  BY SMTT(60) DEF IInv, TypeOK, Entries
<1>2. new \in Entries
  BY <1>1, SMTT(60) DEF Entries
<1>3. /\ file_descriptors'[p] = (file_descriptors[p] \ {e}) \cup {new}
      /\ \A q \in Procs : q # p => file_descriptors'[q] = file_descriptors[q]
  BY DEF IInv, TypeOK, file_seek
<1>4. TypeOK'
  BY <1>2, <1>3 DEF IInv, TypeOK, file_seek, fsVars
<1>5. CountsExact'
  <2>1. \A j \in Inodes : References(j)' = References(j)
    <3> SUFFICES ASSUME NEW j \in Inodes, NEW r \in Procs \X (2..(MAX_FDS - 1))
                 PROVE  (\E f \in file_descriptors'[r[1]] : f.fd = r[2] /\ f.inode = j)
                          <=> \E f \in file_descriptors[r[1]] : f.fd = r[2] /\ f.inode = j
      BY DEF References
    <3>1. CASE r[1] # p
      BY <1>3, <3>1
    <3>2. CASE r[1] = p
      <4>1. new.fd = e.fd /\ new.inode = e.inode
        OBVIOUS
      <4> HIDE DEF new
      <4>2. QED
        BY <1>3, <3>2, <4>1, SMTT(60)
    <3>3. QED
      BY <3>1, <3>2
  <2>2. QED
    BY <2>1 DEF IInv, CountsExact, file_seek, fsVars
<1>6. PosWithinFile'
  BY <1>1, <1>3, SMTT(60) DEF IInv, PosWithinFile, file_seek, fsVars
<1>7. OneEntry' /\ NoFilesOutside'
  BY <1>3, SMTT(60) DEF IInv, OneEntry, NoFilesOutside, file_seek
<1>8. NumbersGiven' /\ MeaningKept
  BY <1>3, SMTT(60) DEF IInv, NumbersGiven, MeaningKept, file_seek
<1>9. QED
  BY <1>4, <1>5, <1>6, <1>7, <1>8 DEF IInv

LEMMA TransferInv ==
  ASSUME IInv, NEW p \in Procs, NEW e \in file_descriptors[p], NEW size \in Counts,
         NEW n \in Transferred(e, size), file_seek(p, e, e.pos + n)
  PROVE  IInv' /\ MeaningKept
<1>1. length[e.inode] \in Nat /\ e.pos \in 0..length[e.inode]
  BY SMTT(60) DEF IInv, PosWithinFile, TypeOK, Entries
<1>2. size \in Nat
  BY SyscallAssumption
<1>3. e.pos + n \in 0..length[e.inode]
  BY <1>1, <1>2, SMTT(60) DEF Transferred
<1>4. QED
  BY <1>3, SeekInv

LEMMA HandlerInv ==
  ASSUME IInv, NEW p \in Procs, User(p), NEW esp \in Stacks, syscall_handler(p, esp)
  PROVE  IInv' /\ MeaningKept
<1>1. ASSUME NEW a \in Pointers, exec(p, a) \/ open(p, a) \/ remove(p, a)
      PROVE  IInv' /\ MeaningKept
  BY <1>1, ExecInv, OpenInv, RemoveInv
<1>2. ASSUME NEW fd \in Fds, close(p, fd) PROVE IInv' /\ MeaningKept
  BY <1>2, KeepInv, CloseInv DEF close, Keep, get_file
<1>3. ASSUME NEW a \in Pointers, NEW size \in Sizes, create(p, a, size) PROVE IInv' /\ MeaningKept
  BY <1>3, CreateInv
<1>4. ASSUME NEW fd \in Fds, NEW position \in Counts, seek(p, fd, position) PROVE IInv' /\ MeaningKept
  <2>1. ASSUME NEW e \in file_descriptors[p], ~(position > length[e.inode]), file_seek(p, e, position)
        PROVE  IInv' /\ MeaningKept
    <3>1. length[e.inode] \in Nat /\ position \in Nat
      BY SyscallAssumption, SMTT(60) DEF IInv, TypeOK, Entries
    <3>2. position \in 0..length[e.inode]
      BY <2>1, <3>1, SMTT(60)
    <3>3. QED
      BY <2>1, <3>2, SeekInv
  <2>2. QED
    BY <1>4, <2>1, KeepInv, StopInv DEF seek, Keep, Panic, get_file
<1>5. ASSUME NEW fd \in Fds, NEW a \in Pointers, NEW size \in Counts,
             read(p, fd, a, size) \/ write(p, fd, a, size)
      PROVE  IInv' /\ MeaningKept
  <2>1. CASE read(p, fd, a, size)
    BY <2>1, ExitInv, KeepInv, StopInv, TransferInv DEF read, Keep, Panic, get_file
  <2>2. CASE write(p, fd, a, size)
    BY <2>2, ExitInv, KeepInv, TransferInv DEF write, Keep, get_file
  <2>3. QED
    BY <1>5, <2>1, <2>2
<1>6. halt => IInv' /\ MeaningKept
  BY StopInv DEF halt
<1>7. QED
  BY <1>1, <1>2, <1>3, <1>4, <1>5, <1>6, ExitInv DEF syscall_handler, Call

-----------------------------------------------------------------------------
LEMMA InitInv == Init => IInv
<1> SUFFICES ASSUME Init PROVE IInv
  OBVIOUS
<1>1. TypeOK /\ PosWithinFile /\ OneEntry /\ NoFilesOutside /\ NumbersGiven
  BY SyscallAssumption, SMTT(60) DEF Init, TypeOK, PosWithinFile, OneEntry, NoFilesOutside,
     NumbersGiven
<1>2. CountsExact
  <2>1. \A i \in Inodes : References(i) = {}
    BY DEF Init, References
  <2>2. QED
    BY <2>1, FS_EmptySet DEF Init, CountsExact
<1>3. QED
  BY <1>1, <1>2 DEF IInv

LEMMA StepInv == IInv /\ [Next]_vars => IInv' /\ MeaningKept
<1> SUFFICES ASSUME IInv, [Next]_vars PROVE IInv' /\ MeaningKept
  OBVIOUS
<1>1. ASSUME NEW p \in Procs, ExitClose(p) PROVE IInv' /\ MeaningKept
  BY <1>1, CloseInv DEF ExitClose
<1>2. QED
  BY <1>1, HandlerInv, ExitDoneInv, KeepInv DEF Next

(* inode.h, open_cnt, and process_exit, "Close all open files": for any    *)
(* number of processes and files, inodes are open exactly as often as      *)
(* descriptors refer to them, and positions stay within their files.       *)
THEOREM SpecDescriptorsExact == Spec => []DescriptorsExact
<1>1. IInv => DescriptorsExact
  BY DEF IInv, DescriptorsExact, CountsExact, OneEntry, NoFilesOutside
<1>2. QED
  BY <1>1, InitInv, StepInv, PTL DEF Spec

(* syscall.c open: the number of a closed descriptor never comes to mean   *)
(* another file, whatever a process opens and closes.                      *)
THEOREM SpecFdMeansOneFile == Spec => FdMeansOneFile
<1>1. IInv /\ [Next]_vars => [MeaningKept]_vars
  BY StepInv
<1>2. QED
  BY <1>1, InitInv, StepInv, PTL DEF Spec, FdMeansOneFile, MeaningKept
=============================================================================
