------------------------------- MODULE Syscall -------------------------------
(***************************************************************************)
(* System calls of userprog/syscall.c on files: the checks of user memory, *)
(* the table of file descriptors of each process, the positions that       *)
(* filesys/file.c keeps, and the closing of files when a process exits.    *)
(*                                                                         *)
(* A call of the file system is one step: modules FileSys and Inode look   *)
(* inside.  The entries of a descriptor list are a set; a search takes any *)
(* entry with the number it looks for.  User memory is the same for every  *)
(* process: which addresses are mapped, which are writable, and where      *)
(* strings end.                                                            *)
(***************************************************************************)
EXTENDS Integers, FiniteSets

CONSTANTS
  Procs,
  First,          \* the process that runs first
  Names,          \* file names
  Inodes,         \* the inodes a disk has room for
  Sizes,          \* the lengths files are created with
  MAX_FDS,
  Mapped,         \* mapped user addresses
  Writable,       \* those that are mapped for writing
  PHYS_BASE,      \* kernel addresses start here
  Nul,            \* the addresses that hold a null byte
  NameAt,         \* the file name that the string at an address spells
  Pointers,       \* the addresses that programs pass
  Stacks,         \* their stack pointers
  Counts,         \* the sizes and positions that programs pass
  NoMemory,       \* whether allocations in the kernel may fail
  NULL

ASSUME SyscallAssumption ==
  /\ First \in Procs
  /\ Sizes \subseteq Nat /\ Counts \subseteq Nat
  /\ MAX_FDS \in Nat
  /\ Mapped \subseteq Nat /\ Writable \subseteq Mapped /\ Nul \subseteq Nat
  /\ Pointers \subseteq Nat /\ Stacks \subseteq Nat /\ PHYS_BASE \in Nat
  /\ NameAt \in [Pointers -> Names]
  /\ NoMemory \in BOOLEAN
  /\ NULL \notin Inodes
  /\ IsFiniteSet(Procs)

VARIABLES
  machine,           \* "up", "off" or "panic"
  pc,                \* "unborn", "user", "exiting" or "dead"
  file_descriptors,  \* thread.file_descriptors: entries with their struct file
  next_fd,
  dir,               \* the inode of each name, or NULL
  length,            \* inode_length
  open_cnt,          \* inode.open_cnt
  given              \* history: what open returned to each process, and for which inode

vars == <<machine, pc, file_descriptors, next_fd, dir, length, open_cnt, given>>

fsVars == <<dir, length, open_cnt>>
tableVars == <<file_descriptors, next_fd, given>>

(* init_thread: 0 and 1 are the console.                                   *)
Init ==
  /\ machine = "up"
  /\ pc = [p \in Procs |-> IF p = First THEN "user" ELSE "unborn"]
  /\ file_descriptors = [p \in Procs |-> {}]
  /\ next_fd = [p \in Procs |-> 2]
  /\ dir = [n \in Names |-> NULL]
  /\ length = [i \in Inodes |-> 0]
  /\ open_cnt = [i \in Inodes |-> 0]
  /\ given = [p \in Procs |-> {}]

User(p) == machine = "up" /\ pc[p] = "user"

Keep == UNCHANGED vars

-----------------------------------------------------------------------------
(* The checks of user memory.                                              *)

validate_pointer(a) == a # 0 /\ a < PHYS_BASE /\ a \in Mapped

validate_buffer(a, size) == \A i \in 0..(size - 1) : validate_pointer(a + i)

validate_string(a) ==
  \E n \in 0..PHYS_BASE : a + n \in Nul /\ \A i \in 0..n : validate_pointer(a + i)

WORD == 4

(* retrive_args1: argc arguments lie above the system call number.         *)
validate_set_args(esp, argc) == validate_buffer(esp + WORD, argc * WORD)

(* A failed assertion, or a page fault in the kernel (exception.c, kill).  *)
Panic == machine' = "panic" /\ UNCHANGED <<pc, tableVars, fsVars>>

(* The kernel writes the bytes from a to b: it panics where it may not.    *)
KernelStores(a, b) == a..b \subseteq Writable

-----------------------------------------------------------------------------
(* exit, from the system call or because a check failed, and what          *)
(* process_exit does with the files.                                       *)

exit(p) ==
  /\ pc' = [pc EXCEPT ![p] = "exiting"]
  /\ UNCHANGED <<machine, tableVars, fsVars>>

file_close(e) == open_cnt' = [open_cnt EXCEPT ![e.inode] = @ - 1]

ExitClose(p) ==
  /\ machine = "up" /\ pc[p] = "exiting"
  /\ \E e \in file_descriptors[p] :
       /\ file_close(e)
       /\ file_descriptors' = [file_descriptors EXCEPT ![p] = @ \ {e}]
  /\ UNCHANGED <<machine, pc, next_fd, dir, length, given>>

ExitDone(p) ==
  /\ machine = "up" /\ pc[p] = "exiting"
  /\ file_descriptors[p] = {}
  /\ pc' = [pc EXCEPT ![p] = "dead"]
  /\ UNCHANGED <<machine, tableVars, fsVars>>

-----------------------------------------------------------------------------
(* The handlers.                                                           *)

halt == machine' = "off" /\ UNCHANGED <<pc, tableVars, fsVars>>

(* process_execute makes a process without files, or fails (see Process).  *)
exec(p, a) ==
  IF validate_string(a)
  THEN \/ Keep
       \/ \E q \in Procs : /\ pc[q] = "unborn"
                           /\ pc' = [pc EXCEPT ![q] = "user"]
                           /\ UNCHANGED <<machine, tableVars, fsVars>>
  ELSE exit(p)

(* An inode is free when no name leads to it and nobody has it open.       *)
FreeInodes == {i \in Inodes : open_cnt[i] = 0 /\ \A n \in Names : dir[n] # i}

create(p, a, size) ==
  IF validate_string(a)
  THEN \/ Keep
       \/ \E i \in FreeInodes :
            /\ dir[NameAt[a]] = NULL
            /\ dir' = [dir EXCEPT ![NameAt[a]] = i]
            /\ length' = [length EXCEPT ![i] = size]
            /\ UNCHANGED <<machine, pc, tableVars, open_cnt>>
  ELSE exit(p)

(* The name is not checked: the kernel faults on a bad one, unless it      *)
(* finds in time that no file is called that.                              *)
remove(p, a) ==
  IF validate_string(a)
  THEN \/ NoMemory /\ Keep
       \/ /\ dir' = [dir EXCEPT ![NameAt[a]] = NULL]
          /\ UNCHANGED <<machine, pc, tableVars, length, open_cnt>>
  ELSE Panic \/ Keep

(* Fault: the number of a new descriptor is that of the last one again.    *)
openReuses(p, a) ==
  /\ validate_string(a)
  /\ LET i == dir[NameAt[a]]
         fd == 2 + Cardinality(file_descriptors[p])
     IN /\ fd < MAX_FDS /\ i # NULL
        /\ open_cnt' = [open_cnt EXCEPT ![i] = @ + 1]
        /\ file_descriptors' = [file_descriptors EXCEPT ![p] =
             @ \cup {[fd |-> fd, inode |-> i, pos |-> 0]}]
        /\ given' = [given EXCEPT ![p] = @ \cup {<<fd, i>>}]
        /\ UNCHANGED <<machine, pc, next_fd, dir, length>>

(* A null fd_entry is written to without a check.                          *)
open(p, a) ==
  LET i == dir[NameAt[a]]
      fd == next_fd[p]
  IN IF ~validate_string(a) THEN exit(p)
     ELSE IF fd >= MAX_FDS
     THEN Keep
     ELSE \/ (i = NULL \/ NoMemory) /\ Keep
          \/ i # NULL /\ NoMemory /\ Panic
          \/ /\ i # NULL
             /\ open_cnt' = [open_cnt EXCEPT ![i] = @ + 1]
             /\ next_fd' = [next_fd EXCEPT ![p] = fd + 1]
             /\ file_descriptors' = [file_descriptors EXCEPT ![p] =
                  @ \cup {[fd |-> fd, inode |-> i, pos |-> 0]}]
             /\ given' = [given EXCEPT ![p] = @ \cup {<<fd, i>>}]
             /\ UNCHANGED <<machine, pc, dir, length>>

(* The entries that get_file and close find.                               *)
get_file(p, fd) == {e \in file_descriptors[p] : fd >= 2 /\ fd < MAX_FDS /\ e.fd = fd}

(* Fault: the descriptor goes but the inode stays open.                    *)
closeKeeps(p, fd) ==
  \E e \in get_file(p, fd) :
    /\ file_descriptors' = [file_descriptors EXCEPT ![p] = @ \ {e}]
    /\ UNCHANGED <<machine, pc, next_fd, given, fsVars>>

close(p, fd) ==
  \/ get_file(p, fd) = {} /\ Keep
  \/ \E e \in get_file(p, fd) :
       /\ file_close(e)
       /\ file_descriptors' = [file_descriptors EXCEPT ![p] = @ \ {e}]
       /\ UNCHANGED <<machine, pc, next_fd, dir, length, given>>

(* file->pos = pos, for the file of entry e.                               *)
file_seek(p, e, pos) ==
  /\ file_descriptors' = [file_descriptors EXCEPT ![p] =
       (@ \ {e}) \cup {[fd |-> e.fd, inode |-> e.inode, pos |-> pos]}]
  /\ UNCHANGED <<machine, pc, next_fd, given, fsVars>>

(* inode_read_at and inode_write_at stop at the end of the file, or        *)
(* earlier when there is no memory for a bounce buffer (see Inode).        *)
Transferred(e, size) ==
  LET left == length[e.inode] - e.pos
      most == IF size < left THEN size ELSE left
  IN IF NoMemory THEN 0..most ELSE {most}

(* Characters from the console are stored as an int each.                  *)
read(p, fd, a, size) ==
  IF ~validate_buffer(a, size) THEN exit(p)
  ELSE IF fd = 0
  THEN IF size > 0 /\ ~KernelStores(a, a + size - 1 + WORD - 1) THEN Panic ELSE Keep
  ELSE \/ get_file(p, fd) = {} /\ Keep
       \/ \E e \in get_file(p, fd) : \E n \in Transferred(e, size) :
            IF KernelStores(a, a + n - 1) THEN file_seek(p, e, e.pos + n) ELSE Panic

write(p, fd, a, size) ==
  IF ~validate_buffer(a, size) THEN exit(p)
  ELSE IF fd = 1 THEN Keep
  ELSE \/ get_file(p, fd) = {} /\ Keep
       \/ \E e \in get_file(p, fd) : \E n \in Transferred(e, size) :
            file_seek(p, e, e.pos + n)

(* A descriptor that is not open fails the assertion.                      *)
seek(p, fd, position) ==
  \/ get_file(p, fd) = {} /\ Panic
  \/ \E e \in get_file(p, fd) :
       IF position > length[e.inode] THEN Keep ELSE file_seek(p, e, position)

-----------------------------------------------------------------------------
(* syscall_handler.  A number it does not know, like a bad pointer, ends   *)
(* in exit.  wait and sleep change nothing here: they are the subject of   *)
(* Process and Timer.  filesize and tell only return a value.              *)

Fds == 0..MAX_FDS

Call(p, esp, argc, Handler) == IF validate_set_args(esp, argc) THEN Handler ELSE exit(p)

syscall_handler(p, esp) ==
  IF ~validate_buffer(esp, WORD) THEN exit(p)
  ELSE \/ halt
       \/ exit(p)
       \/ Call(p, esp, 1, \E a \in Pointers : exec(p, a) \/ open(p, a) \/ remove(p, a))
       \/ Call(p, esp, 1, \E fd \in Fds : close(p, fd))
       \/ Call(p, esp, 2, \E a \in Pointers, size \in Sizes : create(p, a, size))
       \/ Call(p, esp, 2, \E fd \in Fds, position \in Counts : seek(p, fd, position))
       \/ Call(p, esp, 3, \E fd \in Fds, a \in Pointers, size \in Counts :
                            read(p, fd, a, size) \/ write(p, fd, a, size))

Next ==
  \E p \in Procs :
    \/ User(p) /\ \E esp \in Stacks : syscall_handler(p, esp)
    \/ ExitClose(p)
    \/ ExitDone(p)

Spec == Init /\ [][Next]_vars

-----------------------------------------------------------------------------
Entries == [fd : 2..(MAX_FDS - 1), inode : Inodes, pos : Nat]

TypeOK ==
  /\ machine \in {"up", "off", "panic"}
  /\ pc \in [Procs -> {"unborn", "user", "exiting", "dead"}]
  /\ file_descriptors \in [Procs -> SUBSET Entries]
  /\ next_fd \in [Procs -> Nat]
  /\ dir \in [Names -> Inodes \cup {NULL}]
  /\ length \in [Inodes -> Nat]
  /\ open_cnt \in [Inodes -> Nat]
  /\ given \in [Procs -> SUBSET ((2..(MAX_FDS - 1)) \X Inodes)]

(* The descriptors that refer to an inode.                                 *)
References(i) ==
  {r \in Procs \X (2..(MAX_FDS - 1)) :
     \E e \in file_descriptors[r[1]] : e.fd = r[2] /\ e.inode = i}

(* The position of an open file never leaves the file: seek refuses        *)
(* positions past the end, reads and writes stop there, and the inode of   *)
(* an open file is not made into another, shorter file.                    *)
PosWithinFile ==
  \A p \in Procs : \A e \in file_descriptors[p] : e.pos \in 0..length[e.inode]

(* inode.h, open_cnt, and process_exit, "Close all open files": an inode   *)
(* is open exactly as often as descriptors refer to it, across open,       *)
(* close, exit and removal, and a number stands for one file of a process. *)
DescriptorsExact ==
  /\ TypeOK /\ PosWithinFile
  /\ \A i \in Inodes : open_cnt[i] = Cardinality(References(i))
  /\ \A p \in Procs : \A e, f \in file_descriptors[p] : e.fd = f.fd => e = f
  /\ \A p \in Procs : pc[p] \in {"unborn", "dead"} => file_descriptors[p] = {}

(* examples/lab2test.c, "reading from a closed file must fail": the number *)
(* of a closed descriptor never comes to mean another file, because open   *)
(* gives each number to a process once.                                    *)
FdMeansOneFile ==
  [][\A p \in Procs : \A e \in file_descriptors'[p] :
       (\E g \in given[p] : g[1] = e.fd) => \E f \in file_descriptors[p] :
                                               f.fd = e.fd /\ f.inode = e.inode]_vars
=============================================================================
