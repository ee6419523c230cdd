-------------------------------- MODULE Load --------------------------------
(***************************************************************************)
(* The address space of a process, from start_process to process_exit      *)
(* (userprog/process.c): load() reads an executable into pages of the user *)
(* pool, installs them in a new page directory, sets up the stack; exit    *)
(* tears the directory down again.  Processes share the two pools of pages *)
(* and the processor, whose page directory register follows every switch   *)
(* of threads.                                                             *)
(***************************************************************************)
EXTENDS Pagedir, Sequences

CONSTANTS
  Procs,         \* processes
  Exes,          \* the executables that a process may be started from
  ADDR_BITS,     \* width of an address and of the numbers in a header
  KernelFrames,  \* pages of the kernel pool that processes may use
  UserFrames     \* pages of the user pool

KERNEL == "kernel"        \* a thread without a process, e.g. idle
Wrap(n) == n % 2^ADDR_BITS
ZERO == -1                \* a zeroed byte; the byte at offset k of the file is k
JUNK == -2                \* a byte of a free page: palloc_free_multiple clears pages
Offsets == 0..(PGSIZE - 1)

VARIABLES
  running,    \* the thread on the processor
  cr3,        \* the active page directory: its page, 0 for init_page_dir
  kfree,      \* free pages of the kernel pool
  ufree,      \* free pages of the user pool
  content,    \* bytes of each page of the user pool
  pagedir,    \* t->pagedir: page of the process's directory, 0 for none
  pds,        \* the directory of a process, meaningful while it has one
  proc,       \* where the process is in start_process, load and exit
  panicked    \* an assertion failed

loadVars == <<running, cr3, kfree, ufree, content, pagedir, pds, proc, panicked>>

(* What load finds when the file does not exist.                           *)
NoExe == [header |-> FALSE, len |-> 0, phdrs |-> <<>>]
NotStarted == [pc |-> "new", exe |-> NoExe, i |-> 1, read |-> 0, zero |-> 0, upage |-> 0,
               ofs |-> 0, held |-> 0, argv |-> 0, dying |-> 0, ok |-> FALSE]

LoadInit ==
  /\ running = KERNEL /\ cr3 = 0
  /\ kfree = KernelFrames /\ ufree = UserFrames
  /\ content = [f \in UserFrames |-> [o \in Offsets |-> JUNK]]
  /\ pagedir = [p \in Procs |-> 0]
  /\ pds = [p \in Procs |-> NewDirectory]
  /\ proc = [p \in Procs |-> NotStarted]
  /\ panicked = FALSE

Lowest(S) == IF S = {} THEN 0 ELSE CHOOSE f \in S : \A g \in S : f <= g
At(p, pc) == running = p /\ proc[p].pc = pc /\ ~panicked

-----------------------------------------------------------------------------
(* A switch at any time: process_activate for the next thread.             *)
process_activate(t) == cr3' = IF t \in Procs THEN pagedir[t] ELSE 0

Switch ==
  /\ ~panicked
  /\ \E t \in Procs \cup {KERNEL} :
       t # running /\ (t \in Procs => proc[t].pc # "dead") /\ running' = t /\ process_activate(t)
  /\ UNCHANGED <<kfree, ufree, content, pagedir, pds, proc, panicked>>

(* start_process: a page for argv (see Process for the case without one),  *)
(* and then pagedir_create.                                                *)
StartArgv(p) ==
  /\ At(p, "new") /\ kfree # {}
  /\ proc' = [proc EXCEPT ![p].pc = "create", ![p].argv = Lowest(kfree)]
  /\ kfree' = kfree \ {Lowest(kfree)}
  /\ UNCHANGED <<running, cr3, ufree, content, pagedir, pds, panicked>>

CreateDirectory(p) ==
  /\ At(p, "create")
  /\ pagedir' = [pagedir EXCEPT ![p] = Lowest(kfree)]
  /\ pds' = [pds EXCEPT ![p] = NewDirectory]
  /\ kfree' = kfree \ {Lowest(kfree)}
  /\ proc' = [proc EXCEPT ![p].pc = IF kfree = {} THEN "done" ELSE "activate"]
  /\ UNCHANGED <<running, cr3, ufree, content, panicked>>

(* process_activate, filesys_open and the check of the file header.        *)
OpenExecutable(p) ==
  /\ At(p, "activate")
  /\ process_activate(p)
  /\ \E e \in Exes[p] \cup {NoExe} :
       proc' = [proc EXCEPT ![p].exe = e, ![p].pc = IF e.header THEN "headers" ELSE "done"]
  /\ UNCHANGED <<running, kfree, ufree, content, pagedir, pds, panicked>>

(* Fault: the end of the segment is only compared with the end of user     *)
(* memory.                                                                 *)
validate_segmentNoWrap(ph, len) ==
  /\ pg_ofs(ph.offset) = pg_ofs(ph.vaddr)
  /\ ph.offset <= len
  /\ ph.memsz >= ph.filesz /\ ph.memsz # 0
  /\ is_user_vaddr(ph.vaddr)
  /\ is_user_vaddr(Wrap(ph.vaddr + ph.memsz))
  /\ ph.vaddr >= PGSIZE

validate_segment(ph, len) ==
  /\ pg_ofs(ph.offset) = pg_ofs(ph.vaddr)
  /\ ph.offset <= len
  /\ ph.memsz >= ph.filesz /\ ph.memsz # 0
  /\ is_user_vaddr(ph.vaddr)
  /\ is_user_vaddr(Wrap(ph.vaddr + ph.memsz))
  /\ Wrap(ph.vaddr + ph.memsz) >= ph.vaddr
  /\ ph.vaddr >= PGSIZE

(* One round of the loop over program headers.                             *)
ReadHeader(p) ==
  LET x == proc[p]
      ph == x.exe.phdrs[x.i]
      span == Wrap(pg_round_up(Wrap(pg_ofs(ph.vaddr) + ph.memsz)))
      read == IF ph.filesz > 0 THEN Wrap(pg_ofs(ph.vaddr) + ph.filesz) ELSE 0
  IN /\ At(p, "headers")
     /\ proc' = [proc EXCEPT ![p] =
          IF x.i > Len(x.exe.phdrs) THEN [x EXCEPT !.pc = "stack"]
          ELSE IF ph.type = "ignored" THEN [x EXCEPT !.i = @ + 1]
          ELSE IF ph.type = "refused" \/ ~validate_segment(ph, x.exe.len) THEN [x EXCEPT !.pc = "done"]
          ELSE [x EXCEPT !.pc = "segment", !.upage = pg_no(ph.vaddr), !.ofs = pg_round_down(ph.offset),
                         !.read = read, !.zero = Wrap(span - read)]]
     /\ UNCHANGED <<running, cr3, kfree, ufree, content, pagedir, pds, panicked>>

(* load_segment: a page from the user pool for the next page of the        *)
(* segment, or its end.                                                    *)
SegmentPage(p) ==
  LET x == proc[p]
      finished == x.read = 0 /\ x.zero = 0
      got == IF finished THEN 0 ELSE Lowest(ufree)
  IN /\ At(p, "segment")
     /\ proc' = [proc EXCEPT ![p] =
          IF finished THEN [x EXCEPT !.pc = "headers", !.i = @ + 1]
          ELSE IF got = 0 THEN [x EXCEPT !.pc = "done"]
          ELSE [x EXCEPT !.pc = "fill", !.held = got]]
     /\ ufree' = ufree \ {got}
     /\ UNCHANGED <<running, cr3, kfree, content, pagedir, pds, panicked>>

(* install_page: nothing may be mapped there, and a page table is made if  *)
(* there is none and the kernel pool has a page.  upage is a user page.    *)
NeedsTable(p, upage) == ~HasEntry(pds[p], upage)

MayInstall(p, upage) ==
  pagedir_get_page(pds[p], upage) = 0 /\ (NeedsTable(p, upage) => kfree # {})

install_page(p, upage, frame, bytes, writable) ==
  IF MayInstall(p, upage)
  THEN /\ content' = [content EXCEPT ![frame] = bytes]
       /\ pds' = [pds EXCEPT ![p] = pagedir_set_page(@, upage, frame, writable, Lowest(kfree))]
       /\ kfree' = IF NeedsTable(p, upage) THEN kfree \ {Lowest(kfree)} ELSE kfree
       /\ UNCHANGED ufree
  ELSE UNCHANGED <<content, pds, kfree>> /\ ufree' = ufree \cup {frame}

(* The rest of the loop body: the bytes of the file, zeroes, the mapping.  *)
FillPage(p) ==
  LET x == proc[p]
      n == IF x.read < PGSIZE THEN x.read ELSE PGSIZE
      short == x.ofs + n > x.exe.len /\ n > 0
      bytes == [o \in Offsets |-> IF o < n THEN x.ofs + o ELSE ZERO]
      advanced == [x EXCEPT !.pc = "segment", !.held = 0, !.read = @ - n,
                            !.zero = Wrap(@ - (PGSIZE - n)), !.upage = @ + 1, !.ofs = @ + n]
  IN /\ At(p, "fill")
     /\ IF short
        THEN /\ ufree' = ufree \cup {x.held}
             /\ proc' = [proc EXCEPT ![p].pc = "done", ![p].held = 0]
             /\ UNCHANGED <<content, pds, kfree, panicked>>
        ELSE IF x.upage >= USER_PAGES
        THEN panicked' = TRUE /\ UNCHANGED <<content, pds, kfree, ufree, proc>>
        ELSE /\ install_page(p, x.upage, x.held, bytes, x.exe.phdrs[x.i].w)
             /\ proc' = [proc EXCEPT ![p] = IF MayInstall(p, x.upage) THEN advanced
                                            ELSE [x EXCEPT !.pc = "done", !.held = 0]]
             /\ UNCHANGED panicked
     /\ UNCHANGED <<running, cr3, pagedir>>

setup_stack(p) ==
  LET frame == Lowest(ufree)
      top == USER_PAGES - 1
      good == ufree # {} /\ MayInstall(p, top)
  IN /\ At(p, "stack")
     /\ IF good
        THEN /\ pds' = [pds EXCEPT ![p] = pagedir_set_page(@, top, frame, TRUE, Lowest(kfree))]
             /\ kfree' = IF NeedsTable(p, top) THEN kfree \ {Lowest(kfree)} ELSE kfree
             /\ ufree' = ufree \ {frame}
             /\ content' = [content EXCEPT ![frame] = [o \in Offsets |-> ZERO]]
        ELSE UNCHANGED <<pds, kfree, ufree, content>>
     /\ proc' = [proc EXCEPT ![p].pc = "done", ![p].ok = good]
     /\ UNCHANGED <<running, cr3, pagedir, panicked>>

(* The end of load and of start_process: the page of argv is given back    *)
(* only when the program could not be loaded.                              *)
LoadDone(p) ==
  /\ At(p, "done")
  /\ proc' = [proc EXCEPT ![p] = IF proc[p].ok THEN [@ EXCEPT !.pc = "user"]
                                                ELSE [NotStarted EXCEPT !.pc = "exit"]]
  /\ kfree' = IF proc[p].ok THEN kfree ELSE kfree \cup {proc[p].argv}
  /\ UNCHANGED <<running, cr3, ufree, content, pagedir, pds, panicked>>

(* exit(), or a page fault in user mode and kill().                        *)
Leave(p) ==
  /\ At(p, "user")
  /\ proc' = [proc EXCEPT ![p] = [NotStarted EXCEPT !.pc = "exit", !.argv = proc[p].argv]]
  /\ UNCHANGED <<running, cr3, kfree, ufree, content, pagedir, pds, panicked>>

(* Fault: the directory is left before it is forgotten.                    *)
ExitForgetLate(p) ==
  /\ At(p, "exit")
  /\ proc' = [proc EXCEPT ![p].pc = IF pagedir[p] = 0 THEN "dead" ELSE "deactivate",
                          ![p].dying = pagedir[p]]
  /\ cr3' = 0
  /\ UNCHANGED <<running, kfree, ufree, content, pagedir, pds, panicked>>

(* process_exit: forget the directory, leave it, destroy it.               *)
ExitForget(p) ==
  /\ At(p, "exit")
  /\ proc' = [proc EXCEPT ![p].pc = IF pagedir[p] = 0 THEN "dead" ELSE "deactivate",
                          ![p].dying = pagedir[p]]
  /\ pagedir' = [pagedir EXCEPT ![p] = 0]
  /\ UNCHANGED <<running, cr3, kfree, ufree, content, pds, panicked>>

ExitDeactivate(p) ==
  /\ At(p, "deactivate")
  /\ proc' = [proc EXCEPT ![p].pc = "destroy"]
  /\ cr3' = 0
  /\ UNCHANGED <<running, kfree, ufree, content, pagedir, pds, panicked>>

(* Fault: page tables are not given back.                                  *)
pagedir_destroyFlat(p) ==
  /\ At(p, "destroy")
  /\ ufree' = ufree \cup DestroyedFrames(pds[p])
  /\ kfree' = kfree \cup {proc[p].dying}
  /\ pds' = [pds EXCEPT ![p] = NewDirectory]
  /\ proc' = [proc EXCEPT ![p].pc = "dead", ![p].dying = 0]
  /\ content' = [f \in UserFrames |->
                   IF f \in ufree' THEN [o \in Offsets |-> JUNK] ELSE content[f]]
  /\ UNCHANGED <<running, cr3, pagedir, panicked>>

pagedir_destroy(p) ==
  /\ At(p, "destroy")
  /\ ufree' = ufree \cup DestroyedFrames(pds[p])
  /\ kfree' = kfree \cup DestroyedTables(pds[p]) \cup {proc[p].dying}
  /\ pds' = [pds EXCEPT ![p] = NewDirectory]
  /\ proc' = [proc EXCEPT ![p].pc = "dead", ![p].dying = 0]
  /\ content' = [f \in UserFrames |->
                   IF f \in ufree' THEN [o \in Offsets |-> JUNK] ELSE content[f]]
  /\ UNCHANGED <<running, cr3, pagedir, panicked>>

ProcNext(p) ==
  \/ StartArgv(p) \/ CreateDirectory(p) \/ OpenExecutable(p) \/ ReadHeader(p)
  \/ SegmentPage(p) \/ FillPage(p) \/ setup_stack(p) \/ LoadDone(p) \/ Leave(p)
  \/ ExitForget(p) \/ ExitDeactivate(p) \/ pagedir_destroy(p)

LoadNext == Switch \/ \E p \in Procs : ProcNext(p)

-----------------------------------------------------------------------------
(* process.c process_exit, "Correct ordering here is crucial": whenever    *)
(* threads are switched, the active directory is that of no process or one *)
(* that exists, never one that was freed, and a process in user mode runs  *)
(* in its own.                                                             *)
ActiveDirectoryLive ==
  /\ cr3 # 0 => \E p \in Procs : cr3 \in {pagedir[p], proc[p].dying}
  /\ cr3 \notin kfree
  /\ \A p \in Procs : At(p, "user") => cr3 = pagedir[p] /\ cr3 # 0

(* The places that hold a page: a directory, the vector of arguments, the  *)
(* page tables; the entries of a directory, a loader.                      *)
KernelHolders(f) ==
  {h \in Procs \X (-2..(Cardinality(Tables) - 1)) :
     \/ h[2] = -2 /\ f \in {pagedir[h[1]], proc[h[1]].dying}
     \/ h[2] = -1 /\ f = proc[h[1]].argv
     \/ h[2] \in Tables /\ f = pds[h[1]].pt[h[2]]}
UserHolders(f) ==
  {<<p, u>> \in Procs \X UPages : pagedir_get_page(pds[p], u) = f}
    \cup {<<p, USER_PAGES>> : p \in {q \in Procs : proc[q].held = f}}

(* process.c, pagedir.c: on every path of load, the failing ones included, *)
(* and through exit, each page of either pool is free or held in exactly   *)
(* one place, so no page is shared by two processes, lost, or freed twice. *)
(* (The page of argv stays held when its process is dead.)                 *)
PagesHeldOnce ==
  /\ \A f \in KernelFrames : Cardinality(KernelHolders(f)) = IF f \in kfree THEN 0 ELSE 1
  /\ \A f \in UserFrames : Cardinality(UserHolders(f)) = IF f \in ufree THEN 0 ELSE 1

(* The byte and the permission that a process sees at an address.          *)
ByteAt(p, va) == content[pagedir_get_page(pds[p], pg_no(va))][pg_ofs(va)]

(* process.c load, validate_segment, load_segment: a program that starts   *)
(* sees, in each segment of its executable, the bytes of the file followed *)
(* by zeroes with the permission of the segment; nothing is mapped at page *)
(* 0; the stack is a page of zeroes; and no header, however odd its        *)
(* numbers, makes an assertion of the kernel fail.                         *)
LoadedAsLinked ==
  /\ ~panicked
  /\ \A p \in Procs : proc[p].pc = "user" =>
       /\ pagedir_get_page(pds[p], 0) = 0
       /\ \A va \in (PHYS_BASE - PGSIZE)..(PHYS_BASE - 1) : ByteAt(p, va) = ZERO
       /\ \A i \in 1..Len(proc[p].exe.phdrs) :
            LET ph == proc[p].exe.phdrs[i]
            IN ph.type = "load" =>
                 \A k \in 0..(ph.memsz - 1) :
                   /\ ByteAt(p, ph.vaddr + k) = IF k < ph.filesz THEN ph.offset + k ELSE ZERO
                   /\ pds[p].pte[pg_no(ph.vaddr + k)].w = ph.w
=============================================================================
