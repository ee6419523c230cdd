------------------------------ MODULE MCMemory ------------------------------
(***************************************************************************)
(* Memory in one run: the allocators (Malloc), the life of an address      *)
(* space (Load) and page tables under a processor that remembers entries   *)
(* (Mmu).  The first state decides which of them runs.                     *)
(*                                                                         *)
(* Malloc: pages of 6 units, arena headers of 2, so that an arena holds    *)
(* two blocks of 2 units, and a request of 5 takes two pages; the kernel   *)
(* pool has three pages beside its bitmap, and the one page of the user    *)
(* pool is its bitmap, so that a request for a user page finds none.       *)
(***************************************************************************)
EXTENDS Malloc, TLC

CONSTANTS t1, t2

VARIABLES
  part,
  running, ld_cr3, kfree, ufree, content, pagedir, ld_pds, proc, panicked,   \* Load
  pds, cr3, tlb, written, touched, wrong                                     \* Mmu

MCThreads == {t1, t2}
MCBmPages(n) == 1
MCSizes == {0, 1, 5}
MCGroups == {0, 1}

(* Executables of 6 bytes for an address space of 6 pages of 4 bytes, with *)
(* addresses of 5 bits: well-formed ones with several segments, segments   *)
(* that share a page, and segments at and past each limit that             *)
(* validate_segment knows, numbers that wrap around included.              *)
Seg(o, v, f, m, w) ==
  [type |-> "load", offset |-> o, vaddr |-> v, filesz |-> f, memsz |-> m, w |-> w]
Other(t) == [Seg(0, 0, 0, 0, FALSE) EXCEPT !.type = t]
Exe(n, phs) == [header |-> TRUE, len |-> n, phdrs |-> phs]
AllExes ==
  {Exe(6, <<Seg(1, 5, 4, 6, FALSE), Other("ignored"), Seg(0, 12, 0, 2, TRUE)>>),
   Exe(6, <<Seg(1, 5, 2, 2, FALSE), Seg(2, 6, 2, 3, TRUE)>>),
   Exe(6, <<Seg(8, 8, 0, 2, TRUE)>>), Exe(6, <<Seg(4, 5, 1, 2, TRUE)>>),
   Exe(3, <<Other("refused")>>), [Exe(1, <<>>) EXCEPT !.header = FALSE]}
    \cup {Exe(6, <<Seg(1, v, n[1], n[2], TRUE)>>) :
            v \in {1, 5, 17, 21}, n \in {<<0, 6>>, <<3, 6>>, <<6, 3>>, <<3, 31>>}}
OneExe == {Exe(6, <<Seg(1, 5, 2, 3, FALSE)>>)}

LD == INSTANCE Load WITH
        PGSIZE <- 4, PT_PAGES <- 2, USER_PAGES <- 6, ADDR_BITS <- 5,
        Procs <- {"p", "q"}, Exes <- [p \in {"p", "q"} |-> IF p = "p" THEN AllExes ELSE OneExe],
        KernelFrames <- 1..6, UserFrames <- 11..14, pds <- ld_pds,
        cr3 <- ld_cr3

MU == INSTANCE Mmu WITH
        PGSIZE <- 4, PT_PAGES <- 1, USER_PAGES <- 1, Dirs <- {1, 2}

loadVars == <<running, ld_cr3, kfree, ufree, content, pagedir, ld_pds, proc, panicked>>
mmuVars == <<pds, cr3, tlb, written, touched, wrong>>
memoryVars == <<part, vars, loadVars, mmuVars>>

MemoryInit ==
  part \in {"malloc", "load", "mmu"} /\ Init /\ LD!LoadInit /\ MU!MmuInit

(* Processes end; allocator and processor have always something to do.     *)
MemoryNext ==
  /\ \/ part = "malloc" /\ Next /\ UNCHANGED <<loadVars, mmuVars>>
     \/ part = "mmu" /\ MU!MmuNext /\ UNCHANGED <<vars, loadVars>>
     \/ part = "load" /\ LD!LoadNext /\ UNCHANGED <<vars, mmuVars>>
     \/ part = "load" /\ UNCHANGED memoryVars
  /\ UNCHANGED part

MemorySpec == MemoryInit /\ [][MemoryNext]_memoryVars

Symmetry == Permutations(MCThreads)

-----------------------------------------------------------------------------
(* process.c process_exit, "Correct ordering here is crucial": no context  *)
(* switch comes upon a destroyed page directory in use or in cur->pagedir. *)
ActiveDirectoryLive == part = "load" => LD!ActiveDirectoryLive

(* process.c load and process_exit, pagedir.c pagedir_destroy: every page  *)
(* is free or held in one place, and given back once, on every error path. *)
PagesHeldOnce == part = "load" => LD!PagesHeldOnce

(* process.c validate_segment and load_segment: a process that runs has    *)
(* exactly the bytes its segments say, and no segment outside user space.  *)
LoadedAsLinked == part = "load" => LD!LoadedAsLinked

(* pagedir.c, "we have to invalidate the TLB": no access of a program goes *)
(* through a translation that pagedir_clear_page or another took away.     *)
NoStaleTranslation == part = "mmu" => MU!NoStaleTranslation
=============================================================================
