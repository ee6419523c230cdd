-------------------------------- MODULE Mmu --------------------------------
(***************************************************************************)
(* Page directories in use: the processor translates through the active    *)
(* directory and remembers entries in its translation buffer, while the    *)
(* kernel changes entries with the functions of pagedir.c.  The processor  *)
(* sets the accessed and dirty bits of an entry when it first uses it, and *)
(* not again while the remembered entry has them.                          *)
(***************************************************************************)
EXTENDS Pagedir

CONSTANTS Dirs      \* page directories, numbers from 1; 0 is the kernel's own

VARIABLES
  pds,       \* the directories
  cr3,       \* the active directory
  tlb,       \* remembered entries of the active directory, for some pages
  written,   \* pages of a directory written since the entry was made or cleaned
  touched,   \* the same, for any access since the accessed bit was cleared
  wrong      \* an access went through although the entry forbids it

mmuVars == <<pds, cr3, tlb, written, touched, wrong>>

Frame(d, u) == d * USER_PAGES + u

MmuInit ==
  /\ pds = [d \in Dirs |-> NewDirectory]
  /\ cr3 = 0
  /\ tlb = [u \in UPages |-> NoPte]
  /\ written = {} /\ touched = {} /\ wrong = FALSE

(* Loading the register empties the translation buffer.                    *)
Flushed == [u \in UPages |-> NoPte]

Activate ==
  /\ \E d \in Dirs \cup {0} : cr3' = d
  /\ tlb' = Flushed
  /\ UNCHANGED <<pds, written, touched, wrong>>

(* Fault: an entry is changed and the buffer is left alone.                *)
invalidate_pagedirNever(d) == UNCHANGED tlb

invalidate_pagedir(d) == IF cr3 = d THEN tlb' = Flushed ELSE UNCHANGED tlb

SetPage ==
  \E d \in Dirs, u \in UPages, writable \in BOOLEAN :
    /\ pagedir_get_page(pds[d], u) = 0
    /\ pds' = [pds EXCEPT ![d] = pagedir_set_page(@, u, Frame(d, u), writable, d)]
    /\ written' = written \ {<<d, u>>}
    /\ touched' = touched \ {<<d, u>>}
    /\ UNCHANGED <<cr3, tlb, wrong>>

ClearPage ==
  \E d \in Dirs, u \in UPages :
    /\ pds' = [pds EXCEPT ![d] = pagedir_clear_page(@, u)]
    /\ IF pagedir_get_page(pds[d], u) # 0 THEN invalidate_pagedir(d) ELSE UNCHANGED tlb
    /\ UNCHANGED <<cr3, written, touched, wrong>>

SetDirty ==
  \E d \in Dirs, u \in UPages, dirty \in BOOLEAN :
    /\ pds' = [pds EXCEPT ![d] = pagedir_set_dirty(@, u, dirty)]
    /\ IF HasEntry(pds[d], u) /\ ~dirty
       THEN invalidate_pagedir(d) /\ written' = written \ {<<d, u>>}
       ELSE UNCHANGED <<tlb, written>>
    /\ UNCHANGED <<cr3, touched, wrong>>

SetAccessed ==
  \E d \in Dirs, u \in UPages, accessed \in BOOLEAN :
    /\ pds' = [pds EXCEPT ![d] = pagedir_set_accessed(@, u, accessed)]
    /\ IF HasEntry(pds[d], u) /\ ~accessed
       THEN invalidate_pagedir(d) /\ touched' = touched \ {<<d, u>>}
       ELSE UNCHANGED <<tlb, touched>>
    /\ UNCHANGED <<cr3, written, wrong>>

(* The processor: a remembered entry is used as it is; otherwise, and for  *)
(* the first write, the entry in memory is used and its bits are set.      *)
Access ==
  /\ cr3 # 0
  /\ \E u \in UPages, write \in BOOLEAN :
       LET hit == tlb[u].p /\ (write => tlb[u].w /\ tlb[u].d)
           entry == pds[cr3].pte[u]
           used == Pte(entry.frame, entry.p, entry.w, TRUE, entry.d \/ write)
       IN /\ hit \/ (pagedir_get_page(pds[cr3], u) # 0 /\ (write => entry.w))
          /\ IF hit THEN UNCHANGED <<pds, tlb>>
             ELSE /\ pds' = [pds EXCEPT ![cr3] = WithPte(@, u, used)]
                  /\ tlb' = [tlb EXCEPT ![u] = used]
          /\ wrong' = (wrong \/ pagedir_get_page(pds[cr3], u) = 0 \/ (write /\ ~entry.w))
          /\ touched' = touched \cup {<<cr3, u>>}
          /\ written' = IF write THEN written \cup {<<cr3, u>>} ELSE written
  /\ UNCHANGED cr3

MmuNext == Activate \/ SetPage \/ ClearPage \/ SetDirty \/ SetAccessed \/ Access

-----------------------------------------------------------------------------
(* pagedir.c: a page that was cleared is not reached through a remembered  *)
(* entry, and pagedir_is_dirty and pagedir_is_accessed miss no write and   *)
(* no access since the bit was cleared: the reason that every function     *)
(* that takes a permission or a bit away ends in invalidate_pagedir, even  *)
(* when the directory is switched out and in again between the steps.      *)
NoStaleTranslation ==
  /\ ~wrong
  /\ \A d \in Dirs, u \in UPages :
       /\ <<d, u>> \in written => pagedir_is_dirty(pds[d], u)
       /\ <<d, u>> \in touched => pagedir_is_accessed(pds[d], u)
=============================================================================
