------------------------------ MODULE Pagedir ------------------------------
(***************************************************************************)
(* userprog/pagedir.c with threads/pte.h and threads/vaddr.h: page         *)
(* directories as values, and the functions on them.  A directory has the  *)
(* frame of the page table for each span of PT_PAGES user pages (0 if      *)
(* there is none) and one entry for each user page; the kernel's half is   *)
(* the same in every directory and is left out.                            *)
(***************************************************************************)
EXTENDS Integers, FiniteSets

CONSTANTS
  PGSIZE,      \* bytes of a page
  PT_PAGES,    \* pages that a page table maps
  USER_PAGES   \* pages below PHYS_BASE, a multiple of PT_PAGES

PHYS_BASE == PGSIZE * USER_PAGES
UPages == 0..(USER_PAGES - 1)
Tables == 0..((USER_PAGES \div PT_PAGES) - 1)

pg_no(va) == va \div PGSIZE
pg_ofs(va) == va % PGSIZE
pg_round_down(va) == va - pg_ofs(va)
pg_round_up(va) == pg_round_down(va + PGSIZE - 1)
is_user_vaddr(va) == va < PHYS_BASE
pd_no(page) == page \div PT_PAGES

(* An entry: its frame, and whether it is present, writable, accessed and  *)
(* dirty.                                                                  *)
Pte(frame, p, w, a, d) == [frame |-> frame, p |-> p, w |-> w, a |-> a, d |-> d]
NoPte == Pte(0, FALSE, FALSE, FALSE, FALSE)
pte_create_user(frame, writable) == Pte(frame, TRUE, writable, FALSE, FALSE)

(* pagedir_create: the kernel's mappings and none for users.               *)
NewDirectory == [pt |-> [i \in Tables |-> 0], pte |-> [u \in UPages |-> NoPte]]

WithPte(pd, upage, e) == [pt |-> pd.pt, pte |-> [pd.pte EXCEPT ![upage] = e]]

(* lookup_page without create finds an entry only where there is a table.  *)
HasEntry(pd, upage) == pd.pt[pd_no(upage)] # 0

(* lookup_page with create; `table' is the page that palloc returns for a  *)
(* page table if one is needed.                                            *)
lookup_page(pd, upage, table) ==
  IF HasEntry(pd, upage) THEN pd
  ELSE [pt |-> [pd.pt EXCEPT ![pd_no(upage)] = table], pte |-> pd.pte]

pagedir_get_page(pd, upage) ==
  IF HasEntry(pd, upage) /\ pd.pte[upage].p THEN pd.pte[upage].frame ELSE 0

(* The entry is written once there is a page table for it.                 *)
pagedir_set_page(pd, upage, frame, writable, table) ==
  WithPte(lookup_page(pd, upage, table), upage, pte_create_user(frame, writable))

pagedir_clear_page(pd, upage) ==
  LET e == pd.pte[upage]
  IN IF pagedir_get_page(pd, upage) # 0
     THEN WithPte(pd, upage, Pte(e.frame, FALSE, e.w, e.a, e.d)) ELSE pd

pagedir_is_dirty(pd, upage) == HasEntry(pd, upage) /\ pd.pte[upage].d
pagedir_is_accessed(pd, upage) == HasEntry(pd, upage) /\ pd.pte[upage].a

pagedir_set_dirty(pd, upage, dirty) ==
  LET e == pd.pte[upage]
  IN IF HasEntry(pd, upage) THEN WithPte(pd, upage, Pte(e.frame, e.p, e.w, e.a, dirty)) ELSE pd

pagedir_set_accessed(pd, upage, accessed) ==
  LET e == pd.pte[upage]
  IN IF HasEntry(pd, upage) THEN WithPte(pd, upage, Pte(e.frame, e.p, e.w, accessed, e.d)) ELSE pd

(* The pages that pagedir_destroy gives back, besides the directory.       *)
DestroyedTables(pd) == {pd.pt[i] : i \in {j \in Tables : pd.pt[j] # 0}}
DestroyedFrames(pd) == {pd.pte[u].frame : u \in {v \in UPages : pagedir_get_page(pd, v) # 0}}
=============================================================================
