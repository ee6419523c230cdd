----------------------------- MODULE MmuProofs -----------------------------
(***************************************************************************)
(* No stale translation is ever used, for any number of page directories   *)
(* and any size of the address space.                                      *)
(***************************************************************************)
EXTENDS Mmu, TLAPS

(* Zenon proves a leaf unless the leaf names another prover.               *)
USE ZenonT(60)

MmuSpec == MmuInit /\ [][MmuNext]_mmuVars

(* The sizes that pte.h and vaddr.h fix: page tables that cover the user   *)
(* pages exactly, and directories that are not the kernel's.               *)
Sizes ==
  /\ PT_PAGES \in Nat \ {0} /\ USER_PAGES \in Nat \ {0}
  /\ \A u \in UPages : pd_no(u) \in Tables
  /\ Dirs \subseteq Nat \ {0}

Entries == [frame : Nat, p : BOOLEAN, w : BOOLEAN, a : BOOLEAN, d : BOOLEAN]
Directory == [pt : [Tables -> Nat], pte : [UPages -> Entries]]

MmuTypeOK ==
  /\ pds \in [Dirs -> Directory]
  /\ cr3 \in Dirs \cup {0}
  /\ tlb \in [UPages -> Entries]
  /\ written \subseteq Dirs \X UPages
  /\ touched \subseteq Dirs \X UPages
  /\ wrong \in BOOLEAN

(* What the processor remembers of a page promises no more than the entry  *)
(* in the active directory gives.                                          *)
Covered(t, e) == /\ e.p /\ e.frame # 0 /\ e.a
                 /\ t.w => e.w
                 /\ t.d => e.d

BufferCovered ==
  \A u \in UPages : tlb[u].p => /\ cr3 # 0
                                /\ HasEntry(pds[cr3], u)
                                /\ Covered(tlb[u], pds[cr3].pte[u])

IInv == MmuTypeOK /\ BufferCovered /\ NoStaleTranslation

-----------------------------------------------------------------------------
(* WithPte changes the entry of one page and no page table.                *)
LEMMA WithPteEffect ==
  ASSUME NEW pd \in Directory, NEW u \in UPages, NEW e \in Entries,
         NEW n, n = WithPte(pd, u, e)
  PROVE  /\ n \in Directory /\ n.pt = pd.pt /\ n.pte[u] = e
         /\ \A v \in UPages : v # u => n.pte[v] = pd.pte[v]
  BY DEF WithPte, Directory

LEMMA PteType ==
  ASSUME NEW f \in Nat, NEW p \in BOOLEAN, NEW w \in BOOLEAN, NEW a \in BOOLEAN, NEW d \in BOOLEAN
  PROVE  /\ Pte(f, p, w, a, d) \in Entries
         /\ Pte(f, p, w, a, d).frame = f
         /\ Pte(f, p, w, a, d).p = p
         /\ Pte(f, p, w, a, d).w = w
         /\ Pte(f, p, w, a, d).a = a
         /\ Pte(f, p, w, a, d).d = d
  BY DEF Pte, Entries

(* pagedir_set_page gives the page a table if it has none.                 *)
LEMMA SetPageEffect ==
  ASSUME Sizes, NEW pd \in Directory, NEW u \in UPages, NEW e \in Entries,
         NEW t \in Nat \ {0}, NEW n, n = WithPte(lookup_page(pd, u, t), u, e)
  PROVE  /\ n \in Directory /\ n.pte[u] = e /\ HasEntry(n, u)
         /\ \A v \in UPages : v # u => n.pte[v] = pd.pte[v]
         /\ \A v \in UPages : HasEntry(pd, v) => HasEntry(n, v)
<1> DEFINE l == lookup_page(pd, u, t)
<1>1. pd_no(u) \in Tables
  BY DEF Sizes
<1>2. /\ l \in Directory /\ HasEntry(l, u) /\ l.pte = pd.pte
      /\ \A v \in UPages : HasEntry(pd, v) => HasEntry(l, v)
  BY <1>1 DEF lookup_page, HasEntry, Directory, Sizes
<1> HIDE DEF l
<1>3. /\ n \in Directory /\ n.pt = l.pt /\ n.pte[u] = e
      /\ \A v \in UPages : v # u => n.pte[v] = l.pte[v]
  BY <1>2, WithPteEffect, SMTT(60) DEF l
<1>4. QED
  BY <1>2, <1>3 DEF HasEntry

-----------------------------------------------------------------------------
LEMMA InitInv == Sizes /\ MmuInit => IInv
<1> SUFFICES ASSUME Sizes, MmuInit PROVE IInv
  OBVIOUS
<1>1. NoPte \in Entries /\ ~NoPte.p
  BY PteType DEF NoPte
<1>2. NewDirectory \in Directory
  BY <1>1 DEF NewDirectory, Directory
<1>3. MmuTypeOK
  BY <1>1, <1>2 DEF MmuInit, MmuTypeOK
<1>4. BufferCovered
  BY <1>1 DEF MmuInit, BufferCovered
<1>5. QED
  BY <1>3, <1>4 DEF MmuInit, IInv, NoStaleTranslation

LEMMA Flush ==
  ASSUME IInv, tlb' = Flushed, pds' \in [Dirs -> Directory]
  PROVE  tlb' \in [UPages -> Entries] /\ BufferCovered'
<1>1. NoPte \in Entries /\ ~NoPte.p
  BY PteType DEF NoPte
<1>2. QED
  BY <1>1 DEF Flushed, BufferCovered

LEMMA ActivateInv == ASSUME Sizes, IInv, Activate PROVE IInv'
<1>1. pds' \in [Dirs -> Directory]
  BY DEF IInv, MmuTypeOK, Activate
<1>2. tlb' \in [UPages -> Entries] /\ BufferCovered'
  BY <1>1, Flush DEF Activate
<1>3. QED
  BY <1>1, <1>2 DEF IInv, MmuTypeOK, Activate, NoStaleTranslation

LEMMA SetPageInv == ASSUME Sizes, IInv, SetPage PROVE IInv'
<1>1. PICK d \in Dirs, u \in UPages, w \in BOOLEAN :
        /\ pagedir_get_page(pds[d], u) = 0
        /\ pds' = [pds EXCEPT ![d] = pagedir_set_page(pds[d], u, Frame(d, u), w, d)]
        /\ written' = written \ {<<d, u>>}
        /\ touched' = touched \ {<<d, u>>}
        /\ UNCHANGED <<cr3, tlb, wrong>>
  BY DEF SetPage
<1> DEFINE e == Pte(Frame(d, u), TRUE, w, FALSE, FALSE)
           pd == pds[d]
           n == WithPte(lookup_page(pd, u, d), u, e)
<1>2. d \in Nat \ {0} /\ pd \in Directory /\ e \in Entries
  <2>1. d \in Nat \ {0} /\ pd \in Directory /\ Frame(d, u) \in Nat
    BY SMTT(60) DEF Sizes, IInv, MmuTypeOK, Frame, UPages
  <2>2. QED
    BY <2>1, PteType
<1>3. pds' = [pds EXCEPT ![d] = n]
  BY <1>1 DEF pagedir_set_page, pte_create_user
<1> HIDE DEF e, pd
<1>4. /\ n \in Directory /\ HasEntry(n, u)
      /\ \A v \in UPages : v # u => n.pte[v] = pd.pte[v]
      /\ \A v \in UPages : HasEntry(pd, v) => HasEntry(n, v)
  BY <1>2, SetPageEffect, SMTT(60)
<1> HIDE DEF n
<1>5. /\ pds' \in [Dirs -> Directory] /\ pds'[d] = n
      /\ \A c \in Dirs : c # d => pds'[c] = pds[c]
  BY <1>3, <1>4 DEF IInv, MmuTypeOK
<1>6. MmuTypeOK'
  BY <1>1, <1>5 DEF IInv, MmuTypeOK
<1>7. BufferCovered'
  <2> SUFFICES ASSUME NEW v \in UPages, tlb[v].p
               PROVE  cr3 # 0 /\ HasEntry(pds'[cr3], v) /\ Covered(tlb[v], pds'[cr3].pte[v])
    BY <1>1 DEF BufferCovered
  <2>1. cr3 \in Dirs /\ HasEntry(pds[cr3], v) /\ Covered(tlb[v], pds[cr3].pte[v])
    BY DEF IInv, BufferCovered, MmuTypeOK
  <2>2. cr3 = d => v # u
    BY <2>1, <1>1 DEF pagedir_get_page, Covered
  <2>3. cr3 # 0
    BY <2>1 DEF Sizes
  <2>4. QED
    BY <2>1, <2>2, <2>3, <1>4, <1>5 DEF pd
<1>8. NoStaleTranslation'
  <2>1. ~wrong'
    BY <1>1 DEF IInv, NoStaleTranslation
  <2>2. ASSUME NEW c \in Dirs, NEW v \in UPages, <<c, v>> # <<d, u>>
        PROVE  /\ pds'[c].pte[v] = pds[c].pte[v]
               /\ HasEntry(pds[c], v) => HasEntry(pds'[c], v)
    BY <2>2, <1>4, <1>5 DEF pd
  <2>3. QED
    BY <1>1, <2>1, <2>2 DEF IInv, NoStaleTranslation, pagedir_is_dirty, pagedir_is_accessed
<1>9. QED
  BY <1>6, <1>7, <1>8 DEF IInv

(* A step that replaces one entry of a directory that has its page table.  *)
LEMMA OneEntry ==
  ASSUME IInv, NEW d \in Dirs, NEW u \in UPages, NEW e \in Entries,
         pds' = [pds EXCEPT ![d] = WithPte(pds[d], u, e)]
  PROVE  /\ pds' \in [Dirs -> Directory] /\ pds'[d].pte[u] = e
         /\ \A c \in Dirs, v \in UPages : <<c, v>> # <<d, u>> => pds'[c].pte[v] = pds[c].pte[v]
         /\ \A c \in Dirs, v \in UPages : HasEntry(pds'[c], v) <=> HasEntry(pds[c], v)
<1> DEFINE pd == pds[d]
           n == WithPte(pd, u, e)
<1>1. pd \in Directory
  BY DEF IInv, MmuTypeOK
<1>2. pds' \in [Dirs -> Directory] => pds'[d] = n /\ \A c \in Dirs : c # d => pds'[c] = pds[c]
  BY DEF IInv, MmuTypeOK
<1> HIDE DEF pd
<1>3. /\ n \in Directory /\ n.pt = pd.pt /\ n.pte[u] = e
      /\ \A v \in UPages : v # u => n.pte[v] = pd.pte[v]
  BY <1>1, WithPteEffect, SMTT(60)
<1> HIDE DEF n
<1>4. pds' \in [Dirs -> Directory]
  BY <1>3 DEF n, pd, IInv, MmuTypeOK
<1>5. QED
  BY <1>2, <1>3, <1>4 DEF pd, HasEntry

LEMMA ClearPageInv == ASSUME Sizes, IInv, ClearPage PROVE IInv'
<1>1. PICK d \in Dirs, u \in UPages :
        /\ pds' = [pds EXCEPT ![d] = pagedir_clear_page(pds[d], u)]
        /\ IF pagedir_get_page(pds[d], u) # 0 THEN invalidate_pagedir(d) ELSE UNCHANGED tlb
        /\ UNCHANGED <<cr3, written, touched, wrong>>
  BY DEF ClearPage
<1>2. CASE pagedir_get_page(pds[d], u) = 0
  <2>1. pds' = pds /\ tlb' = tlb
    BY <1>1, <1>2 DEF pagedir_clear_page, IInv, MmuTypeOK
  <2>2. QED
    BY <1>1, <2>1 DEF IInv, MmuTypeOK, BufferCovered, NoStaleTranslation
<1>3. CASE pagedir_get_page(pds[d], u) # 0
  <2> DEFINE o == pds[d].pte[u]
             e == Pte(o.frame, FALSE, o.w, o.a, o.d)
  <2>1. pds' = [pds EXCEPT ![d] = WithPte(pds[d], u, e)]
    BY <1>1, <1>3 DEF pagedir_clear_page
  <2>2. e \in Entries /\ e.a = o.a /\ e.d = o.d
    <3>1. o \in Entries
      BY DEF IInv, MmuTypeOK, Directory
    <3>2. QED
      BY <3>1 DEF Pte, Entries
  <2> HIDE DEF e
  <2>3. /\ pds' \in [Dirs -> Directory] /\ pds'[d].pte[u] = e
        /\ \A c \in Dirs, v \in UPages : <<c, v>> # <<d, u>> => pds'[c].pte[v] = pds[c].pte[v]
        /\ \A c \in Dirs, v \in UPages : HasEntry(pds'[c], v) <=> HasEntry(pds[c], v)
    BY <2>1, <2>2, OneEntry
  <2>4. tlb' \in [UPages -> Entries] /\ BufferCovered'
    <3>1. CASE cr3 = d
      BY <1>1, <1>3, <2>3, <3>1, Flush DEF invalidate_pagedir
    <3>2. CASE cr3 # d
      BY <1>1, <1>3, <2>3, <3>2 DEF invalidate_pagedir, IInv, MmuTypeOK, BufferCovered
    <3>3. QED
      BY <3>1, <3>2
  <2>5. NoStaleTranslation'
    BY <1>1, <2>2, <2>3, SMTT(60) DEF IInv, NoStaleTranslation, pagedir_is_dirty,
       pagedir_is_accessed
  <2>6. QED
    BY <1>1, <2>3, <2>4, <2>5 DEF IInv, MmuTypeOK
<1>4. QED
  BY <1>2, <1>3

LEMMA SetDirtyInv == ASSUME Sizes, IInv, SetDirty PROVE IInv'
<1>1. PICK d \in Dirs, u \in UPages, b \in BOOLEAN :
        /\ pds' = [pds EXCEPT ![d] = pagedir_set_dirty(pds[d], u, b)]
        /\ IF HasEntry(pds[d], u) /\ ~b
           THEN invalidate_pagedir(d) /\ written' = written \ {<<d, u>>}
           ELSE UNCHANGED <<tlb, written>>
        /\ UNCHANGED <<cr3, touched, wrong>>
  BY DEF SetDirty
<1>2. CASE ~HasEntry(pds[d], u)
  <2>1. pds' = pds /\ tlb' = tlb /\ written' = written
    BY <1>1, <1>2 DEF pagedir_set_dirty, IInv, MmuTypeOK
  <2>2. QED
    BY <1>1, <2>1 DEF IInv, MmuTypeOK, BufferCovered, NoStaleTranslation
<1>3. CASE HasEntry(pds[d], u)
  <2> DEFINE o == pds[d].pte[u]
             e == Pte(o.frame, o.p, o.w, o.a, b)
  <2>1. pds' = [pds EXCEPT ![d] = WithPte(pds[d], u, e)]
    BY <1>1, <1>3 DEF pagedir_set_dirty
  <2>2. e \in Entries /\ e.frame = o.frame /\ e.p = o.p /\ e.w = o.w /\ e.a = o.a /\ (b => e.d)
    <3>1. o \in Entries
      BY SMTT(60) DEF IInv, MmuTypeOK, Directory
    <3>2. QED
      BY <3>1 DEF Pte, Entries
  <2> HIDE DEF e
  <2>3. /\ pds' \in [Dirs -> Directory] /\ pds'[d].pte[u] = e
        /\ \A c \in Dirs, v \in UPages : <<c, v>> # <<d, u>> => pds'[c].pte[v] = pds[c].pte[v]
        /\ \A c \in Dirs, v \in UPages : HasEntry(pds'[c], v) <=> HasEntry(pds[c], v)
    BY <2>1, <2>2, OneEntry
  <2>4. tlb' \in [UPages -> Entries] /\ BufferCovered'
    <3>1. CASE ~b /\ cr3 = d
      BY <1>1, <1>3, <2>3, <3>1, Flush DEF invalidate_pagedir
    <3>2. CASE ~b /\ cr3 # d
      BY <1>1, <1>3, <2>3, <3>2 DEF invalidate_pagedir, IInv, MmuTypeOK, BufferCovered
    <3>3. CASE b
      <4>1. tlb' = tlb /\ cr3' = cr3
        BY <1>1, <3>3
      <4>2. tlb' \in [UPages -> Entries]
        BY <4>1 DEF IInv, MmuTypeOK
      <4>3. ASSUME NEW v \in UPages, tlb[v].p
            PROVE  cr3 # 0 /\ HasEntry(pds'[cr3], v) /\ Covered(tlb[v], pds'[cr3].pte[v])
        <5>1. cr3 \in Dirs /\ cr3 # 0 /\ HasEntry(pds[cr3], v) /\ Covered(tlb[v], pds[cr3].pte[v])
          BY <4>3 DEF IInv, BufferCovered, MmuTypeOK
        <5>2. CASE cr3 = d /\ v = u
          BY <2>2, <2>3, <3>3, <5>1, <5>2 DEF Covered
        <5>3. CASE ~(cr3 = d /\ v = u)
          BY <2>3, <5>1, <5>3
        <5>4. QED
          BY <5>2, <5>3
      <4>4. QED
        BY <4>1, <4>2, <4>3 DEF BufferCovered
    <3>4. QED
      BY <3>1, <3>2, <3>3
  <2>5. NoStaleTranslation'
    BY <1>1, <1>3, <2>2, <2>3, SMTT(60) DEF IInv, NoStaleTranslation, pagedir_is_dirty,
       pagedir_is_accessed
  <2>6. QED
    BY <1>1, <2>3, <2>4, <2>5 DEF IInv, MmuTypeOK
<1>4. QED
  BY <1>2, <1>3

LEMMA SetAccessedInv == ASSUME Sizes, IInv, SetAccessed PROVE IInv'
<1>1. PICK d \in Dirs, u \in UPages, b \in BOOLEAN :
        /\ pds' = [pds EXCEPT ![d] = pagedir_set_accessed(pds[d], u, b)]
        /\ IF HasEntry(pds[d], u) /\ ~b
           THEN invalidate_pagedir(d) /\ touched' = touched \ {<<d, u>>}
           ELSE UNCHANGED <<tlb, touched>>
        /\ UNCHANGED <<cr3, written, wrong>>
  BY DEF SetAccessed
<1>2. CASE ~HasEntry(pds[d], u)
  <2>1. pds' = pds /\ tlb' = tlb /\ touched' = touched
    BY <1>1, <1>2 DEF pagedir_set_accessed, IInv, MmuTypeOK
  <2>2. QED
    BY <1>1, <2>1 DEF IInv, MmuTypeOK, BufferCovered, NoStaleTranslation
<1>3. CASE HasEntry(pds[d], u)
  <2> DEFINE o == pds[d].pte[u]
             e == Pte(o.frame, o.p, o.w, b, o.d)
  <2>1. pds' = [pds EXCEPT ![d] = WithPte(pds[d], u, e)]
    BY <1>1, <1>3 DEF pagedir_set_accessed
  <2>2. e \in Entries /\ e.frame = o.frame /\ e.p = o.p /\ e.w = o.w /\ e.d = o.d /\ (b => e.a)
    <3>1. o \in Entries
      BY DEF IInv, MmuTypeOK, Directory
    <3>2. QED
      BY <3>1 DEF Pte, Entries
  <2> HIDE DEF e
  <2>3. /\ pds' \in [Dirs -> Directory] /\ pds'[d].pte[u] = e
        /\ \A c \in Dirs, v \in UPages : <<c, v>> # <<d, u>> => pds'[c].pte[v] = pds[c].pte[v]
        /\ \A c \in Dirs, v \in UPages : HasEntry(pds'[c], v) <=> HasEntry(pds[c], v)
    BY <2>1, <2>2, OneEntry
  <2>4. tlb' \in [UPages -> Entries] /\ BufferCovered'
    <3>1. CASE ~b /\ cr3 = d
      BY <1>1, <1>3, <2>3, <3>1, Flush DEF invalidate_pagedir
    <3>2. CASE ~b /\ cr3 # d
      BY <1>1, <1>3, <2>3, <3>2 DEF invalidate_pagedir, IInv, MmuTypeOK, BufferCovered
    <3>3. CASE b
      <4>1. tlb' = tlb /\ cr3' = cr3
        BY <1>1, <3>3
      <4>2. tlb' \in [UPages -> Entries]
        BY <4>1 DEF IInv, MmuTypeOK
      <4>3. ASSUME NEW v \in UPages, tlb[v].p
            PROVE  cr3 # 0 /\ HasEntry(pds'[cr3], v) /\ Covered(tlb[v], pds'[cr3].pte[v])
        <5>1. cr3 \in Dirs /\ cr3 # 0 /\ HasEntry(pds[cr3], v) /\ Covered(tlb[v], pds[cr3].pte[v])
          BY <4>3 DEF IInv, BufferCovered, MmuTypeOK
        <5>2. CASE cr3 = d /\ v = u
          BY <2>2, <2>3, <3>3, <5>1, <5>2 DEF Covered
        <5>3. CASE ~(cr3 = d /\ v = u)
          BY <2>3, <5>1, <5>3
        <5>4. QED
          BY <5>2, <5>3
      <4>4. QED
        BY <4>1, <4>2, <4>3 DEF BufferCovered
    <3>4. QED
      BY <3>1, <3>2, <3>3
  <2>5. NoStaleTranslation'
    BY <1>1, <1>3, <2>2, <2>3, SMTT(60) DEF IInv, NoStaleTranslation, pagedir_is_dirty,
       pagedir_is_accessed
  <2>6. QED
    BY <1>1, <2>3, <2>4, <2>5 DEF IInv, MmuTypeOK
<1>4. QED
  BY <1>2, <1>3

LEMMA AccessInv == ASSUME Sizes, IInv, Access PROVE IInv'
<1>1. PICK u \in UPages, write \in BOOLEAN :
        LET hit == tlb[u].p /\ (write => tlb[u].w /\ tlb[u].d)
            entry == pds[cr3].pte[u]
            used == Pte(entry.frame, entry.p, entry.w, TRUE, entry.d \/ write)
        IN /\ hit \/ (pagedir_get_page(pds[cr3], u) # 0 /\ (write => entry.w))
           /\ IF hit THEN UNCHANGED <<pds, tlb>>
              ELSE /\ pds' = [pds EXCEPT ![cr3] = WithPte(pds[cr3], u, used)]
                   /\ tlb' = [tlb EXCEPT ![u] = used]
           /\ wrong' = (wrong \/ pagedir_get_page(pds[cr3], u) = 0 \/ (write /\ ~entry.w))
           /\ touched' = touched \cup {<<cr3, u>>}
           /\ written' = IF write THEN written \cup {<<cr3, u>>} ELSE written
  BY DEF Access
<1> DEFINE hit == tlb[u].p /\ (write => tlb[u].w /\ tlb[u].d)
           o == pds[cr3].pte[u]
           e == Pte(o.frame, o.p, o.w, TRUE, o.d \/ write)
<1>2. cr3 \in Dirs /\ cr3' = cr3
  BY DEF Access, IInv, MmuTypeOK
<1>3. ~wrong /\ o \in Entries
  BY <1>2 DEF IInv, MmuTypeOK, Directory, NoStaleTranslation
<1>4. touched' \subseteq Dirs \X UPages /\ written' \subseteq Dirs \X UPages
  BY <1>1, <1>2, SMTT(60) DEF IInv, MmuTypeOK
<1>5. CASE hit
  <2>1. pds' = pds /\ tlb' = tlb
    BY <1>1, <1>5
  <2>2. HasEntry(pds[cr3], u) /\ Covered(tlb[u], o)
    BY <1>5 DEF IInv, BufferCovered
  <2>3. pagedir_get_page(pds[cr3], u) # 0 /\ (write => o.w /\ o.d) /\ o.a
    BY <1>5, <2>2 DEF Covered, pagedir_get_page
  <2>4. wrong' = FALSE
    BY <1>1, <1>3, <2>3
  <2>5. NoStaleTranslation'
    BY <1>1, <1>2, <2>1, <2>2, <2>3, <2>4
       DEF IInv, NoStaleTranslation, pagedir_is_dirty, pagedir_is_accessed
  <2>6. QED
    BY <1>2, <1>4, <2>1, <2>4, <2>5 DEF IInv, MmuTypeOK, BufferCovered
<1>6. CASE ~hit
  <2>1. /\ pagedir_get_page(pds[cr3], u) # 0 /\ (write => o.w)
        /\ pds' = [pds EXCEPT ![cr3] = WithPte(pds[cr3], u, e)]
        /\ tlb' = [tlb EXCEPT ![u] = e]
    BY <1>1, <1>6
  <2>2. wrong' = FALSE
    BY <1>1, <1>3, <2>1
  <2>3. HasEntry(pds[cr3], u) /\ o.p /\ o.frame # 0
    BY <2>1 DEF pagedir_get_page
  <2>4. /\ e \in Entries /\ e.frame = o.frame /\ e.p = o.p /\ e.w = o.w /\ e.a
        /\ (o.d => e.d) /\ (write => e.d)
    BY <1>3 DEF Pte, Entries
  <2> HIDE DEF e, hit
  <2>5. /\ pds' \in [Dirs -> Directory] /\ pds'[cr3].pte[u] = e
        /\ \A c \in Dirs, v \in UPages : <<c, v>> # <<cr3, u>> => pds'[c].pte[v] = pds[c].pte[v]
        /\ \A c \in Dirs, v \in UPages : HasEntry(pds'[c], v) <=> HasEntry(pds[c], v)
    BY <1>2, <2>1, <2>4, OneEntry
  <2>6. tlb' \in [UPages -> Entries] /\ BufferCovered'
    <3>1. tlb' \in [UPages -> Entries] /\ tlb'[u] = e /\ \A v \in UPages : v # u => tlb'[v] = tlb[v]
      BY <2>1, <2>4 DEF IInv, MmuTypeOK
    <3>2. cr3 # 0
      BY <1>2 DEF Sizes
    <3>3. QED
      BY <1>2, <2>3, <2>4, <2>5, <3>1, <3>2, SMTT(60) DEF IInv, BufferCovered, Covered
  <2>7. NoStaleTranslation'
    BY <1>1, <1>2, <2>2, <2>3, <2>4, <2>5, SMTT(60)
       DEF IInv, NoStaleTranslation, pagedir_is_dirty, pagedir_is_accessed
  <2>8. QED
    BY <1>2, <1>4, <2>2, <2>5, <2>6, <2>7 DEF IInv, MmuTypeOK
<1>7. QED
  BY <1>5, <1>6

-----------------------------------------------------------------------------
(* pagedir.c, invalidate_pagedir: for any number of directories and any    *)
(* address space, no access goes through a remembered entry that forbids   *)
(* it, and no dirty or accessed bit misses a use.                          *)
THEOREM SpecNoStaleTranslation == ASSUME Sizes PROVE MmuSpec => []NoStaleTranslation
<1>1. MmuInit => IInv
  BY InitInv
<1>2. IInv /\ [MmuNext]_mmuVars => IInv'
  <2> SUFFICES ASSUME IInv, [MmuNext]_mmuVars PROVE IInv'
    OBVIOUS
  <2>1. CASE UNCHANGED mmuVars
    BY <2>1 DEF mmuVars, IInv, MmuTypeOK, BufferCovered, NoStaleTranslation
  <2>2. QED
    BY <2>1, ActivateInv, SetPageInv, ClearPageInv, SetDirtyInv, SetAccessedInv, AccessInv DEF
       MmuNext
<1>3. IInv => NoStaleTranslation
  BY DEF IInv
<1>4. QED
  BY <1>1, <1>2, <1>3, PTL DEF MmuSpec
=============================================================================
