------------------------------- MODULE Palloc -------------------------------
(***************************************************************************)
(* The page allocator of threads/palloc.c: two pools, a bitmap of used     *)
(* pages for each, scanned bit by bit under the lock of the pool by        *)
(* palloc_get_multiple, and cleared bit by bit without it by               *)
(* palloc_free_multiple, which must not block.                             *)
(*                                                                         *)
(* Pages are numbered from the base of the kernel pool; the user pool      *)
(* follows.  Requests come from the module that extends this one: Get and  *)
(* Free start them, and the page that a request got is in pal[t].ret.      *)
(***************************************************************************)
EXTENDS Integers

CONSTANTS
  Threads,
  FreePages,        \* pages above 1 MB
  USER_PAGE_LIMIT,  \* user_page_limit, set on the kernel command line
  FREE_PAGE_LIMIT,  \* free_page_limit, likewise
  BmPages(_),       \* pages that the bitmap for so many pages takes
  NONE

Min2(x, y) == IF x < y THEN x ELSE y

(* palloc_init and init_pool.                                              *)
user_pages == Min2(FreePages \div 2, USER_PAGE_LIMIT)
kernel_pages == Min2(FreePages, FREE_PAGE_LIMIT) - user_pages
Pools == {"kernel", "user"}
Base(pool) ==
  IF pool = "kernel" THEN BmPages(kernel_pages) ELSE kernel_pages + BmPages(user_pages)
PageCnt(pool) ==
  IF pool = "kernel" THEN kernel_pages - BmPages(kernel_pages)
                     ELSE user_pages - BmPages(user_pages)
PoolPages(pool) == Base(pool)..(Base(pool) + PageCnt(pool) - 1)
Pages == PoolPages("kernel") \cup PoolPages("user")

(* init_pool panics when the bitmap does not fit.  With a FREE_PAGE_LIMIT  *)
(* below user_pages the subtraction in palloc_init wraps.                  *)
ASSUME PallocAssumption ==
  /\ FreePages \in Nat /\ USER_PAGE_LIMIT \in Nat /\ FREE_PAGE_LIMIT \in Nat
  /\ BmPages(kernel_pages) \in 0..kernel_pages
  /\ BmPages(user_pages) \in 0..user_pages
  /\ NONE \notin Threads

VARIABLES
  used_map,    \* the pages whose bit is set
  pool_lock,   \* the holder of each pool's lock
  pal,         \* where each thread is in the page allocator
  assertion    \* FALSE once an ASSERT has failed

pallocVars == <<used_map, pool_lock, pal, assertion>>

Idle == [at |-> "idle"]

PallocInit ==
  /\ used_map = {}
  /\ pool_lock = [pool \in Pools |-> NONE]
  /\ pal = [t \in Threads |-> Idle]
  /\ assertion = TRUE

(* The value of pal[t] for a thread that calls palloc_get_multiple or      *)
(* palloc_free_multiple.                                                   *)
Get(pool, cnt) ==
  IF cnt = 0 THEN [at |-> "got", ret |-> NONE]
  ELSE [at |-> "lock", pool |-> pool, cnt |-> cnt, i |-> 0, j |-> 0]
Free(page, cnt) == [at |-> "check", page |-> page, cnt |-> cnt, j |-> 0]

Step(t, r) == pal' = [pal EXCEPT ![t] = r]

(* Fault: the scan runs without the lock of the pool.                      *)
GetLockSkipped(t) ==
  /\ pal[t].at = "lock"
  /\ Step(t, [pal[t] EXCEPT !.at = "scan"])
  /\ UNCHANGED <<used_map, pool_lock, assertion>>

GetLock(t) ==
  /\ pal[t].at = "lock"
  /\ pool_lock[pal[t].pool] = NONE
  /\ pool_lock' = [pool_lock EXCEPT ![pal[t].pool] = t]
  /\ Step(t, [pal[t] EXCEPT !.at = "scan"])
  /\ UNCHANGED <<used_map, assertion>>

(* bitmap_scan: bit i + j is tested next.                                  *)
GetScan(t) ==
  LET p == pal[t]
      last == PageCnt(p.pool) - p.cnt
      bit == Base(p.pool) + p.i + p.j
  IN /\ p.at = "scan"
     /\ IF p.i > last
        THEN Step(t, [p EXCEPT !.at = "unlock", !.i = NONE])
        ELSE IF p.j = p.cnt
        THEN Step(t, [p EXCEPT !.at = "flip", !.j = 0])
        ELSE IF bit \in used_map
        THEN Step(t, [p EXCEPT !.i = @ + 1, !.j = 0])
        ELSE Step(t, [p EXCEPT !.j = @ + 1])
     /\ UNCHANGED <<used_map, pool_lock, assertion>>

(* bitmap_set_multiple, to true.                                           *)
GetFlip(t) ==
  LET p == pal[t]
  IN /\ p.at = "flip"
     /\ IF p.j = p.cnt
        THEN Step(t, [p EXCEPT !.at = "unlock"]) /\ UNCHANGED used_map
        ELSE /\ used_map' = used_map \cup {Base(p.pool) + p.i + p.j}
             /\ Step(t, [p EXCEPT !.j = @ + 1])
     /\ UNCHANGED <<pool_lock, assertion>>

GetUnlock(t) ==
  LET p == pal[t]
  IN /\ p.at = "unlock"
     /\ pool_lock' = [pool_lock EXCEPT ![p.pool] = NONE]
     /\ Step(t, [at |-> "got", ret |-> IF p.i = NONE THEN NONE ELSE Base(p.pool) + p.i])
     /\ UNCHANGED <<used_map, assertion>>

(* The assertion that all the pages are in use.                            *)
FreeCheck(t) ==
  LET p == pal[t]
  IN /\ p.at = "check"
     /\ assertion' = (assertion /\ p.page..(p.page + p.cnt - 1) \subseteq used_map)
     /\ Step(t, [p EXCEPT !.at = "reset"])
     /\ UNCHANGED <<used_map, pool_lock>>

(* bitmap_set_multiple, to false.                                          *)
FreeReset(t) ==
  LET p == pal[t]
  IN /\ p.at = "reset"
     /\ used_map' = used_map \ {p.page + p.j}
     /\ Step(t, IF p.j + 1 = p.cnt THEN [at |-> "freed"] ELSE [p EXCEPT !.j = @ + 1])
     /\ UNCHANGED <<pool_lock, assertion>>

PallocStep(t) ==
  GetLock(t) \/ GetScan(t) \/ GetFlip(t) \/ GetUnlock(t) \/ FreeCheck(t) \/ FreeReset(t)

(* The pages that a thread in the allocator answers for: the ones it has   *)
(* marked, or has not yet given back.                                      *)
InTransit(t) ==
  LET p == pal[t]
  IN CASE p.at = "flip"   -> {Base(p.pool) + p.i + k : k \in 0..(p.j - 1)}
       [] p.at = "unlock" -> IF p.i = NONE THEN {} ELSE {Base(p.pool) + p.i + k : k \in 0..(p.cnt - 1)}
       [] p.at \in {"check", "reset"} -> {p.page + k : k \in p.j..(p.cnt - 1)}
       [] OTHER -> {}
=============================================================================
