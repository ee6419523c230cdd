------------------------------- MODULE Malloc -------------------------------
(***************************************************************************)
(* The block allocator of threads/malloc.c on top of Palloc: descriptors   *)
(* with their free lists and locks, arenas, big blocks, and threads that   *)
(* call malloc, free, realloc and the page allocator concurrently.         *)
(*                                                                         *)
(* What a thread does under the lock of a descriptor is one step, except   *)
(* for its calls of the page allocator.  A block is a record of its arena  *)
(* (the number of a page), its offset there and the size asked for.        *)
(***************************************************************************)
EXTENDS Palloc, Sequences, FiniteSets

CONSTANTS
  PGSIZE,
  HEADER,     \* sizeof (struct arena)
  MIN_BLOCK,  \* the smallest block size
  Sizes,      \* sizes that callers ask for
  Groups      \* numbers of pages that callers of palloc ask for

VARIABLES
  arena,      \* the arena at the start of a page, or NONE
  free_list,  \* the blocks on the free list of each descriptor
  desc_lock,
  live,       \* the blocks that callers hold
  groups,     \* the groups of pages that callers of palloc hold
  call        \* where each thread is in malloc.c

mallocVars == <<arena, free_list, desc_lock, live, groups, call>>
vars == <<pallocVars, mallocVars>>

(* malloc_init: the block sizes double until half a page.                  *)
Descs == {size \in {MIN_BLOCK * 2^k : k \in 0..9} : size < PGSIZE \div 2}
blocks_per_arena(d) == (PGSIZE - HEADER) \div d

DivRoundUp(x, y) == (x + y - 1) \div y

(* The smallest descriptor that satisfies a request, or NONE.              *)
DescFor(size) ==
  IF \E d \in Descs : d >= size
  THEN CHOOSE d \in Descs : d >= size /\ \A e \in Descs : e >= size => d <= e
  ELSE NONE

(* arena_to_block.                                                         *)
BlockAt(a, d, idx) == [arena |-> a, ofs |-> HEADER + idx * d]
BlocksOf(a, d) == {BlockAt(a, d, idx) : idx \in 0..(blocks_per_arena(d) - 1)}

Block(b) == [arena |-> b.arena, ofs |-> b.ofs]

(* block_size.                                                             *)
block_size(b) ==
  LET a == arena[b.arena]
  IN IF a.desc # NONE THEN a.desc ELSE PGSIZE * a.free_cnt - b.ofs

NoCall == [at |-> "idle"]

Init ==
  /\ PallocInit
  /\ arena = [a \in Pages |-> NONE]
  /\ free_list = [d \in Descs |-> <<>>]
  /\ desc_lock = [d \in Descs |-> NONE]
  /\ live = {} /\ groups = {}
  /\ call = [t \in Threads |-> NoCall]

Goto(t, r) == call' = [call EXCEPT ![t] = r]

-----------------------------------------------------------------------------
(* malloc.  old is the block to be resized, for realloc, or NONE.          *)

MallocCall(t, size, old) ==
  LET d == DescFor(size)
  IN IF d = NONE
     THEN /\ Step(t, Get("kernel", DivRoundUp(size + HEADER, PGSIZE)))
          /\ Goto(t, [at |-> "big", size |-> size, old |-> old])
     ELSE /\ Goto(t, [at |-> "lock", size |-> size, old |-> old, desc |-> d])
          /\ UNCHANGED pal

(* A block is returned to the caller; realloc copies to it and frees old.  *)
Return(t, c, b) ==
  IF b # NONE /\ c.old # NONE
  THEN Goto(t, [at |-> "copy", old |-> c.old, new |-> b]) /\ UNCHANGED live
  ELSE /\ live' = live \cup (IF b = NONE THEN {} ELSE {b}) \cup (IF c.old = NONE THEN {} ELSE {c.old})
       /\ Goto(t, NoCall)

MallocBig(t) ==
  LET c == call[t]
      a == pal[t].ret
  IN /\ c.at = "big" /\ pal[t].at = "got"
     /\ Step(t, Idle)
     /\ arena' = IF a = NONE THEN arena
                 ELSE [arena EXCEPT ![a] =
                        [desc |-> NONE, free_cnt |-> DivRoundUp(c.size + HEADER, PGSIZE)]]
     /\ Return(t, c, IF a = NONE THEN NONE ELSE [arena |-> a, ofs |-> HEADER, size |-> c.size])
     /\ UNCHANGED <<used_map, pool_lock, assertion, free_list, desc_lock, groups>>

(* Takes the lock; an empty free list needs a page for a new arena.        *)
MallocLock(t) ==
  LET c == call[t]
  IN /\ c.at = "lock" /\ desc_lock[c.desc] = NONE
     /\ desc_lock' = [desc_lock EXCEPT ![c.desc] = t]
     /\ IF free_list[c.desc] = <<>>
        THEN Step(t, Get("kernel", 1)) /\ Goto(t, [c EXCEPT !.at = "arena"])
        ELSE UNCHANGED pal /\ Goto(t, [c EXCEPT !.at = "pop"])
     /\ UNCHANGED <<used_map, pool_lock, assertion, arena, free_list, live, groups>>

MallocArena(t) ==
  LET c == call[t]
      d == c.desc
      a == pal[t].ret
  IN /\ c.at = "arena" /\ pal[t].at = "got"
     /\ Step(t, Idle)
     /\ IF a = NONE
        THEN /\ desc_lock' = [desc_lock EXCEPT ![d] = NONE]
             /\ Return(t, c, NONE)
             /\ UNCHANGED <<arena, free_list>>
        ELSE /\ arena' = [arena EXCEPT ![a] = [desc |-> d, free_cnt |-> blocks_per_arena(d)]]
             /\ free_list' = [free_list EXCEPT ![d] =
                  @ \o [k \in 1..blocks_per_arena(d) |-> BlockAt(a, d, k - 1)]]
             /\ Goto(t, [c EXCEPT !.at = "pop"])
             /\ UNCHANGED <<desc_lock, live>>
     /\ UNCHANGED <<used_map, pool_lock, assertion, groups>>

(* Fault: the count of the arena is not lowered.                           *)
MallocPopUncounted(t) ==
  LET c == call[t]
      b == Head(free_list[c.desc])
  IN /\ c.at = "pop"
     /\ free_list' = [free_list EXCEPT ![c.desc] = Tail(@)]
     /\ desc_lock' = [desc_lock EXCEPT ![c.desc] = NONE]
     /\ Return(t, c, [arena |-> b.arena, ofs |-> b.ofs, size |-> c.size])
     /\ UNCHANGED <<pallocVars, arena, groups>>

MallocPop(t) ==
  LET c == call[t]
      b == Head(free_list[c.desc])
  IN /\ c.at = "pop"
     /\ free_list' = [free_list EXCEPT ![c.desc] = Tail(@)]
     /\ arena' = [arena EXCEPT ![b.arena].free_cnt = @ - 1]
     /\ desc_lock' = [desc_lock EXCEPT ![c.desc] = NONE]
     /\ Return(t, c, [arena |-> b.arena, ofs |-> b.ofs, size |-> c.size])
     /\ UNCHANGED <<pallocVars, groups>>

-----------------------------------------------------------------------------
(* free, which realloc ends with; keep is the block that realloc returns.  *)

FreeCall(t, b, keep) ==
  LET a == arena[b.arena]
  IN IF a.desc # NONE
     THEN /\ Goto(t, [at |-> "flock", block |-> b, keep |-> keep, desc |-> a.desc])
          /\ UNCHANGED <<pal, arena>>
     ELSE /\ Step(t, Free(b.arena, a.free_cnt))
          /\ arena' = [arena EXCEPT ![b.arena] = NONE]
          /\ Goto(t, [at |-> "fbig", keep |-> keep])

(* Fault: the arena goes back one block too early.                         *)
FreePushEarly(t) ==
  LET c == call[t]
      d == c.desc
      a == c.block.arena
  IN /\ c.at = "flock" /\ desc_lock[d] = NONE
     /\ free_list' = [free_list EXCEPT ![d] = SelectSeq(@, LAMBDA b : b.arena # a)]
     /\ arena' = [arena EXCEPT ![a] = NONE]
     /\ desc_lock' = [desc_lock EXCEPT ![d] = t]
     /\ Step(t, Free(a, 1))
     /\ Goto(t, [c EXCEPT !.at = "farena"])
     /\ UNCHANGED <<live, assertion, used_map, pool_lock, groups>>

(* The arena goes back to the page allocator when none of it is in use.    *)
FreePush(t) ==
  LET c == call[t]
      d == c.desc
      a == c.block.arena
      cnt == arena[a].free_cnt + 1
      list == <<Block(c.block)>> \o free_list[d]
  IN /\ c.at = "flock" /\ desc_lock[d] = NONE
     /\ IF cnt >= blocks_per_arena(d)
        THEN /\ assertion' = (assertion /\ cnt = blocks_per_arena(d))
             /\ free_list' = [free_list EXCEPT ![d] =
                  SelectSeq(list, LAMBDA b : b.arena # a)]
             /\ arena' = [arena EXCEPT ![a] = NONE]
             /\ desc_lock' = [desc_lock EXCEPT ![d] = t]
             /\ Step(t, Free(a, 1))
             /\ Goto(t, [c EXCEPT !.at = "farena"])
             /\ UNCHANGED live
        ELSE /\ free_list' = [free_list EXCEPT ![d] = list]
             /\ arena' = [arena EXCEPT ![a].free_cnt = cnt]
             /\ live' = live \cup (IF c.keep = NONE THEN {} ELSE {c.keep})
             /\ Goto(t, NoCall)
             /\ UNCHANGED <<desc_lock, pal, assertion>>
     /\ UNCHANGED <<used_map, pool_lock, groups>>

FreeDone(t) ==
  LET c == call[t]
  IN /\ c.at \in {"farena", "fbig"} /\ pal[t].at = "freed"
     /\ Step(t, Idle)
     /\ desc_lock' = IF c.at = "fbig" THEN desc_lock
                     ELSE [desc_lock EXCEPT ![c.desc] = NONE]
     /\ live' = live \cup (IF c.keep = NONE THEN {} ELSE {c.keep})
     /\ Goto(t, NoCall)
     /\ UNCHANGED <<used_map, pool_lock, assertion, arena, free_list, groups>>

ReallocCopy(t) ==
  /\ call[t].at = "copy"
  /\ FreeCall(t, call[t].old, call[t].new)
  /\ UNCHANGED <<used_map, pool_lock, assertion, free_list, desc_lock, live, groups>>

-----------------------------------------------------------------------------
(* The calls that threads make.  calloc is malloc of the product of its    *)
(* arguments.                                                              *)

Ready(t) == call[t].at = "idle" /\ pal[t].at = "idle"

malloc(t, size) ==
  /\ Ready(t)
  /\ IF size = 0 THEN UNCHANGED <<pal, call>> ELSE MallocCall(t, size, NONE)
  /\ UNCHANGED <<used_map, pool_lock, assertion, arena, free_list, desc_lock, live, groups>>

free(t, b) ==
  /\ Ready(t) /\ b \in live
  /\ live' = live \ {b}
  /\ FreeCall(t, b, NONE)
  /\ UNCHANGED <<used_map, pool_lock, assertion, free_list, desc_lock, groups>>

realloc(t, old, size) ==
  /\ Ready(t) /\ old \in live
  /\ live' = live \ {old}
  /\ IF size = 0 THEN FreeCall(t, old, NONE)
     ELSE MallocCall(t, size, old) /\ UNCHANGED arena
  /\ UNCHANGED <<used_map, pool_lock, assertion, free_list, desc_lock, groups>>

palloc_get_multiple(t, pool, cnt) ==
  /\ Ready(t)
  /\ Step(t, Get(pool, cnt))
  /\ Goto(t, [at |-> "pages", cnt |-> cnt])
  /\ UNCHANGED <<used_map, pool_lock, assertion, arena, free_list, desc_lock, live, groups>>

PagesGot(t) ==
  /\ call[t].at = "pages" /\ pal[t].at = "got"
  /\ Step(t, Idle)
  /\ groups' = IF pal[t].ret = NONE THEN groups
               ELSE groups \cup {[page |-> pal[t].ret, cnt |-> call[t].cnt]}
  /\ Goto(t, NoCall)
  /\ UNCHANGED <<used_map, pool_lock, assertion, arena, free_list, desc_lock, live>>

palloc_free_multiple(t, g) ==
  /\ Ready(t) /\ g \in groups
  /\ groups' = groups \ {g}
  /\ Step(t, Free(g.page, g.cnt))
  /\ Goto(t, [at |-> "fbig", keep |-> NONE])
  /\ UNCHANGED <<used_map, pool_lock, assertion, arena, free_list, desc_lock, live>>

InPalloc(t) == PallocStep(t) /\ UNCHANGED mallocVars

Inside(t) ==
  \/ InPalloc(t)
  \/ MallocBig(t) \/ MallocLock(t) \/ MallocArena(t) \/ MallocPop(t)
  \/ FreePush(t) \/ FreeDone(t) \/ ReallocCopy(t) \/ PagesGot(t)

Next ==
  \E t \in Threads :
    \/ Inside(t)
    \/ \E size \in Sizes : malloc(t, size)
    \/ \E b \in live : free(t, b) \/ \E size \in Sizes : realloc(t, b, size)
    \/ \E pool \in Pools, cnt \in Groups : palloc_get_multiple(t, pool, cnt)
    \/ \E g \in groups : palloc_free_multiple(t, g)

Spec == Init /\ [][Next]_vars

-----------------------------------------------------------------------------
(* The blocks that threads in malloc.c answer for.                         *)
InCalls ==
  LET Of(c) ==
        CASE c.at \in {"big", "lock", "arena", "pop"} -> {c.old}
          [] c.at = "copy"  -> {c.old, c.new}
          [] c.at = "flock" -> {c.block, c.keep}
          [] c.at \in {"farena", "fbig"} -> {c.keep}
          [] OTHER -> {}
  IN (UNION {Of(call[t]) : t \in Threads}) \ {NONE}

Held == live \cup InCalls

Bytes(b) == LET start == b.arena * PGSIZE + b.ofs IN start..(start + b.size - 1)
HeaderBytes(a) == (a * PGSIZE)..(a * PGSIZE + HEADER - 1)

(* "Obtains and returns a new block of at least SIZE bytes": the blocks    *)
(* that callers hold overlap neither one another nor the header of an      *)
(* arena nor a block on a free list, whichever threads allocated and freed *)
(* them in whatever order, and no assertion of the allocators fails.       *)
BlocksDisjoint ==
  /\ assertion
  /\ \A b \in Held :
       /\ \A c \in Held \ {b} : Bytes(b) \cap Bytes(c) = {}
       /\ \A a \in Pages : arena[a] # NONE => Bytes(b) \cap HeaderBytes(a) = {}
       /\ \A d \in Descs : \A k \in 1..Len(free_list[d]) : free_list[d][k] # Block(b)
       /\ arena[b.arena] # NONE /\ b.size <= block_size(b)

(* malloc.c, "If the arena is now entirely unused, free it": the count of  *)
(* each arena is that of its blocks on the free list, which holds no block *)
(* twice and none of an arena that is gone.  The lock of the descriptor is *)
(* held only by a thread that is using it: no path forgets to release it.  *)
FreeListsExact ==
  \A d \in Descs :
    LET holder == desc_lock[d]
        list == free_list[d]
        listed == {list[k] : k \in 1..Len(list)}
    IN /\ holder # NONE => call[holder].at \in {"arena", "pop", "farena"} /\ call[holder].desc = d
       /\ Cardinality(listed) = Len(list)
       /\ \A b \in listed : arena[b.arena] # NONE /\ arena[b.arena].desc = d
       /\ \A a \in Pages :
            arena[a] # NONE /\ arena[a].desc = d
              => /\ listed \cap BlocksOf(a, d) = {b \in listed : b.arena = a}
                 /\ arena[a].free_cnt = Cardinality({b \in listed : b.arena = a})
                 /\ BlocksOf(a, d) \ listed = {Block(b) : b \in {h \in Held : h.arena = a}}

ArenaPages(a) ==
  IF arena[a] = NONE THEN {}
  ELSE IF arena[a].desc # NONE THEN {a} ELSE a..(a + arena[a].free_cnt - 1)

GotPages(t) ==
  IF pal[t].at # "got" \/ pal[t].ret = NONE THEN {}
  ELSE LET c == call[t]
           cnt == CASE c.at = "big" -> DivRoundUp(c.size + HEADER, PGSIZE)
                    [] c.at = "pages" -> c.cnt
                    [] OTHER -> 1
       IN pal[t].ret..(pal[t].ret + cnt - 1)

Owners(page) ==
  Cardinality({a \in Pages : page \in ArenaPages(a)})
    + Cardinality({g \in groups : page \in g.page..(g.page + g.cnt - 1)})
    + Cardinality({t \in Threads : page \in InTransit(t) \cup GotPages(t)})

(* Every page in use has an owner, and only one: an arena, a big block, a  *)
(* caller of the page allocator, or a thread in the middle of a call.  A   *)
(* scan that races with a free neither loses a page nor gives it twice.    *)
PagesAccounted ==
  \A page \in Pages : Owners(page) = IF page \in used_map THEN 1 ELSE 0
=============================================================================
