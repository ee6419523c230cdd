-------------------------------- MODULE List --------------------------------
(***************************************************************************)
(* The doubly linked lists of lib/kernel/list.c.  The heap maps each list  *)
(* element, and the head and the tail of each list, to its two links;      *)
(* every operation is the function from heaps to heaps that its pointer    *)
(* assignments compute.  Callers keep the contracts of list.h.  Beside the *)
(* heap each step records what the operation means for a list taken as a   *)
(* sequence.                                                               *)
(***************************************************************************)
EXTENDS Integers, Sequences, SequencesExt

CONSTANTS
  Elems,     \* list elements
  Lists,
  Key,       \* what LESS compares
  NIL        \* the null pointer

VARIABLES
  heap,      \* the links: [prev |-> ..., next |-> ...]
  lseq,      \* what each list should hold
  lok        \* FALSE once an ASSERT of list.c has failed, or an operation has
             \* returned anything but what it should have

listVars == <<heap, lseq, lok>>

head(l) == <<"head", l>>
tail(l) == <<"tail", l>>
Nodes == {<<"elem", e>> : e \in Elems} \cup {head(l) : l \in Lists} \cup {tail(l) : l \in Lists}
El(e) == <<"elem", e>>
less(a, b) == Key[a[2]] < Key[b[2]]

is_interior(h, n) == h.prev[n] # NIL /\ h.next[n] # NIL
is_tail(h, n) == h.prev[n] # NIL /\ h.next[n] = NIL

list_init(h, l) ==
  [prev |-> [h.prev EXCEPT ![head(l)] = NIL, ![tail(l)] = head(l)],
   next |-> [h.next EXCEPT ![head(l)] = tail(l), ![tail(l)] = NIL]]

NullHeap == [prev |-> [n \in Nodes |-> NIL], next |-> [n \in Nodes |-> NIL]]

ListInit ==
  /\ heap = FoldSet(LAMBDA l, h : list_init(h, l), NullHeap, Lists)
  /\ lseq = [l \in Lists |-> <<>>]
  /\ lok = TRUE

list_begin(h, l) == h.next[head(l)]
list_rbegin(h, l) == h.prev[tail(l)]
list_end(h, l) == tail(l)
list_empty(h, l) == list_begin(h, l) = list_end(h, l)

(* Fault: the element before is not linked to the new one.                 *)
list_insertOneWay(h, before, n) ==
  [prev |-> [h.prev EXCEPT ![n] = h.prev[before], ![before] = n],
   next |-> [h.next EXCEPT ![n] = before]]

list_insert(h, before, n) ==
  LET p == h.prev[before]
  IN [prev |-> [h.prev EXCEPT ![n] = p, ![before] = n],
      next |-> [h.next EXCEPT ![n] = before, ![p] = n]]

list_remove(h, n) ==
  [prev |-> [h.prev EXCEPT ![h.next[n]] = h.prev[n]],
   next |-> [h.next EXCEPT ![h.prev[n]] = h.next[n]]]

(* first up to, but not including, last goes before before.                *)
list_splice(h, before, first, last) ==
  IF first = last THEN h
  ELSE LET end == h.prev[last]
           cut == [prev |-> [h.prev EXCEPT ![h.next[end]] = h.prev[first]],
                   next |-> [h.next EXCEPT ![h.prev[first]] = h.next[end]]]
           p == cut.prev[before]
       IN [prev |-> [cut.prev EXCEPT ![first] = p, ![before] = end],
           next |-> [cut.next EXCEPT ![end] = before, ![p] = first]]

RECURSIVE SwapLinks(_, _, _)
SwapLinks(h, e, end) ==
  IF e = end THEN h
  ELSE LET s == [prev |-> [h.prev EXCEPT ![e] = h.next[e]], next |-> [h.next EXCEPT ![e] = h.prev[e]]]
       IN SwapLinks(s, s.prev[e], end)

list_reverse(h, l) ==
  IF list_empty(h, l) THEN h
  ELSE LET s == SwapLinks(h, list_begin(h, l), list_end(h, l))
           first == s.prev[tail(l)]
           last == s.next[head(l)]
       IN [prev |-> [s.prev EXCEPT ![tail(l)] = last, ![first] = s.next[last]],
           next |-> [s.next EXCEPT ![head(l)] = first, ![last] = s.prev[first]]]

-----------------------------------------------------------------------------
(* Sorting.                                                                *)

RECURSIVE is_sorted(_, _, _)
is_sorted(h, a, b) ==
  a = b \/ LET n == h.next[a] IN n = b \/ (~less(n, a) /\ is_sorted(h, n, b))

RECURSIVE find_end_of_run(_, _, _)
find_end_of_run(h, a, b) ==
  LET n == h.next[a] IN IF n # b /\ ~less(n, a) THEN find_end_of_run(h, n, b) ELSE n

RECURSIVE inplace_merge(_, _, _, _)
inplace_merge(h, a0, a1b0, b1) ==
  IF a0 = a1b0 \/ a1b0 = b1 THEN h
  ELSE IF ~less(a1b0, a0) THEN inplace_merge(h, h.next[a0], a1b0, b1)
  ELSE inplace_merge(list_splice(h, a0, a1b0, h.next[a1b0]), a0, h.next[a1b0], b1)

(* One pass: merges adjacent runs from a0, and counts the runs it outputs. *)
RECURSIVE MergePass(_, _, _, _)
MergePass(h, l, a0, cnt) ==
  IF a0 = list_end(h, l) THEN [heap |-> h, cnt |-> cnt]
  ELSE LET a1b0 == find_end_of_run(h, a0, list_end(h, l))
       IN IF a1b0 = list_end(h, l) THEN [heap |-> h, cnt |-> cnt + 1]
          ELSE LET b1 == find_end_of_run(h, a1b0, list_end(h, l))
               IN MergePass(inplace_merge(h, a0, a1b0, b1), l, b1, cnt + 1)

RECURSIVE list_sort(_, _)
list_sort(h, l) ==
  LET pass == MergePass(h, l, list_begin(h, l), 0)
  IN IF pass.cnt > 1 THEN list_sort(pass.heap, l) ELSE pass.heap

RECURSIVE FirstLess(_, _, _, _)
FirstLess(h, n, e, end) ==
  IF e = end \/ less(n, e) THEN e ELSE FirstLess(h, n, h.next[e], end)

list_insert_ordered(h, l, n) == list_insert(h, FirstLess(h, n, list_begin(h, l), list_end(h, l)), n)

(* dups is a list or NIL.                                                  *)
RECURSIVE UniqueFrom(_, _, _, _)
UniqueFrom(h, l, e, dups) ==
  LET n == h.next[e]
      cut == list_remove(h, n)
  IN IF n = list_end(h, l) THEN h
     ELSE IF ~less(e, n) /\ ~less(n, e)
     THEN UniqueFrom(IF dups = NIL THEN cut ELSE list_insert(cut, tail(dups), n), l, e, dups)
     ELSE UniqueFrom(h, l, n, dups)

list_unique(h, l, dups) ==
  IF list_empty(h, l) THEN h ELSE UniqueFrom(h, l, list_begin(h, l), dups)

(* list_max and list_min keep the best element so far.                     *)
RECURSIVE MaxFrom(_, _, _, _)
MaxFrom(h, max, e, end) ==
  IF e = end THEN max ELSE MaxFrom(h, IF less(max, e) THEN e ELSE max, h.next[e], end)

list_max(h, l) ==
  LET b == list_begin(h, l) IN IF b = tail(l) THEN b ELSE MaxFrom(h, b, h.next[b], tail(l))

RECURSIVE MinFrom(_, _, _, _)
MinFrom(h, min, e, end) ==
  IF e = end THEN min ELSE MinFrom(h, IF less(e, min) THEN e ELSE min, h.next[e], end)

list_min(h, l) ==
  LET b == list_begin(h, l) IN IF b = tail(l) THEN b ELSE MinFrom(h, b, h.next[b], tail(l))

RECURSIVE WalkFrom(_, _, _)
WalkFrom(link, n, stop) == IF n = stop THEN <<>> ELSE <<n[2]>> \o WalkFrom(link, link[n], stop)

Walk(h, l) == WalkFrom(h.next, list_begin(h, l), list_end(h, l))
WalkBack(h, l) == WalkFrom(h.prev, list_rbegin(h, l), head(l))
list_size(h, l) == Len(Walk(h, l))

-----------------------------------------------------------------------------
(* What the operations mean for sequences.                                 *)

Unlisted == {e \in Elems : \A l \in Lists : ~Contains(lseq[l], e)}
ListOf(e) == CHOOSE l \in Lists : Contains(lseq[l], e)
IndexOf(s, e) == CHOOSE i \in 1..Len(s) : s[i] = e
NodeAt(l, i) == IF i = Len(lseq[l]) + 1 THEN tail(l) ELSE El(lseq[l][i])

InOrder(s) == \A i \in 1..(Len(s) - 1) : Key[s[i]] <= Key[s[i + 1]]

(* The stable sort of a sequence: its elements key by key.                 *)
RECURSIVE Stable(_, _)
Stable(s, keys) ==
  IF keys = {} THEN <<>>
  ELSE LET k == CHOOSE x \in keys : \A y \in keys : x <= y
       IN SelectSeq(s, LAMBDA e : Key[e] = k) \o Stable(s, keys \ {k})

Firsts(s) == {i \in 1..Len(s) : i = 1 \/ Key[s[i]] # Key[s[i - 1]]}
At(s, is) == [k \in 1..Cardinality(is) |-> s[CHOOSE i \in is : Cardinality({j \in is : j <= i}) = k]]

(* The links of an element that leaves its list are garbage; as NIL they   *)
(* would be noticed if an operation followed them.                         *)
Forgotten(link, s) ==
  [n \in Nodes |-> IF n[1] = "elem" /\ \A l \in Lists : ~Contains(s[l], n[2]) THEN NIL ELSE link[n]]

ListOp(h, s, ok) ==
  /\ heap' = [prev |-> Forgotten(h.prev, s), next |-> Forgotten(h.next, s)]
  /\ lseq' = s
  /\ lok' = (lok /\ ok)

ListInsert ==
  \E e \in Unlisted, l \in Lists : \E i \in 1..(Len(lseq[l]) + 1) :
    LET b == NodeAt(l, i)
    IN ListOp(list_insert(heap, b, El(e)), [lseq EXCEPT ![l] = InsertAt(@, i, e)],
          is_interior(heap, b) \/ is_tail(heap, b))

ListPushFront ==
  \E e \in Unlisted, l \in Lists :
    ListOp(list_insert(heap, list_begin(heap, l), El(e)), [lseq EXCEPT ![l] = <<e>> \o @], TRUE)

ListPushBack ==
  \E e \in Unlisted, l \in Lists :
    ListOp(list_insert(heap, list_end(heap, l), El(e)), [lseq EXCEPT ![l] = Append(@, e)], TRUE)

ListRemove ==
  \E e \in Elems \ Unlisted :
    LET l == ListOf(e)
        i == IndexOf(lseq[l], e)
    IN ListOp(list_remove(heap, El(e)), [lseq EXCEPT ![l] = RemoveAt(@, i)],
          is_interior(heap, El(e)) /\ heap.next[El(e)] = NodeAt(l, i + 1))

ListPopFront ==
  \E l \in Lists :
    /\ lseq[l] # <<>>
    /\ ListOp(list_remove(heap, list_begin(heap, l)), [lseq EXCEPT ![l] = Tail(@)],
          ~list_empty(heap, l) /\ list_begin(heap, l) = El(Head(lseq[l])))

ListPopBack ==
  \E l \in Lists :
    /\ lseq[l] # <<>>
    /\ ListOp(list_remove(heap, list_rbegin(heap, l)), [lseq EXCEPT ![l] = Front(@)],
          ~list_empty(heap, l) /\ list_rbegin(heap, l) = El(Last(lseq[l])))

(* Elements i up to j of list a go before element k of list b.             *)
ListSplice ==
  \E a, b \in Lists : \E i \in 1..(Len(lseq[a]) + 1) :
    \E j \in i..(Len(lseq[a]) + 1), k \in 1..(Len(lseq[b]) + 1) :
      /\ a = b => k < i \/ k >= j
      /\ LET part == SubSeq(lseq[a], i, j - 1)
             rest == [lseq EXCEPT ![a] = SubSeq(@, 1, i - 1) \o SubSeq(@, j, Len(@))]
             at == IF a = b /\ k >= j THEN k - Len(part) ELSE k
         IN ListOp(list_splice(heap, NodeAt(b, k), NodeAt(a, i), NodeAt(a, j)),
               [rest EXCEPT ![b] = SubSeq(@, 1, at - 1) \o part \o SubSeq(@, at, Len(@))],
               TRUE)

ListReverse ==
  \E l \in Lists : ListOp(list_reverse(heap, l), [lseq EXCEPT ![l] = Reverse(@)], TRUE)

ListSort ==
  \E l \in Lists :
    LET h == list_sort(heap, l)
    IN ListOp(h, [lseq EXCEPT ![l] = Stable(@, {Key[e] : e \in Elems})],
          is_sorted(h, list_begin(h, l), list_end(h, l)))

ListInsertOrdered ==
  \E e \in Unlisted, l \in Lists :
    /\ InOrder(lseq[l])
    /\ ListOp(list_insert_ordered(heap, l, El(e)),
          [lseq EXCEPT ![l] = SelectSeq(@, LAMBDA x : Key[x] <= Key[e]) \o <<e>>
                                \o SelectSeq(@, LAMBDA x : Key[x] > Key[e])], TRUE)

ListUnique ==
  \E l \in Lists : \E dups \in (Lists \ {l}) \cup {NIL} :
    LET s == lseq[l]
        kept == [lseq EXCEPT ![l] = At(s, Firsts(s))]
    IN ListOp(list_unique(heap, l, dups),
          IF dups = NIL THEN kept
          ELSE [kept EXCEPT ![dups] = @ \o At(s, (1..Len(s)) \ Firsts(s))], TRUE)

ListNext ==
  \/ ListInsert \/ ListPushFront \/ ListPushBack \/ ListRemove \/ ListPopFront \/ ListPopBack \/ ListSplice
  \/ ListReverse \/ ListSort \/ ListInsertOrdered \/ ListUnique

-----------------------------------------------------------------------------
Best(s, Better(_, _)) ==
  CHOOSE i \in 1..Len(s) :
    /\ \A j \in 1..Len(s) : ~Better(Key[s[j]], Key[s[i]])
    /\ \A j \in 1..(i - 1) : Better(Key[s[i]], Key[s[j]])

(* list.h, "a doubly linked list": after any sequence of calls each list   *)
(* reads the same in both directions and holds what the calls ask for;     *)
(* list_sort is stable and list_reverse, list_splice and list_unique leave *)
(* no link behind; every call returns what it should, and no assertion of  *)
(* list.c fails.                                                           *)
ListIsSequence ==
  /\ lok
  /\ \A l \in Lists :
       LET s == lseq[l]
       IN /\ Walk(heap, l) = s /\ WalkBack(heap, l) = Reverse(s)
          /\ list_size(heap, l) = Len(s) /\ list_empty(heap, l) = (s = <<>>)
          /\ list_max(heap, l) = IF s = <<>> THEN tail(l) ELSE El(s[Best(s, LAMBDA x, y : x > y)])
          /\ list_min(heap, l) = IF s = <<>> THEN tail(l) ELSE El(s[Best(s, LAMBDA x, y : x < y)])
=============================================================================
