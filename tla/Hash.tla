-------------------------------- MODULE Hash --------------------------------
(***************************************************************************)
(* The chained hash tables of lib/kernel/hash.c.  A bucket is a sequence   *)
(* of elements (List shows what lib/kernel/list.c makes of one); the       *)
(* number of buckets follows the number of elements, if there is memory.   *)
(***************************************************************************)
EXTENDS Integers, Sequences, FiniteSets

CONSTANTS
  HElems,                 \* hash elements
  HKey,                   \* what LESS compares
  HashOf,                 \* the hash value of each key
  MIN_BUCKETS,            \* 4 in the code
  BEST_ELEMS_PER_BUCKET,
  MaxLog,                 \* bound: at most 2^MaxLog buckets
  NOELEM                  \* the null pointer

VARIABLES
  buckets,   \* a function on 0..bucket_cnt-1
  elem_cnt,
  hset,      \* what the table should hold
  hret       \* what the last call returned, and what it should have

hashVars == <<buckets, elem_cnt, hset, hret>>

bucket_cnt(b) == Cardinality(DOMAIN b)
NewBuckets(n) == [i \in 0..(n - 1) |-> <<>>]
Members(s) == {s[i] : i \in 1..Len(s)}

(* The count is a power of two, so the mask is a remainder.                *)
find_bucket(b, e) == HashOf[HKey[e]] % bucket_cnt(b)

find_elem(b, e) ==
  LET s == b[find_bucket(b, e)]
      is == {i \in 1..Len(s) : HKey[s[i]] = HKey[e]}
  IN IF is = {} THEN NOELEM ELSE s[CHOOSE i \in is : \A j \in is : i <= j]

insert_elem(b, e) == [b EXCEPT ![find_bucket(b, e)] = <<e>> \o @]
remove_elem(b, e) == [i \in DOMAIN b |-> SelectSeq(b[i], LAMBDA x : x # e)]

(* turn_off_least_1bit until a power of two is left: the highest bit.      *)
BestCnt(cnt) ==
  LET want == cnt \div BEST_ELEMS_PER_BUCKET
      most == IF want < MIN_BUCKETS THEN MIN_BUCKETS ELSE want
  IN CHOOSE n \in {2^k : k \in 0..MaxLog} : n <= most /\ most < 2 * n

(* The elements are pushed onto the new buckets from the first to the last.*)
RECURSIVE MoveAll(_, _)
MoveAll(b, s) == IF s = <<>> THEN b ELSE MoveAll(insert_elem(b, Head(s)), Tail(s))

RECURSIVE AllOf(_, _)
AllOf(b, i) == IF i = bucket_cnt(b) THEN <<>> ELSE b[i] \o AllOf(b, i + 1)

(* The tables that rehash may leave: it gives up when malloc fails.        *)
rehash(b, cnt) == {b} \cup (IF BestCnt(cnt) = bucket_cnt(b) THEN {}
                            ELSE {MoveAll(NewBuckets(BestCnt(cnt)), AllOf(b, 0))})

HashInit ==
  /\ buckets = NewBuckets(MIN_BUCKETS)
  /\ elem_cnt = 0
  /\ hset = {}
  /\ hret = [got |-> NOELEM, want |-> NOELEM]

Equal(e) == {x \in hset : HKey[x] = HKey[e]}
EqualOrNull(e) == IF Equal(e) = {} THEN NOELEM ELSE CHOOSE x \in Equal(e) : TRUE

HashOp(b, cnt, s, e) ==
  /\ buckets' \in rehash(b, cnt)
  /\ elem_cnt' = cnt
  /\ hset' = s
  /\ hret' = [got |-> find_elem(buckets, e), want |-> EqualOrNull(e)]

hash_insert ==
  \E e \in HElems \ hset :
    IF find_elem(buckets, e) = NOELEM
    THEN HashOp(insert_elem(buckets, e), elem_cnt + 1, hset \cup {e}, e)
    ELSE HashOp(buckets, elem_cnt, hset, e)

hash_replace ==
  \E e \in HElems \ hset :
    LET old == find_elem(buckets, e)
    IN IF old = NOELEM
       THEN HashOp(insert_elem(buckets, e), elem_cnt + 1, hset \cup {e}, e)
       ELSE HashOp(insert_elem(remove_elem(buckets, old), e), elem_cnt, (hset \ Equal(e)) \cup {e}, e)

hash_delete ==
  \E e \in HElems :
    LET found == find_elem(buckets, e)
    IN IF found = NOELEM
       THEN UNCHANGED <<buckets, elem_cnt, hset>>
            /\ hret' = [got |-> NOELEM, want |-> EqualOrNull(e)]
       ELSE HashOp(remove_elem(buckets, found), elem_cnt - 1, hset \ Equal(e), e)

(* The buckets stay as many as they are.                                   *)
hash_clear ==
  /\ buckets' = NewBuckets(bucket_cnt(buckets))
  /\ elem_cnt' = 0
  /\ hset' = {}
  /\ hret' = [got |-> NOELEM, want |-> NOELEM]

HashNext == hash_insert \/ hash_replace \/ hash_delete \/ hash_clear

(* The elements that hash_first and hash_next go through, in their order:  *)
(* from bucket i on, empty buckets are passed over.                        *)
RECURSIVE Iterate(_, _, _)
Iterate(b, i, k) ==
  IF k < Len(b[i]) THEN <<b[i][k + 1]>> \o Iterate(b, i, k + 1)
  ELSE IF i + 1 >= bucket_cnt(b) THEN <<>>
  ELSE Iterate(b, i + 1, 0)

hash_apply(b) == AllOf(b, 0)

(* hash.h: the table holds what was inserted or replaced and not deleted   *)
(* since, each key once; every element can be found in the bucket that its *)
(* hash selects although the buckets were resized, or could not be; an     *)
(* iteration meets each element exactly once.                              *)
HashIsSet ==
  /\ hret.got = hret.want
  /\ elem_cnt = Cardinality(hset)
  /\ \A e \in HElems : find_elem(buckets, e) = EqualOrNull(e)
  /\ \A e, f \in hset : HKey[e] = HKey[f] => e = f
  /\ \A s \in {Iterate(buckets, 0, 0), hash_apply(buckets)} :
       Members(s) = hset /\ Len(s) = elem_cnt
=============================================================================
