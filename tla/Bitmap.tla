------------------------------- MODULE Bitmap -------------------------------
(***************************************************************************)
(* The bitmaps of lib/kernel/bitmap.c: an array of elements of ELEM_BITS   *)
(* bits that simulates an array of bits.  An element is the set of its     *)
(* bits that are 1.  Beside it each step records what the operation means  *)
(* for an array of bits.                                                   *)
(***************************************************************************)
EXTENDS Integers, Sequences, FiniteSets

CONSTANTS
  ELEM_BITS,
  BitCounts,      \* the sizes of bitmaps that are made
  BITMAP_ERROR

VARIABLES
  bitmap,  \* [bit_cnt, bits]
  abits,   \* the bits that should be set
  bfile,   \* what the file holds: bits of the elements written last
  bret     \* what the last call returned, and what it should have

bitmapVars == <<bitmap, abits, bfile, bret>>

elem_idx(i) == i \div ELEM_BITS
bit_mask(i) == {i % ELEM_BITS}
elem_cnt_of(n) == (n + ELEM_BITS - 1) \div ELEM_BITS
FullElem == 0..(ELEM_BITS - 1)

last_mask(b) ==
  LET last_bits == b.bit_cnt % ELEM_BITS
  IN IF last_bits # 0 THEN 0..(last_bits - 1) ELSE FullElem

Xor(x, y) == (x \ y) \cup (y \ x)

bitmap_mark(b, i) == [b EXCEPT !.bits[elem_idx(i)] = @ \cup bit_mask(i)]
bitmap_reset(b, i) == [b EXCEPT !.bits[elem_idx(i)] = @ \ bit_mask(i)]
bitmap_flip(b, i) == [b EXCEPT !.bits[elem_idx(i)] = Xor(@, bit_mask(i))]
bitmap_set(b, i, value) == IF value THEN bitmap_mark(b, i) ELSE bitmap_reset(b, i)
bitmap_test(b, i) == b.bits[elem_idx(i)] \cap bit_mask(i) # {}

RECURSIVE bitmap_set_multiple(_, _, _, _)
bitmap_set_multiple(b, start, cnt, value) ==
  IF cnt = 0 THEN b
  ELSE bitmap_set_multiple(bitmap_set(b, start, value), start + 1, cnt - 1, value)

bitmap_set_all(b, value) == bitmap_set_multiple(b, 0, b.bit_cnt, value)

(* The elements of a new bitmap are whatever malloc returned.              *)
bitmap_create(n, garbage) ==
  bitmap_set_all([bit_cnt |-> n, bits |-> [k \in 0..(elem_cnt_of(n) - 1) |-> garbage]], FALSE)

RECURSIVE bitmap_count(_, _, _, _)
bitmap_count(b, start, cnt, value) ==
  IF cnt = 0 THEN 0
  ELSE (IF bitmap_test(b, start) = value THEN 1 ELSE 0) + bitmap_count(b, start + 1, cnt - 1, value)

RECURSIVE bitmap_contains(_, _, _, _)
bitmap_contains(b, start, cnt, value) ==
  cnt # 0 /\ (bitmap_test(b, start) = value \/ bitmap_contains(b, start + 1, cnt - 1, value))

bitmap_any(b, start, cnt) == bitmap_contains(b, start, cnt, TRUE)
bitmap_none(b, start, cnt) == ~bitmap_contains(b, start, cnt, TRUE)
bitmap_all(b, start, cnt) == ~bitmap_contains(b, start, cnt, FALSE)

RECURSIVE ScanFrom(_, _, _, _, _)
ScanFrom(b, i, last, cnt, value) ==
  IF i > last THEN BITMAP_ERROR
  ELSE IF ~bitmap_contains(b, i, cnt, ~value) THEN i
  ELSE ScanFrom(b, i + 1, last, cnt, value)

bitmap_scan(b, start, cnt, value) ==
  IF cnt <= b.bit_cnt THEN ScanFrom(b, start, b.bit_cnt - cnt, cnt, value) ELSE BITMAP_ERROR

-----------------------------------------------------------------------------
Bits == 0..(bitmap.bit_cnt - 1)
Group(start, cnt) == start..(start + cnt - 1)
Starts == 0..bitmap.bit_cnt
AllSet(start, cnt, value) == \A i \in Group(start, cnt) : (i \in abits) = value

(* The first group of cnt bits at or after start that are all value.       *)
FirstGroup(start, cnt, value) ==
  LET is == {i \in start..(bitmap.bit_cnt - cnt) : AllSet(i, cnt, value)}
  IN IF is = {} THEN BITMAP_ERROR ELSE CHOOSE i \in is : \A j \in is : i <= j

BitmapInit ==
  /\ bitmap = bitmap_create(CHOOSE n \in BitCounts : TRUE, {})
  /\ abits = {}
  /\ bfile = bitmap.bits
  /\ bret = [got |-> 0, want |-> 0]

BitmapOp(b, s, got, want) ==
  /\ bitmap' = b
  /\ abits' = s
  /\ bret' = [got |-> got, want |-> want]
  /\ UNCHANGED bfile

Create ==
  \E n \in BitCounts, garbage \in SUBSET FullElem :
    /\ bitmap' = bitmap_create(n, garbage)
    /\ abits' = {}
    /\ bfile' = bitmap'.bits
    /\ bret' = [got |-> 0, want |-> 0]

SetOne ==
  \E i \in Bits :
    \/ BitmapOp(bitmap_mark(bitmap, i), abits \cup {i}, 0, 0)
    \/ BitmapOp(bitmap_reset(bitmap, i), abits \ {i}, 0, 0)
    \/ BitmapOp(bitmap_flip(bitmap, i), Xor(abits, {i}), 0, 0)

SetMany ==
  \E start \in Starts : \E cnt \in 0..(bitmap.bit_cnt - start), value \in BOOLEAN :
    BitmapOp(bitmap_set_multiple(bitmap, start, cnt, value),
             IF value THEN abits \cup Group(start, cnt) ELSE abits \ Group(start, cnt), 0, 0)

ScanAndFlip ==
  \E start \in Starts, cnt \in 0..(bitmap.bit_cnt + 1), value \in BOOLEAN :
    LET idx == bitmap_scan(bitmap, start, cnt, value)
    IN BitmapOp(IF idx = BITMAP_ERROR THEN bitmap ELSE bitmap_set_multiple(bitmap, idx, cnt, ~value),
                IF FirstGroup(start, cnt, value) = BITMAP_ERROR THEN abits
                ELSE Xor(abits, Group(FirstGroup(start, cnt, value), cnt)),
                idx, FirstGroup(start, cnt, value))

(* bitmap_write stores whole elements; another program may set the bits of *)
(* the last one that the bitmap does not use.                              *)
bitmap_write ==
  \E junk \in SUBSET FullElem :
    LET last == elem_cnt_of(bitmap.bit_cnt) - 1
    IN /\ bfile' = [bitmap.bits EXCEPT ![last] = @ \cup (junk \ last_mask(bitmap))]
       /\ UNCHANGED <<bitmap, abits, bret>>

(* bitmap_read.                                                            *)
bitmap_read ==
  LET last == elem_cnt_of(bitmap.bit_cnt) - 1
      b == [bitmap EXCEPT !.bits = [bfile EXCEPT ![last] = @ \cap last_mask(bitmap)]]
  IN BitmapOp(b, {i \in Bits : i % ELEM_BITS \in bfile[i \div ELEM_BITS]}, 0, 0)

BitmapNext == Create \/ SetOne \/ SetMany \/ ScanAndFlip \/ bitmap_write \/ bitmap_read

(* bitmap.c, "From the outside, a bitmap is an array of bits": every bit   *)
(* tests as it was set last, the counts, the tests of groups and the scans *)
(* agree with the array also where a group crosses elements or ends the    *)
(* bitmap, whatever the bits are that the last element does not use.       *)
BitmapIsArray ==
  /\ bret.got = bret.want
  /\ \A i \in Bits : bitmap_test(bitmap, i) = (i \in abits)
  /\ \A start \in Starts, value \in BOOLEAN :
       /\ \A cnt \in 0..(bitmap.bit_cnt - start) :
            /\ bitmap_count(bitmap, start, cnt, value)
                 = Cardinality({i \in Group(start, cnt) : (i \in abits) = value})
            /\ bitmap_all(bitmap, start, cnt) = AllSet(start, cnt, TRUE)
            /\ bitmap_none(bitmap, start, cnt) = AllSet(start, cnt, FALSE)
            /\ bitmap_any(bitmap, start, cnt) # bitmap_none(bitmap, start, cnt)
       /\ \A cnt \in 0..(bitmap.bit_cnt + 1) :
            bitmap_scan(bitmap, start, cnt, value) = FirstGroup(start, cnt, value)
=============================================================================
