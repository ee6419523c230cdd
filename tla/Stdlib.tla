------------------------------- MODULE Stdlib -------------------------------
(***************************************************************************)
(* lib/stdlib.c, lib/arithmetic.c and lib/random.c: sorting and searching, *)
(* the conversion of a decimal number, the 64-bit division that the kernel *)
(* supplies in place of libgcc, and the pseudo-random bytes.  Words are    *)
(* HALF bits wide where the source has 32, so that every dividend and      *)
(* divisor can be tried.                                                   *)
(***************************************************************************)
EXTENDS Integers, Sequences, FiniteSets

CONSTANTS
  HALF,        \* bits of a word: a power of two, 32 in the source
  INT_BITS,    \* bits of an int in atoi
  Texts,       \* strings for atoi, as sequences of characters
  MaxArray,    \* elements of an array to sort
  Values,      \* its values
  RC4_SIZE,    \* entries of the generator's table, 256 in the source
  Seeds        \* seeds for random_init, as sequences of bytes

VARIABLES scase

(* A word of HALF bits and a double word, as divl and udiv64 see them.     *)
B == 2^HALF
Double(x) == x % (B * B)
Signed(x, w) == IF x >= 2^(w - 1) THEN x - 2^w ELSE x

-----------------------------------------------------------------------------
(* arithmetic.c                                                            *)

(* The instruction traps when the quotient does not fit in a word.         *)
TRAP == -1
divl(n, d) == IF n \div d < B THEN n \div d ELSE TRAP

RECURSIVE nlzStep(_, _)
nlzStep(x, w) ==
  IF w = 0 THEN 0
  ELSE IF x <= 2^(HALF - w) - 1 THEN w + nlzStep((x * 2^w) % B, w \div 2)
  ELSE nlzStep(x, w \div 2)

nlz(x) == nlzStep(x, HALF \div 2)

udiv64(n, d) ==
  IF d \div B = 0
  THEN Double(divl(B * ((n \div B) % d) + (n % B), d) + B * ((n \div B) \div d))
  ELSE IF n < d THEN 0
  ELSE LET s == nlz(d \div B)
           q == divl(n \div 2, Double(d * 2^s) \div B) \div 2^(HALF - 1 - s)
       IN IF Double(n - (q - 1) * d) < d THEN q - 1 ELSE q

(* The remainder is returned as a single word.                             *)
umod64(n, d) == Double(n - d * udiv64(n, d)) % B

(* n and d are the signed values; so is the result.                        *)
sdiv64(n, d) ==
  LET Abs(x) == IF x >= 0 THEN x ELSE Double(-Double(x))
      q == udiv64(Abs(n), Abs(d))
  IN Signed(IF (n < 0) = (d < 0) THEN q ELSE Double(-q), 2 * HALF)

smod64(n, d) == Signed((n - d * sdiv64(n, d)) % B, HALF)

-----------------------------------------------------------------------------
(* stdlib.c                                                                *)

(* Characters: a digit is its value.                                       *)
SPACE == -1
PLUS == -2
MINUS == -3
LETTER == -4

RECURSIVE skip_space(_)
skip_space(s) == IF s # <<>> /\ Head(s) = SPACE THEN skip_space(Tail(s)) ELSE s

OVERFLOW == 2^INT_BITS
FitsInt(v) == v \in -(2^(INT_BITS - 1))..(2^(INT_BITS - 1) - 1)
IntResult(v) == IF FitsInt(v) THEN v ELSE OVERFLOW

RECURSIVE atoiDigits(_, _)
atoiDigits(s, value) ==
  IF value = OVERFLOW THEN OVERFLOW
  ELSE IF s = <<>> \/ Head(s) \in {SPACE, PLUS, MINUS, LETTER} THEN value
  ELSE atoiDigits(Tail(s), IF FitsInt(value * 10) THEN IntResult(value * 10 - Head(s)) ELSE OVERFLOW)

atoi(text) ==
  LET s == skip_space(text)
      negative == s # <<>> /\ Head(s) = MINUS
      digits == IF s # <<>> /\ Head(s) \in {PLUS, MINUS} THEN Tail(s) ELSE s
      value == atoiDigits(digits, 0)
  IN IF value = OVERFLOW \/ negative THEN value ELSE IntResult(-value)

do_swap(a, i, j) == [a EXCEPT ![i] = a[j], ![j] = a[i]]

RECURSIVE heapify(_, _, _)
heapify(a, i, cnt) ==
  LET left == 2 * i
      right == 2 * i + 1
      m1 == IF left <= cnt /\ a[left] > a[i] THEN left ELSE i
      max == IF right <= cnt /\ a[right] > a[m1] THEN right ELSE m1
  IN IF max = i THEN a ELSE heapify(do_swap(a, i, max), max, cnt)

RECURSIVE build_heap(_, _)
build_heap(a, i) == IF i = 0 THEN a ELSE build_heap(heapify(a, i, Len(a)), i - 1)

RECURSIVE sort_heap(_, _)
sort_heap(a, i) == IF i <= 1 THEN a ELSE sort_heap(heapify(do_swap(a, 1, i), 1, i - 1), i - 1)

sort(a) == sort_heap(build_heap(a, Len(a) \div 2), Len(a))

(* first and last are element indices from 0; 0 is the null pointer of the *)
(* result, which is otherwise an index from 1.                             *)
RECURSIVE search(_, _, _, _)
search(key, a, first, last) ==
  LET middle == first + (last - first) \div 2
  IN IF first >= last THEN 0
     ELSE IF key < a[middle + 1] THEN search(key, a, first, middle)
     ELSE IF key > a[middle + 1] THEN search(key, a, middle + 1, last)
     ELSE middle + 1

binary_search(key, a) == search(key, a, 0, Len(a))

-----------------------------------------------------------------------------
(* random.c                                                                *)

swap_byte(s, i, j) == [s EXCEPT ![i] = s[j], ![j] = s[i]]

RECURSIVE Shuffle(_, _, _, _)
Shuffle(s, seed, i, j) ==
  IF i = RC4_SIZE THEN s
  ELSE LET k == (j + s[i] + seed[(i % Len(seed)) + 1]) % RC4_SIZE
       IN Shuffle(swap_byte(s, i, k), seed, i + 1, k)

random_init(r, seed) ==
  IF r.inited THEN r
  ELSE [s |-> Shuffle([k \in 0..(RC4_SIZE - 1) |-> k], seed, 0, 0),
        i |-> 0, j |-> 0, inited |-> TRUE, out |-> 0]

(* One byte of the loop of random_bytes; `out' is the byte that is stored. *)
random_byte(r0) ==
  LET r == random_init(r0, <<0>>)
      i == (r.i + 1) % RC4_SIZE
      j == (r.j + r.s[i]) % RC4_SIZE
      s == swap_byte(r.s, i, j)
  IN [s |-> s, i |-> i, j |-> j, inited |-> TRUE, out |-> s[(s[i] + s[j]) % RC4_SIZE]]

-----------------------------------------------------------------------------
(* One question at a time is put to the library.                           *)

FreshRandom == [s |-> [k \in 0..(RC4_SIZE - 1) |-> 0], i |-> 0, j |-> 0, inited |-> FALSE, out |-> 0]

StdlibInit == scase = [ask |-> "none"]

Divide == scase.ask = "none" /\ \E n \in 0..(B * B - 1) : scase' = [ask |-> "divide", n |-> n]
Sort ==
  /\ scase.ask = "none"
  /\ \E len \in 0..MaxArray : \E a \in [1..len -> Values] : scase' = [ask |-> "sort", a |-> a]
Parse == scase.ask = "none" /\ \E t \in Texts : scase' = [ask |-> "parse", text |-> t]
Generator == IF scase.ask = "random" THEN scase.r ELSE FreshRandom
Seed ==
  /\ scase.ask \in {"none", "random"}
  /\ \E seed \in Seeds : scase' = [ask |-> "random", r |-> random_init(Generator, seed)]
Random ==
  /\ scase.ask \in {"none", "random"}
  /\ scase' = [ask |-> "random", r |-> random_byte(Generator)]

StdlibNext == Divide \/ Sort \/ Parse \/ Seed \/ Random

-----------------------------------------------------------------------------
(* C's division truncates towards zero.                                    *)
Quotient(n, d) ==
  LET Abs(x) == IF x < 0 THEN -x ELSE x
      q == Abs(n) \div Abs(d)
  IN IF (n < 0) = (d < 0) THEN q ELSE -q

(* arithmetic.c: udiv64 is the quotient for every dividend and nonzero     *)
(* divisor, sdiv64 the truncated one except where it does not exist (the   *)
(* least number divided by -1), and the divide instruction never traps on  *)
(* the way; the remainders agree as long as they fit the single word in    *)
(* which umod64 and smod64 return them.                                    *)
DivisionExact ==
  scase.ask = "divide" =>
    \A d \in 1..(B * B - 1) :
      /\ udiv64(scase.n, d) = scase.n \div d
      /\ scase.n % d < B => umod64(scase.n, d) = scase.n % d
      /\ LET sn == Signed(scase.n, 2 * HALF)
             sd == Signed(d, 2 * HALF)
             r == sn - sd * Quotient(sn, sd)
         IN ~(sn = -((B * B) \div 2) /\ sd = -1) =>
              /\ sdiv64(sn, sd) = Quotient(sn, sd)
              /\ r \in -(B \div 2)..((B \div 2) - 1) => smod64(sn, sd) = r

Occurrences(a, v) == Cardinality({i \in DOMAIN a : a[i] = v})

(* stdlib.c: sort leaves a sorted arrangement of the same elements, and    *)
(* binary_search on it finds every value that is there and no other.       *)
SortAndSearch ==
  scase.ask = "sort" =>
    LET s == sort(scase.a)
    IN /\ \A i \in 1..(Len(s) - 1) : s[i] <= s[i + 1]
       /\ \A v \in Values :
            /\ Occurrences(s, v) = Occurrences(scase.a, v)
            /\ LET k == binary_search(v, s)
               IN IF Occurrences(s, v) = 0 THEN k = 0 ELSE k \in DOMAIN s /\ s[k] = v

(* The value a text denotes: its digits after white space and one sign.    *)
DigitsOf(t) ==
  LET start == CHOOSE i \in 1..(Len(t) + 1) :
                 /\ i > Len(t) \/ t[i] # SPACE
                 /\ \A j \in 1..(i - 1) : t[j] = SPACE
      signed == start <= Len(t) /\ t[start] \in {PLUS, MINUS}
      first == IF signed THEN start + 1 ELSE start
      last == CHOOSE i \in (first - 1)..Len(t) :
                /\ \A j \in first..i : t[j] \notin {SPACE, PLUS, MINUS, LETTER}
                /\ i = Len(t) \/ t[i + 1] \in {SPACE, PLUS, MINUS, LETTER}
      place == [i \in first..last |-> t[i] * 10^(last - i)]
      RECURSIVE Total(_)
      Total(i) == IF i > last THEN 0 ELSE place[i] + Total(i + 1)
  IN IF signed /\ t[start] = MINUS THEN -Total(first) ELSE Total(first)

(* stdlib.c: atoi returns the value of the text whenever an int can hold   *)
(* it, the least int included, with no overflow on the way: the reason the *)
(* source accumulates a negative value.                                    *)
AtoiExact ==
  scase.ask = "parse" =>
    (FitsInt(DigitsOf(scase.text)) => atoi(scase.text) = DigitsOf(scase.text))

(* random.c: the table is a permutation after every seed and after every   *)
(* byte, so that no value is lost from the generator for good.             *)
TableIsPermutation ==
  scase.ask = "random" => \A v \in 0..(RC4_SIZE - 1) : \E k \in 0..(RC4_SIZE - 1) : scase.r.s[k] = v
=============================================================================
