------------------------------ MODULE Strings ------------------------------
(***************************************************************************)
(* lib/string.c.  Memory is a small array of characters; each function is  *)
(* the loop of the source over addresses, and is compared with what its    *)
(* comment promises about the strings at those addresses.  Callers keep    *)
(* the contracts: strings end inside the memory, and blocks overlap only   *)
(* for memmove.                                                            *)
(***************************************************************************)
EXTENDS Integers, Sequences, FiniteSets

CONSTANTS
  MemSize,    \* bytes of memory
  Chars,      \* characters, 0 among them
  NULLP       \* the null pointer

Addrs == 0..(MemSize - 1)

VARIABLES smem, scall

stringVars == <<smem, scall>>

-----------------------------------------------------------------------------
(* The functions, with the memory as their first argument.                 *)

RECURSIVE CopyUp(_, _, _, _)
CopyUp(m, dst, src, n) ==
  IF n = 0 THEN m ELSE CopyUp([m EXCEPT ![dst] = m[src]], dst + 1, src + 1, n - 1)

RECURSIVE CopyDown(_, _, _, _)
CopyDown(m, dst, src, n) ==
  IF n = 0 THEN m ELSE CopyDown([m EXCEPT ![dst - 1] = m[src - 1]], dst - 1, src - 1, n - 1)

memcpy(m, dst, src, n) == CopyUp(m, dst, src, n)

(* Fault: the copy always goes up.                                         *)
memmoveUp(m, dst, src, n) == CopyUp(m, dst, src, n)

memmove(m, dst, src, n) ==
  IF dst < src THEN CopyUp(m, dst, src, n) ELSE CopyDown(m, dst + n, src + n, n)

RECURSIVE memset(_, _, _, _)
memset(m, dst, c, n) == IF n = 0 THEN m ELSE memset([m EXCEPT ![dst] = c], dst + 1, c, n - 1)

RECURSIVE memcmp(_, _, _, _)
memcmp(m, a, b, n) ==
  IF n = 0 THEN 0
  ELSE IF m[a] # m[b] THEN (IF m[a] > m[b] THEN 1 ELSE -1)
  ELSE memcmp(m, a + 1, b + 1, n - 1)

RECURSIVE strcmp(_, _, _)
strcmp(m, a, b) ==
  IF m[a] # 0 /\ m[a] = m[b] THEN strcmp(m, a + 1, b + 1)
  ELSE IF m[a] < m[b] THEN -1 ELSE IF m[a] > m[b] THEN 1 ELSE 0

RECURSIVE memchr(_, _, _, _)
memchr(m, p, c, n) ==
  IF n = 0 THEN NULLP ELSE IF m[p] = c THEN p ELSE memchr(m, p + 1, c, n - 1)

RECURSIVE strchr(_, _, _)
strchr(m, p, c) ==
  IF m[p] = c THEN p ELSE IF m[p] = 0 THEN NULLP ELSE strchr(m, p + 1, c)

RECURSIVE strlen(_, _)
strlen(m, p) == IF m[p] = 0 THEN 0 ELSE 1 + strlen(m, p + 1)

RECURSIVE strnlen(_, _, _)
strnlen(m, p, max) == IF max = 0 \/ m[p] = 0 THEN 0 ELSE 1 + strnlen(m, p + 1, max - 1)

RECURSIVE strcspn(_, _, _)
strcspn(m, p, stop) ==
  IF m[p] = 0 \/ strchr(m, stop, m[p]) # NULLP THEN 0 ELSE 1 + strcspn(m, p + 1, stop)

RECURSIVE strspn(_, _, _)
strspn(m, p, skip) ==
  IF m[p] = 0 \/ strchr(m, skip, m[p]) = NULLP THEN 0 ELSE 1 + strspn(m, p + 1, skip)

RECURSIVE strpbrk(_, _, _)
strpbrk(m, p, stop) ==
  IF m[p] = 0 THEN NULLP
  ELSE IF strchr(m, stop, m[p]) # NULLP THEN p ELSE strpbrk(m, p + 1, stop)

RECURSIVE LastOf(_, _, _, _)
LastOf(m, p, c, last) ==
  IF m[p] = 0 THEN last ELSE LastOf(m, p + 1, c, IF m[p] = c THEN p ELSE last)

strrchr(m, p, c) == LastOf(m, p, c, NULLP)

RECURSIVE FindFrom(_, _, _, _, _)
FindFrom(m, i, last, needle, n) ==
  IF i > last THEN NULLP
  ELSE IF memcmp(m, i, needle, n) = 0 THEN i ELSE FindFrom(m, i + 1, last, needle, n)

strstr(m, hay, needle) ==
  LET h == strlen(m, hay)
      n == strlen(m, needle)
  IN IF h >= n THEN FindFrom(m, hay, hay + h - n, needle, n) ELSE NULLP

RECURSIVE SkipDelimiters(_, _, _)
SkipDelimiters(m, s, delims) ==
  IF m[s] # 0 /\ strchr(m, delims, m[s]) # NULLP THEN SkipDelimiters(m, s + 1, delims) ELSE s

RECURSIVE SkipToken(_, _, _)
SkipToken(m, s, delims) == IF strchr(m, delims, m[s]) = NULLP THEN SkipToken(m, s + 1, delims) ELSE s

strtok_r(m, s, delims) ==
  LET token == SkipDelimiters(m, s, delims)
      end == SkipToken(m, token, delims)
  IN IF m[token] = 0 THEN [mem |-> m, token |-> NULLP, save_ptr |-> token]
     ELSE IF m[end] # 0 THEN [mem |-> [m EXCEPT ![end] = 0], token |-> token, save_ptr |-> end + 1]
     ELSE [mem |-> m, token |-> token, save_ptr |-> end]

strlcpy(m, dst, src, size) ==
  LET src_len == strlen(m, src)
      dst_len == IF src_len < size - 1 THEN src_len ELSE size - 1
  IN [mem |-> IF size = 0 THEN m ELSE [memcpy(m, dst, src, dst_len) EXCEPT ![dst + dst_len] = 0],
      ret |-> src_len]

strlcat(m, dst, src, size) ==
  LET src_len == strlen(m, src)
      dst_len == strlen(m, dst)
      room == size - dst_len - 1
      cnt == IF src_len < room THEN src_len ELSE room
  IN [mem |-> IF size > 0 /\ dst_len < size
              THEN [memcpy(m, dst + dst_len, src, cnt) EXCEPT ![dst + dst_len + cnt] = 0]
              ELSE m,
      ret |-> src_len + dst_len]

-----------------------------------------------------------------------------
(* What the comments promise.                                              *)

StringAt(m, p) ==
  LET n == CHOOSE k \in 0..MemSize : m[p + k] = 0 /\ \A j \in 0..(k - 1) : m[p + j] # 0
  IN [i \in 1..n |-> m[p + i - 1]]
IsString(m, p) == \E q \in Addrs : q >= p /\ m[q] = 0
CharsOf(s) == {s[i] : i \in 1..Len(s)}
Shorter(x, y) == IF x < y THEN x ELSE y

(* The first, or last, position of a string that satisfies a condition.    *)
LeastOr(is, none) == IF is = {} THEN none ELSE CHOOSE i \in is : \A j \in is : i <= j
GreatestOr(is, none) == IF is = {} THEN none ELSE CHOOSE i \in is : \A j \in is : j <= i

Sign(x, y) == IF x < y THEN -1 ELSE IF x > y THEN 1 ELSE 0

(* The order of strings: that of the first difference, with 0 at the end.  *)
Compare(s, t) ==
  LET C(u, i) == IF i <= Len(u) THEN u[i] ELSE 0
      i == LeastOr({k \in 1..(Len(s) + Len(t) + 1) : C(s, k) # C(t, k)}, 1)
  IN Sign(C(s, i), C(t, i))

(* The tokens of a string: its longest parts without delimiters.           *)
TokensOf(s, delims) ==
  LET starts == {i \in 1..Len(s) : s[i] \notin delims /\ (i = 1 \/ s[i - 1] \in delims)}
      End(i) == LeastOr({j \in i..Len(s) : s[j] \in delims}, Len(s) + 1) - 1
  IN {<<i, End(i)>> : i \in starts}

(* The tokens that repeated calls of strtok_r return, by position.         *)
RECURSIVE TokensFrom(_, _, _, _)
TokensFrom(m, base, s, delims) ==
  LET r == strtok_r(m, s, delims)
  IN IF r.token = NULLP THEN {}
     ELSE {<<r.token - base + 1, r.token - base + strlen(r.mem, r.token)>>}
            \cup TokensFrom(r.mem, base, r.save_ptr, delims)

Moved(m, r, dst, src, n) ==
  \A a \in Addrs : r[a] = IF a \in dst..(dst + n - 1) THEN m[src + a - dst] ELSE m[a]

-----------------------------------------------------------------------------
StringsInit == smem = [a \in Addrs |-> 0] /\ scall = [fn |-> "none"]

Load ==
  /\ scall.fn = "none"
  /\ smem' \in [Addrs -> Chars]
  /\ scall' = [fn |-> "loaded"]

CallFn(fn, a, b, n) ==
  /\ scall.fn = "loaded"
  /\ scall' = [fn |-> fn, a |-> a, b |-> b, n |-> n]
  /\ UNCHANGED smem

CallBlock ==
  \E a, b \in Addrs, n \in 0..MemSize :
    /\ a + n <= MemSize /\ b + n <= MemSize
    /\ CallFn("block", a, b, n)

CallString ==
  \E a, b \in Addrs :
    IsString(smem, a) /\ IsString(smem, b) /\ CallFn("string", a, b, 0)

(* The delimiters are a string beside the one that is modified.            *)
CallToken ==
  \E a, b \in Addrs :
    /\ IsString(smem, a) /\ IsString(smem, b)
    /\ b + strlen(smem, b) < a \/ a + strlen(smem, a) < b
    /\ CallFn("token", a, b, 0)

(* The size bytes at a do not overlap the string at b.                     *)
CallCopy ==
  \E a, b \in Addrs, n \in 0..MemSize :
    /\ IsString(smem, b) /\ a + n <= MemSize
    /\ b + strlen(smem, b) < a \/ a + n <= b
    /\ CallFn("copy", a, b, n)

StringsNext == Load \/ CallBlock \/ CallString \/ CallToken \/ CallCopy

BlockAnswers(m, a, b, n) ==
  /\ Moved(m, memmove(m, a, b, n), a, b, n)
  /\ (a + n <= b \/ b + n <= a) => Moved(m, memcpy(m, a, b, n), a, b, n)
  /\ memcmp(m, a, b, n) =
       LET i == LeastOr({k \in 0..(n - 1) : m[a + k] # m[b + k]}, -1)
       IN IF i = -1 THEN 0 ELSE Sign(m[a + i], m[b + i])
  /\ \A c \in Chars :
       /\ memchr(m, a, c, n) = LeastOr({p \in a..(a + n - 1) : m[p] = c}, NULLP)
       /\ memset(m, a, c, n) = [p \in Addrs |-> IF p \in a..(a + n - 1) THEN c ELSE m[p]]

StringAnswers(m, a, b) ==
  LET s == StringAt(m, a)
      t == StringAt(m, b)
      Where(is) == LeastOr({a + i - 1 : i \in is}, NULLP)
  IN /\ strlen(m, a) = Len(s)
     /\ \A n \in 0..MemSize : strnlen(m, a, n) = Shorter(Len(s), n)
     /\ strcmp(m, a, b) = Compare(s, t)
     /\ \A c \in Chars :
          /\ strchr(m, a, c) = IF c = 0 THEN a + Len(s) ELSE Where({i \in 1..Len(s) : s[i] = c})
          /\ c # 0 => strrchr(m, a, c) = GreatestOr({a + i - 1 : i \in {j \in 1..Len(s) : s[j] = c}}, NULLP)
     /\ strcspn(m, a, b) = LeastOr({i \in 1..Len(s) : s[i] \in CharsOf(t)}, Len(s) + 1) - 1
     /\ strspn(m, a, b) = LeastOr({i \in 1..Len(s) : s[i] \notin CharsOf(t)}, Len(s) + 1) - 1
     /\ strpbrk(m, a, b) = Where({i \in 1..Len(s) : s[i] \in CharsOf(t)})
     /\ strstr(m, a, b) =
          Where({i \in 1..(Len(s) - Len(t) + 1) : SubSeq(s, i, i + Len(t) - 1) = t})

CopyAnswers(m, a, b, n) ==
  LET t == StringAt(m, b)
      c == strlcpy(m, a, b, n)
  IN /\ c.ret = Len(t)
     /\ \A p \in Addrs \ (a..(a + n - 1)) : c.mem[p] = m[p]
     /\ n > 0 => StringAt(c.mem, a) = SubSeq(t, 1, Shorter(Len(t), n - 1))
     /\ (\E p \in a..(a + n - 1) : m[p] = 0) =>
          LET s == StringAt(m, a)
              d == strlcat(m, a, b, n)
          IN /\ d.ret = Len(s) + Len(t)
             /\ \A p \in Addrs \ (a..(a + n - 1)) : d.mem[p] = m[p]
             /\ StringAt(d.mem, a) = SubSeq(s \o t, 1, Shorter(d.ret, n - 1))

(* string.c: each function does what its comment says, for every content   *)
(* of the memory: memmove of blocks that overlap either way, strlcpy and   *)
(* strlcat at the boundary of the size, empty strings and strings that     *)
(* contain one another, and the tokens that a chain of strtok_r calls      *)
(* returns while it cuts the string up.                                    *)
StringsAnswer ==
  CASE scall.fn = "block"  -> BlockAnswers(smem, scall.a, scall.b, scall.n)
    [] scall.fn = "string" -> StringAnswers(smem, scall.a, scall.b)
    [] scall.fn = "token"  ->
         TokensFrom(smem, scall.a, scall.a, scall.b)
           = TokensOf(StringAt(smem, scall.a), CharsOf(StringAt(smem, scall.b)))
    [] scall.fn = "copy"   -> CopyAnswers(smem, scall.a, scall.b, scall.n)
    [] OTHER -> TRUE
=============================================================================
