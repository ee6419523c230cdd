------------------------------- MODULE Stdio -------------------------------
(***************************************************************************)
(* Formatted output, lib/stdio.c: the parser of conversions, integer and   *)
(* string conversions, and vsnprintf, which cuts the output to its buffer. *)
(*                                                                         *)
(* Characters are strings of length one; a format is a sequence of them    *)
(* and ends in NUL.  Integer types have a number of bits, so that an       *)
(* argument is truncated to its type as va_arg and the casts do.           *)
(***************************************************************************)
EXTENDS Integers, Sequences, SequencesExt, FiniteSetsExt

CONSTANTS
  Bits,        \* the width of each type
  BUFSIZE,     \* the digit buffer of format_integer, 64 in the code
  PER_LINE,    \* bytes per line of hex_dump, 16 in the code
  Conversions, StringConversions,
               \* the calls tried, with integers and with strings: [fmt, args],
               \* and what they mean: [flags, width, precision, type, ch, value]
  BufSizes,    \* the sizes given to snprintf
  Dumps,       \* the [ofs, size] given to hex_dump
  Sizes        \* the sizes given to print_human_readable_size

NUL == "NUL"
Flags == {"-", "+", " ", "#", "0", "'"}
DigitChars == <<"0", "1", "2", "3", "4", "5", "6", "7", "8", "9",
                "a", "b", "c", "d", "e", "f">>
UpperChars == <<"0", "1", "2", "3", "4", "5", "6", "7", "8", "9",
                "A", "B", "C", "D", "E", "F">>
Decimal == {DigitChars[i] : i \in 1..10}
DigitValue(c) == (CHOOSE i \in 1..10 : DigitChars[i] = c) - 1

VARIABLE pcall    \* the call of this step and what it did

-----------------------------------------------------------------------------
(* parse_conversion.                                                       *)

(* The first position from i on whose character is not in S.               *)
Skip(f, i, S) == Min({j \in i..Len(f) : f[j] \notin S})

(* The number written in positions i to j - 1.                             *)
Number(f, i, j) == FoldLeft(LAMBDA n, c : 10 * n + DigitValue(c), 0, SubSeq(f, i, j - 1))

(* A width or a precision at i: written out, or taken from the arguments.  *)
Field(f, i, args) ==
  IF f[i] = "*" THEN [at |-> i + 1, n |-> Head(args), args |-> Tail(args)]
  ELSE LET j == Skip(f, i, Decimal) IN [at |-> j, n |-> Number(f, i, j), args |-> args]

(* The type at i and the position after it.                                *)
Type(f, i) ==
  CASE f[i] = "h" -> IF f[i + 1] = "h" THEN <<"CHAR", i + 2>> ELSE <<"SHORT", i + 1>>
    [] f[i] = "l" -> IF f[i + 1] = "l" THEN <<"LONGLONG", i + 2>> ELSE <<"LONG", i + 1>>
    [] f[i] = "j" -> <<"INTMAX", i + 1>>
    [] f[i] = "t" -> <<"PTRDIFFT", i + 1>>
    [] f[i] = "z" -> <<"SIZET", i + 1>>
    [] OTHER -> <<"INT", i>>

parse_conversion(f, i, args) ==
  LET j == Skip(f, i, Flags)
      set == {f[k] : k \in i..(j - 1)}
      some == set \ ((IF "-" \in set THEN {"0"} ELSE {}) \cup (IF "+" \in set THEN {" "} ELSE {}))
      w == Field(f, j, args)
      left == some \cup (IF w.n < 0 THEN {"-"} ELSE {})
      dot == f[w.at] = "."
      p == IF dot THEN Field(f, w.at + 1, w.args) ELSE [at |-> w.at, n |-> -1, args |-> w.args]
      ty == Type(f, p.at)
  IN  [at |-> ty[2], args |-> p.args, type |-> ty[1],
       width |-> IF w.n < 0 THEN -w.n ELSE w.n,
       precision |-> IF p.n < 0 THEN -1 ELSE p.n,
       flags |-> IF p.n >= 0 THEN left \ {"0"} ELSE left]

-----------------------------------------------------------------------------
(* The conversions.                                                        *)

output_dup(c, n) == [i \in 1..n |-> c]

(* The digits of a value, the lowest first, with their commas.             *)
RECURSIVE Accumulate(_, _, _, _)
Accumulate(value, cnt, b, group) ==
  IF value = 0 THEN <<>>
  ELSE (IF group /\ cnt > 0 /\ cnt % b.group = 0 THEN <<",">> ELSE <<>>)
         \o <<b.digits[(value % b.base) + 1]>>
         \o Accumulate(value \div b.base, cnt + 1, b, group)

(* Fault: the sign does not count as part of the field.                    *)
format_integerSign(value, signed, negative, b, c) ==
  LET has(f) == f \in c.flags
      sign == IF ~signed THEN <<>>
              ELSE IF negative THEN <<"-">>
              ELSE IF has("+") THEN <<"+">> ELSE IF has(" ") THEN <<" ">> ELSE <<>>
      body == Accumulate(value, 0, b, has("'"))
      pad == Max({0, c.width - Len(body)})
  IN  output_dup(" ", pad) \o sign \o Reverse(body)

(* The content of buf, in reverse order: digits, zeros up to the           *)
(* precision, and the zero of an alternative octal number.                 *)
DigitBuffer(value, b, c) ==
  LET digits == Accumulate(value, 0, b, "'" \in c.flags)
      precision == IF c.precision < 0 THEN 1 ELSE c.precision
      zeros == Max({0, Min({precision, BUFSIZE - 1}) - Len(digits)})
      full == digits \o output_dup("0", zeros)
  IN  IF "#" \in c.flags /\ b.base = 8 /\ (full = <<>> \/ Last(full) # "0")
      THEN Append(full, "0") ELSE full

format_integer(value, signed, negative, b, c) ==
  LET has(f) == f \in c.flags
      sign == IF ~signed THEN <<>>
              ELSE IF negative THEN <<"-">>
              ELSE IF has("+") THEN <<"+">> ELSE IF has(" ") THEN <<" ">> ELSE <<>>
      x == IF has("#") /\ value # 0 /\ b.base = 16 THEN <<"0", b.x>> ELSE <<>>
      buf == DigitBuffer(value, b, c)
      pad == Max({0, c.width - Len(buf) - Len(x) - Len(sign)})
  IN  output_dup(" ", IF has("-") \/ has("0") THEN 0 ELSE pad)
        \o sign \o x
        \o output_dup("0", IF has("0") THEN pad ELSE 0)
        \o Reverse(buf)
        \o output_dup(" ", IF has("-") THEN pad ELSE 0)

format_string(s, c) ==
  LET pad == output_dup(" ", Max({0, c.width - Len(s)}))
  IN  IF "-" \in c.flags THEN s \o pad ELSE pad \o s

Base(ch) == CASE ch \in {"d", "i", "u"} -> [base |-> 10, digits |-> DigitChars, x |-> "", group |-> 3]
              [] ch = "o" -> [base |-> 8, digits |-> DigitChars, x |-> "", group |-> 3]
              [] ch \in {"x", "p"} -> [base |-> 16, digits |-> DigitChars, x |-> "x", group |-> 4]
              [] ch = "X" -> [base |-> 16, digits |-> UpperChars, x |-> "X", group |-> 4]

(* An argument as a value of an unsigned, and of a signed type.            *)
Unsigned(v, type) == v % 2^Bits[type]
Signed(v, type) == LET u == Unsigned(v, type)
                   IN  IF u >= 2^(Bits[type] - 1) THEN u - 2^Bits[type] ELSE u

(* One conversion: its output for the character ch and the parsed c.       *)
Convert(ch, c, arg) ==
  CASE ch \in {"d", "i"} ->
         LET v == Signed(arg, c.type)
         IN  format_integer(IF v < 0 THEN -v ELSE v, TRUE, v < 0, Base(ch), c)
    [] ch \in {"o", "u", "x", "X"} ->
         format_integer(Unsigned(arg, c.type), FALSE, FALSE, Base(ch), c)
    [] ch = "c" -> format_string(arg, c)
    [] ch = "s" -> format_string(IF c.precision < 0 THEN arg
                                 ELSE SubSeq(arg, 1, Min({c.precision, Len(arg)})), c)
    [] ch = "p" -> format_integer(Unsigned(arg, "INT"), FALSE, FALSE, Base("p"),
                                  [c EXCEPT !.flags = {"#"}])
    [] ch \in {"f", "e", "E", "g", "G", "n"} -> <<"<<no %", ch, " in kernel>>">>
    [] OTHER -> <<"<<no %", ch, " conversion>>">>

(* __vprintf, from position i of the format.                               *)
RECURSIVE vprintf(_, _, _)
vprintf(f, i, args) ==
  IF f[i] = NUL THEN <<>>
  ELSE IF f[i] # "%" THEN <<f[i]>> \o vprintf(f, i + 1, args)
  ELSE IF f[i + 1] = "%" THEN <<"%">> \o vprintf(f, i + 2, args)
  ELSE LET c == parse_conversion(f, i + 1, args)
           takes == f[c.at] \in {"d", "i", "o", "u", "x", "X", "c", "s", "p"}
       IN  Convert(f[c.at], c, IF takes THEN Head(c.args) ELSE 0)
             \o vprintf(f, c.at + 1, IF takes THEN Tail(c.args) ELSE c.args)

(* vsnprintf_helper: a character of the output goes to *p while there is   *)
(* room, and is counted in any case.                                       *)
vsnprintf_helper(aux, ch) ==
  [p |-> IF aux.length < aux.max_length THEN Append(aux.p, ch) ELSE aux.p,
   length |-> aux.length + 1,
   max_length |-> aux.max_length]

(* vsnprintf: what was written to the buffer, and the result.              *)
vsnprintf(size, out) ==
  LET aux == FoldLeft(vsnprintf_helper,
               [p |-> <<>>, length |-> 0, max_length |-> IF size > 0 THEN size - 1 ELSE 0], out)
  IN  [buffer |-> IF size > 0 THEN Append(aux.p, NUL) ELSE aux.p, result |-> aux.length]

-----------------------------------------------------------------------------
(* hex_dump: the lines, each [base, start, end].                           *)
RECURSIVE hex_dump(_, _)
hex_dump(ofs, size) ==
  IF size = 0 THEN <<>>
  ELSE LET start == ofs % PER_LINE
           end == IF PER_LINE - start > size THEN start + size ELSE PER_LINE
       IN  <<[base |-> ofs - start, start |-> start, end |-> end]>>
             \o hex_dump(ofs + (end - start), size - (end - start))

(* print_human_readable_size: the number and the index of its unit.        *)
RECURSIVE human_readable(_, _)
human_readable(size, unit) ==
  IF size >= 1024 /\ unit < 5 THEN human_readable(size \div 1024, unit + 1) ELSE <<size, unit>>

StdioInit == pcall = [op |-> "none"]

Printf(k) ==
  LET out == vprintf(Append(k.fmt, NUL), 1, k.args)
  IN  \E size \in BufSizes :
        pcall' = [op |-> "printf", call |-> k, size |-> size, out |-> out,
                  done |-> vsnprintf(size, out)]

HexDump(d) == pcall' = [op |-> "dump", call |-> d, lines |-> hex_dump(d.ofs, d.size)]
HumanReadable(n) == pcall' = [op |-> "size", call |-> n, out |-> human_readable(n, 1)]

StdioNext ==
  /\ pcall.op = "none"
  /\ \/ \E k \in Conversions : Printf(k)
     \/ \E k \in StringConversions : Printf(k)
     \/ \E d \in Dumps : HexDump(d)
     \/ \E n \in Sizes : HumanReadable(n)

-----------------------------------------------------------------------------
(* What a conversion means: the least number of digits that represent the  *)
(* value, commas between groups, zeros up to the precision or the width,   *)
(* the sign and the prefix in front, and the rest of the field blank.      *)
DigitCount(v, base) == Min({n \in 0..7 : base^n > v})

Magnitude(v, b, group) ==
  LET n == DigitCount(v, b.base)
      digit(i) == <<b.digits[((v \div b.base^(n - i)) % b.base) + 1]>>
      comma(i) == IF group /\ i < n /\ (n - i) % b.group = 0 THEN <<",">> ELSE <<>>
  IN  FlattenSeq([i \in 1..n |-> digit(i) \o comma(i)])

Abs(n) == IF n < 0 THEN -n ELSE n

Justified(k, front, text) ==
  LET gap == Abs(k.width) - Len(front) - Len(text)
      fill(c) == [i \in 1..gap |-> c]
  IN  IF gap <= 0 THEN front \o text
      ELSE IF "-" \in k.flags \/ k.width < 0 THEN front \o text \o fill(" ")
      ELSE IF "0" \in k.flags /\ k.precision < 0 THEN front \o fill("0") \o text
      ELSE fill(" ") \o front \o text

MeansInteger(k) ==
  LET signed == k.ch \in {"d", "i"}
      v == IF signed THEN Signed(k.value, k.type) ELSE Unsigned(k.value, k.type)
      b == Base(k.ch)
      digits == Magnitude(IF v < 0 THEN -v ELSE v, b, "'" \in k.flags)
      want == IF k.precision < 0 THEN 1 ELSE Min({k.precision, BUFSIZE - 1})
      text == [i \in 1..(Max({want, Len(digits)}) - Len(digits)) |-> "0"] \o digits
      octal == IF "#" \in k.flags /\ k.ch = "o" /\ (text = <<>> \/ text[1] # "0")
               THEN <<"0">> ELSE <<>>
      sign == IF ~signed THEN <<>> ELSE IF v < 0 THEN <<"-">>
              ELSE IF "+" \in k.flags THEN <<"+">> ELSE IF " " \in k.flags THEN <<" ">> ELSE <<>>
      x == IF "#" \in k.flags /\ k.ch \in {"x", "X"} /\ v # 0 THEN <<"0", k.ch>> ELSE <<>>
  IN  Justified(k, sign \o x, octal \o text)

MeansString(k) ==
  Justified([k EXCEPT !.flags = @ \ {"0"}], <<>>,
            IF k.precision < 0 \/ k.precision > Len(k.value) THEN k.value
            ELSE SubSeq(k.value, 1, k.precision))

(* Every combination of flags, width, precision and type gives the text    *)
(* that it means; snprintf stores as much of it as fits before a           *)
(* terminator, nothing beyond its buffer, and returns the full length; the *)
(* digit buffer of format_integer is never overrun.                        *)
PrintfExact ==
  pcall.op = "printf" =>
    LET k == pcall.call
        kept == Min({Len(pcall.out), pcall.size - 1})
    IN  /\ pcall.out = IF k.ch = "s" THEN MeansString(k) ELSE MeansInteger(k)
        /\ pcall.done.result = Len(pcall.out)
        /\ Len(pcall.done.buffer) <= pcall.size
        /\ pcall.size > 0 => pcall.done.buffer = Append(SubSeq(pcall.out, 1, kept), NUL)
        /\ k.ch # "s" => \A v \in {Unsigned(k.value, k.type)} :
             Len(DigitBuffer(v, Base(k.ch), [flags |-> k.flags, precision |-> k.precision])) <= BUFSIZE

(* hex_dump shows every byte once, in order, on lines that start at        *)
(* multiples of their length; a size is scaled to a number below 1024.     *)
DumpExact ==
  /\ pcall.op = "dump" =>
       LET bytes(l) == [i \in 1..(l.end - l.start) |-> l.base + l.start + i - 1]
       IN  /\ FlattenSeq([i \in 1..Len(pcall.lines) |-> bytes(pcall.lines[i])])
                = [i \in 1..pcall.call.size |-> pcall.call.ofs + i - 1]
           /\ \A i \in 1..Len(pcall.lines) : pcall.lines[i].base % PER_LINE = 0
                                             /\ pcall.lines[i].end <= PER_LINE
  /\ pcall.op = "size" =>
       LET n == pcall.out[1]
           scale == 1024^(pcall.out[2] - 1)
       IN  n * scale <= pcall.call /\ pcall.call < (n + 1) * scale /\ n < 1024
=============================================================================
