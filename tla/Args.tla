-------------------------------- MODULE Args --------------------------------
(***************************************************************************)
(* The arguments of a program on its first stack: the splitting of the     *)
(* command line in start_process and push_args (userprog/process.c).  The  *)
(* stack is a function from addresses to bytes; a pointer or an int is a   *)
(* word of four bytes, and lies where its first byte is.                   *)
(***************************************************************************)
EXTENDS Integers, Sequences

CONSTANTS
  MAX_ARGC,     \* words of a command line that are used, 32 in the source
  StackBytes,   \* bytes of the stack page
  CmdLines      \* command lines, as the sequence of the lengths of their words

WORD == 4
NUL == <<0, 0>>
Char(i, k) == <<i, k>>          \* character k of word i
Word(v) == <<-1, v>>            \* the first byte of a word with value v
Rest == <<-2, 0>>               \* its other bytes
Unwritten == <<-3, 0>>

VARIABLES args       \* the command line, argc, the stack and the stack pointer

NoArgs == [cmd |-> <<>>, argc |-> 0, esp |-> StackBytes, stack |-> <<>>]
ArgsInit == args = NoArgs

-----------------------------------------------------------------------------
(* The loop around strtok_r: at most MAX_ARGC words are kept.              *)
Argc(cmd) == IF Len(cmd) < MAX_ARGC THEN Len(cmd) ELSE MAX_ARGC

StoreWord(s, esp, v) ==
  [a \in DOMAIN s |-> IF a = esp THEN Word(v) ELSE IF a \in (esp + 1)..(esp + 3) THEN Rest ELSE s[a]]

(* The strings, last argument first; `at' collects argv_addr.              *)
RECURSIVE push_strings(_, _, _, _, _)
push_strings(s, esp, cmd, i, at) ==
  IF i = 0 THEN [stack |-> s, esp |-> esp, at |-> at]
  ELSE LET e == esp - (cmd[i] + 1)
           written == [a \in DOMAIN s |-> IF a \in e..(e + cmd[i] - 1) THEN Char(i, a - e + 1)
                                          ELSE IF a = e + cmd[i] THEN NUL ELSE s[a]]
       IN push_strings(written, e, cmd, i - 1, [at EXCEPT ![i] = e])

(* The null pointer and the pointers to the strings, from the last.        *)
RECURSIVE push_pointers(_, _, _, _)
push_pointers(s, esp, at, i) ==
  IF i = 0 THEN [stack |-> s, esp |-> esp]
  ELSE push_pointers(StoreWord(s, esp - WORD, at[i]), esp - WORD, at, i - 1)

(* Fault: the pointers follow the strings without padding.                 *)
AlignNot(esp) == esp

(* Padding down to a multiple of the word size.                            *)
Align(esp) == esp - (esp % WORD)

push_args(s, esp, argc, cmd) ==
  LET strings == push_strings(s, esp, cmd, argc, [i \in 1..(argc + 1) |-> 0])
      pointers == push_pointers(strings.stack, Align(strings.esp), strings.at, argc + 1)
      e == pointers.esp
      s1 == StoreWord(pointers.stack, e - WORD, e)
      s2 == StoreWord(s1, e - 2 * WORD, argc)
  IN [stack |-> StoreWord(s2, e - 3 * WORD, 0), esp |-> e - 3 * WORD]

Start ==
  /\ args = NoArgs
  /\ \E cmd \in CmdLines :
       LET argc == Argc(cmd)
           r == push_args([a \in 0..(StackBytes - 1) |-> Unwritten], StackBytes, argc, cmd)
       IN args' = [cmd |-> cmd, argc |-> argc, esp |-> r.esp, stack |-> r.stack]

ArgsNext == Start

-----------------------------------------------------------------------------
WordAt(a) == args.stack[a][2]
IsWordAt(a) == a \in DOMAIN args.stack /\ args.stack[a][1] = -1
                /\ \A k \in 1..3 : args.stack[a + k] = Rest

(* process.c push_args: main finds argc, argv and the strings where the    *)
(* calling convention puts them: every pointer of argv leads to its whole  *)
(* string, argv ends with a null pointer, words are aligned, and no string *)
(* is overwritten by the words pushed after it, whatever the lengths.      *)
ArgsOnStack ==
  args # NoArgs =>
    LET argv == WordAt(args.esp + 2 * WORD)
    IN /\ args.esp % WORD = 0
       /\ \A k \in 0..2 : IsWordAt(args.esp + k * WORD)
       /\ WordAt(args.esp + WORD) = args.argc
       /\ \A i \in 1..args.argc :
            LET str == WordAt(argv + (i - 1) * WORD)
            IN /\ IsWordAt(argv + (i - 1) * WORD)
               /\ \A k \in 1..args.cmd[i] : args.stack[str + k - 1] = Char(i, k)
               /\ args.stack[str + args.cmd[i]] = NUL
       /\ IsWordAt(argv + args.argc * WORD) /\ WordAt(argv + args.argc * WORD) = 0
=============================================================================
