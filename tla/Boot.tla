------------------------------- MODULE Boot -------------------------------
(***************************************************************************)
(* The start of the kernel: main, read_command_line, parse_options,        *)
(* run_actions and paging_init of threads/init.c, the calibration of the   *)
(* busy-wait loop and the delays of devices/timer.c, and shutdown of       *)
(* devices/shutdown.c.                                                     *)
(*                                                                         *)
(* A word of the command line is [name, value, len]: value is NOVALUE when *)
(* there is no "=VALUE", len is its length without the terminator.         *)
(***************************************************************************)
EXTENDS Integers, Sequences, SequencesExt, FiniteSetsExt

CONSTANTS
  LOADER_ARGS_LEN,   \* bytes of the command line
  Machines,          \* the sequences of words that the loader may leave, with the
                     \* loops that the machine can do within a tick
  RamPages, TextPages, PT_PAGES, KERNEL_PAGE,
                     \* pages of RAM, those of them that hold kernel text, entries of
                     \* a page table, the page where ptov(0) lies
  WORD_BITS,         \* of an unsigned, 32 in the code
  START_BIT,         \* timer_calibrate starts at 2^START_BIT, 10 in the code
  REFINE_BITS,       \* and refines down to this many bits below the highest, 10
  TIMER_FREQ,
  Delays             \* the [num, denom] given to the sleep and delay functions

NOVALUE == -1

VARIABLES
  at,                \* the next step of main
  argv,              \* the words that are left
  config,            \* what the options have set
  done,              \* actions run: [name, args]
  ready,             \* what has been initialised
  intr,              \* interrupts are on
  init_page_dir,     \* the page directory and the page tables of the kernel
  loops_per_tick,
  capacity,          \* the machine's, unknown to the kernel
  given,             \* history: the command line
  end                \* "" or how the kernel ended: "PANIC", "HELP", "OFF", "REBOOT", "IDLE"

bootVars == <<at, argv, config, done, ready, intr, init_page_dir, loops_per_tick, capacity, given, end>>

(* The steps of main in their order.                                       *)
MainCalls ==
  <<"read_command_line", "parse_options", "thread_init", "console_init",
    "palloc_init", "malloc_init", "paging_init", "tss_init", "gdt_init",
    "intr_init", "timer_init", "kbd_init", "input_init", "exception_init",
    "syscall_init", "thread_start", "serial_init_queue", "timer_calibrate",
    "ide_init", "locate_block_devices", "filesys_init", "run_actions", "shutdown">>

-----------------------------------------------------------------------------
(* The command line.                                                       *)

(* Where each word starts; a word that has no room left is a panic.        *)
Offset(words, i) == FoldLeft(LAMBDA n, w : n + w.len + 1, 0, SubSeq(words, 1, i - 1))
read_command_line(words) == \A i \in 1..Len(words) : Offset(words, i) < LOADER_ARGS_LEN

Options == {"-h", "-q", "-r", "-F", "-S", "-f", "-filesys", "-scratch", "-rs", "-mlfqs",
            "-ul", "-fl", "-tcl"}
Numeric == {"-F", "-rs", "-ul", "-fl", "-tcl"}
IsOption(w) == w.name \in Options \cup {"-unknown"}

(* An option that stops the kernel: help, an unknown one, or a number that *)
(* is missing, which atoi asserts.                                         *)
Stops(w) == w.name \in {"-h", "-unknown"} \/ (w.name \in Numeric /\ w.value = NOVALUE)

(* What an option stores: its value, or that it was there.                 *)
ValueOf(w) == IF w.name \in Numeric \cup {"-filesys", "-scratch"} THEN w.value ELSE 1

(* One option.  random_init does nothing when it has run before.           *)
parse_option(c, w) ==
  [c EXCEPT ![w.name] = IF w.name = "-rs" /\ @ # NOVALUE THEN @ ELSE ValueOf(w),
            !["how"] = IF w.name = "-r" THEN 2 ELSE IF w.name = "-q" THEN 1 ELSE @]

NoOptions == [o \in Options \cup {"how"} |-> NOVALUE]

(* The number of options in front.                                         *)
OptionCount(words) ==
  Max({n \in 0..Len(words) : \A i \in 1..n : IsOption(words[i])})

Actions == [run |-> 2, ls |-> 1, cat |-> 2, rm |-> 2, extract |-> 1, append |-> 2]

(* What run_actions advances by, 0 for a panic: the action is unknown, or  *)
(* lacks an argument.                                                      *)
ActionLength(words) ==
  IF words[1].name \in DOMAIN Actions /\ Actions[words[1].name] <= Len(words)
  THEN Actions[words[1].name] ELSE 0

-----------------------------------------------------------------------------
(* paging_init: page tables are allocated as pages come up.  A table is a  *)
(* function from its index to [frame, writable].                           *)
NoPte == [frame |-> -1, writable |-> FALSE]
PdNo(v) == v \div PT_PAGES
PtNo(v) == v % PT_PAGES

PagingStep(s, page) ==
  LET v == KERNEL_PAGE + page
      new == s.pd[PdNo(v)] = 0
      t == IF new THEN Append(s.tables, [i \in 0..(PT_PAGES - 1) |-> NoPte]) ELSE s.tables
      pt == IF new THEN Len(t) ELSE s.pt
  IN  [pd |-> IF new THEN [s.pd EXCEPT ![PdNo(v)] = pt] ELSE s.pd,
       pt |-> pt,
       tables |-> [t EXCEPT ![pt][PtNo(v)] =
                     [frame |-> page, writable |-> page \notin TextPages]]]

EmptyDirectory ==
  [pd |-> [d \in 0..PdNo(KERNEL_PAGE + RamPages) |-> 0], pt |-> 0, tables |-> <<>>]

paging_init == FoldLeft(PagingStep, EmptyDirectory, [i \in 1..RamPages |-> i - 1])

-----------------------------------------------------------------------------
(* timer_calibrate and the delays.                                         *)

too_many_loops(loops) == loops > capacity

(* The largest power of two that a tick has time for; 0 on overflow.       *)
RECURSIVE HighBit(_)
HighBit(loops) ==
  IF loops = 0 \/ too_many_loops((loops * 2) % 2^WORD_BITS) THEN loops
  ELSE HighBit((loops * 2) % 2^WORD_BITS)

(* Fault: the loops are kept although they take too long.                  *)
RECURSIVE RefineBlindly(_, _, _)
RefineBlindly(loops, high, bit) ==
  IF bit = high \div 2^REFINE_BITS THEN loops
  ELSE RefineBlindly(loops + bit, high, bit \div 2)

RECURSIVE Refine(_, _, _)
Refine(loops, high, bit) ==
  IF bit = high \div 2^REFINE_BITS THEN loops
  ELSE Refine(IF too_many_loops(loops + bit) THEN loops ELSE loops + bit, high, bit \div 2)

Calibrated == LET high == HighBit(2^START_BIT)
              IN  IF high = 0 THEN 0 ELSE Refine(high, high, high \div 2)

(* real_time_sleep: the ticks to sleep, or else the loops to wait.         *)
real_time_delay(d) == ((((loops_per_tick * d.num) \div 1000) * TIMER_FREQ)) \div (d.denom \div 1000)
real_time_sleep(d) ==
  LET ticks == (d.num * TIMER_FREQ) \div d.denom
  IN  IF ticks > 0 THEN [ticks |-> ticks, loops |-> 0]
      ELSE [ticks |-> 0, loops |-> real_time_delay(d)]

-----------------------------------------------------------------------------
BootInit ==
  /\ at = 1
  /\ argv = <<>>
  /\ config = NoOptions
  /\ done = <<>>
  /\ ready = {}
  /\ intr = FALSE
  /\ loops_per_tick = 0
  /\ init_page_dir = EmptyDirectory
  /\ capacity = 0
  /\ given = <<>>
  /\ end = ""

Running(step) == end = "" /\ at <= Len(MainCalls) /\ MainCalls[at] = step
Advance == at' = at + 1 /\ ready' = ready \cup {MainCalls[at]}

(* The loader's words, and the machine, are chosen here.                   *)
ReadCommandLine(words, c) ==
  /\ Running("read_command_line")
  /\ argv' = words
  /\ capacity' = c
  /\ given' = words
  /\ end' = IF read_command_line(words) THEN "" ELSE "PANIC"
  /\ Advance
  /\ UNCHANGED <<init_page_dir, config, done, intr, loops_per_tick>>

ParseOptions ==
  LET n == OptionCount(argv)
      stop == {i \in 1..n : Stops(argv[i])}
  IN  /\ Running("parse_options")
      /\ IF stop = {}
         THEN /\ config' = FoldLeft(parse_option, config, SubSeq(argv, 1, n))
              /\ argv' = SubSeq(argv, n + 1, Len(argv))
              /\ end' = ""
         ELSE /\ end' = IF argv[Min(stop)].name = "-h" THEN "HELP" ELSE "PANIC"
              /\ UNCHANGED <<config, argv>>
      /\ Advance
      /\ UNCHANGED <<init_page_dir, done, intr, loops_per_tick, capacity, given>>

(* Any other step of main.                                                 *)
Initialise ==
  /\ end = "" /\ at \in DOMAIN MainCalls
  /\ MainCalls[at] \notin {"read_command_line", "parse_options", "timer_calibrate", "run_actions",
                      "shutdown"}
  /\ intr' = (intr \/ MainCalls[at] = "thread_start")
  /\ init_page_dir' = IF MainCalls[at] = "paging_init" THEN paging_init ELSE init_page_dir
  /\ Advance
  /\ UNCHANGED <<argv, config, done, loops_per_tick, capacity, given, end>>

(* timer_calibrate, with its assertion.                                    *)
Calibrate ==
  /\ Running("timer_calibrate")
  /\ loops_per_tick' = Calibrated
  /\ end' = IF loops_per_tick' = 0 \/ ~intr THEN "PANIC" ELSE ""
  /\ Advance
  /\ UNCHANGED <<init_page_dir, argv, config, done, intr, capacity, given>>

(* run_actions: one action per step.                                       *)
RunAction ==
  LET n == ActionLength(argv)
  IN  /\ Running("run_actions") /\ argv # <<>>
      /\ IF n = 0 THEN end' = "PANIC" /\ UNCHANGED <<argv, done>>
         ELSE /\ done' = Append(done, SubSeq(argv, 1, n))
              /\ argv' = SubSeq(argv, n + 1, Len(argv))
              /\ end' = ""
      /\ UNCHANGED <<init_page_dir, at, config, ready, intr, loops_per_tick, capacity, given>>

ActionsDone ==
  /\ Running("run_actions") /\ argv = <<>>
  /\ Advance
  /\ UNCHANGED <<init_page_dir, argv, config, done, intr, loops_per_tick, capacity, given, end>>

Shutdown ==
  /\ Running("shutdown")
  /\ end' = CASE config["how"] = 1 -> "OFF" [] config["how"] = 2 -> "REBOOT" [] OTHER -> "IDLE"
  /\ Advance
  /\ UNCHANGED <<init_page_dir, argv, config, done, intr, loops_per_tick, capacity, given>>

BootNext ==
  \/ \E m \in Machines : ReadCommandLine(m[1], m[2])
  \/ ParseOptions \/ Initialise \/ Calibrate \/ RunAction \/ ActionsDone \/ Shutdown

-----------------------------------------------------------------------------
(* The actions that have run, and the words that are left, are the command *)
(* line without its options: each action got all its arguments and never   *)
(* the null sentinel, nothing was skipped or run twice, and a kernel that  *)
(* comes to its shutdown has run them all.  argv has room for the words,   *)
(* as long as none is empty.                                               *)
CommandLineObeyed ==
  LET rest == SubSeq(given, OptionCount(given) + 1, Len(given))
  IN  /\ (at > 2 /\ end \notin {"PANIC", "HELP"}) => FlattenSeq(done) \o argv = rest
      /\ \A i \in 1..Len(done) : Len(done[i]) = Actions[done[i][1].name]
      /\ end \in {"OFF", "REBOOT", "IDLE"} => argv = <<>>
      /\ (at > 1 /\ end # "PANIC" /\ \A i \in 1..Len(given) : given[i].len > 0)
           => Len(given) < LOADER_ARGS_LEN \div 2 + 1

(* The last of several equal options counts, except that the random seed   *)
(* is the first one given, as "-rs" makes later seeds void.                *)
OptionsExact ==
  (at > 2 /\ end \notin {"PANIC", "HELP"}) =>
    \A o \in Options :
      LET uses == {i \in 1..OptionCount(given) : given[i].name = o}
      IN  config[o] = IF uses = {} THEN NOVALUE
                      ELSE ValueOf(given[IF o = "-rs" THEN Min(uses) ELSE Max(uses)])

(* From the moment that thread_start turns interrupts on, a timer or a     *)
(* keyboard interrupt finds its handler and the handler its data.          *)
InterruptsReady ==
  intr => {"thread_init", "intr_init", "timer_init", "kbd_init", "input_init"} \subseteq ready

(* A calibrated loop never takes longer than a tick on a machine fast      *)
(* enough for the first try, and comes as close to a tick as the bits that *)
(* are refined allow; timer_sleep gets the ticks of an interval rounded    *)
(* down, and shorter intervals get as many loops as they need, less the    *)
(* rounding of the scaled product.                                         *)
CalibrationExact ==
  loops_per_tick > 0 =>
    /\ capacity >= 2^START_BIT =>
         LET grain == Max({1, 2^Max({k \in 0..WORD_BITS : 2^k <= loops_per_tick})
                                \div 2^(REFINE_BITS - 1)})
         IN  loops_per_tick <= capacity /\ capacity < loops_per_tick + grain
    /\ \A d \in Delays :
         LET r == real_time_sleep(d)
             exact == loops_per_tick * d.num * TIMER_FREQ
         IN  /\ r.ticks * d.denom <= d.num * TIMER_FREQ
             /\ d.num * TIMER_FREQ < (r.ticks + 1) * d.denom
             /\ r.ticks = 0 => /\ r.loops * d.denom <= exact
                               /\ exact < (r.loops + 1) * d.denom + 1000 * TIMER_FREQ

(* paging_init maps every page of RAM to its own frame at ptov, and no     *)
(* other page; kernel text is read-only.                                   *)
PagingExact ==
  "paging_init" \in ready =>
    \A v \in 0..(KERNEL_PAGE + RamPages) :
      LET pd == init_page_dir.pd
          pte == IF pd[PdNo(v)] = 0 THEN NoPte ELSE init_page_dir.tables[pd[PdNo(v)]][PtNo(v)]
          page == v - KERNEL_PAGE
      IN  pte = IF page \in 0..(RamPages - 1)
                THEN [frame |-> page, writable |-> page \notin TextPages] ELSE NoPte
=============================================================================
