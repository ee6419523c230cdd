----------------------------- MODULE MCProcess -----------------------------
(***************************************************************************)
(* What it takes to run a program, in one run: the life of processes       *)
(* (Process), their arguments (Args), interrupts and exceptions            *)
(* (Interrupts), and the boot that comes before (Boot).  The first state   *)
(* decides which.                                                          *)
(*                                                                         *)
(* Process: a parent chain main -> a -> b.                                 *)
(***************************************************************************)
EXTENDS Process, TLC

CONSTANTS main, a, b

VARIABLES
  part,
  args,                                                                \* Args
  handlers, idt, IF_, in_external_intr, yield_on_return, frames, run,
  level, irr, isr, cr2, dead,                                          \* Interrupts
  at, argv, config, done, ready, intr, init_page_dir, loops_per_tick,
  capacity, line, end                                                  \* Boot

MCProcs == {main, a, b}
MCStatuses == {7}
Outcomes == BOOLEAN
AlwaysFalse == {FALSE}

AR == INSTANCE Args WITH
        MAX_ARGC <- 3, StackBytes <- 48, CmdLines <- UNION {[1..n -> 1..4] : n \in 1..4}

IR == INSTANCE Interrupts WITH
        IThreads <- {1, 2}, IAddrs <- {1, 2}, ILines <- {32, 46}, IDepth <- 3

(* Command lines of options and actions, with and without their values and *)
(* arguments, up to and past the length that the loader has room for.      *)
W(n, v, l) == [name |-> n, value |-> v, len |-> l]
Few == {W("-rs", 1, 3), W("-rs", 2, 3), W("run", -1, 1), W("ls", -1, 1), W("prog", -1, 1)}
Words == Few \cup {W("-q", -1, 2), W("-r", -1, 2), W("-rs", -1, 3), W("-ul", 3, 3),
                   W("-h", -1, 2), W("-unknown", -1, 3)}
Lines ==
  UNION {[1..n -> Words] : n \in 0..2} \cup UNION {[1..n -> Few] : n \in 3..4}
    \cup {[i \in 1..n |-> W("ls", -1, 1)] : n \in 5..8}

BO == INSTANCE Boot WITH
        LOADER_ARGS_LEN <- 12, RamPages <- 5, TextPages <- {1, 2}, PT_PAGES <- 2,
        KERNEL_PAGE <- 3, WORD_BITS <- 10, START_BIT <- 3, REFINE_BITS <- 3,
        TIMER_FREQ <- 100,
        Machines <- (Lines \X {77}) \cup ({<<>>} \X {3, 8, 11, 300, 511, 600, 1023}),
        Delays <- [num : {0, 1, 7, 9, 10, 11, 15, 999}, denom : {1000, 1000000}],
        given <- line

-----------------------------------------------------------------------------
intrVars == <<handlers, idt, IF_, in_external_intr, yield_on_return, frames, run,
              level, irr, isr, cr2, dead>>
bootVars == <<at, argv, config, done, ready, intr, init_page_dir, loops_per_tick,
              capacity, line, end>>
programVars == <<part, vars, args, intrVars, bootVars>>

ProgramInit ==
  /\ part \in {"process", "args", "interrupts", "boot"}
  /\ Init /\ AR!ArgsInit /\ IR!IntrInit /\ BO!BootInit

ProgramNext ==
  /\ \/ part = "process" /\ Next /\ UNCHANGED <<args, intrVars, bootVars>>
     \/ part = "args" /\ AR!ArgsNext /\ UNCHANGED <<vars, intrVars, bootVars>>
     \/ part = "interrupts" /\ IR!IntrNext /\ UNCHANGED <<vars, args, bootVars>>
     \/ part = "boot" /\ BO!BootNext /\ UNCHANGED <<vars, args, intrVars>>
  /\ UNCHANGED part

ProgramSpec == ProgramInit /\ [][ProgramNext]_programVars

(* One part alone.                                                         *)
OnlyProcess == ProgramInit /\ part = "process" /\ [][ProgramNext]_programVars

Workers == Permutations({a, b})

-----------------------------------------------------------------------------
(* process.c start_process and push_args: main finds argc, argv and its    *)
(* strings on the stack.                                                   *)
ArgsOnStack == part = "args" => AR!ArgsOnStack

(* exception.c page_fault: CR2 is that of the fault that is handled,       *)
(* whatever other threads do meanwhile.                                    *)
FaultAddressOwn == IR!FaultAddressOwn

(* interrupt.c intr_handler: external handlers neither nest nor outlive    *)
(* the time their thread runs, and no interrupt line stays in service.     *)
ContextExact == IR!ContextExact

(* init.c and timer.c: the kernel obeys its command line, whatever order   *)
(* the words come in; nothing that needs interrupts runs before them; the  *)
(* page tables and the delay loop fit the machine.                         *)
BootExact ==
  part = "boot" =>
    /\ BO!CommandLineObeyed /\ BO!OptionsExact /\ BO!InterruptsReady
    /\ BO!CalibrationExact /\ BO!PagingExact
=============================================================================
