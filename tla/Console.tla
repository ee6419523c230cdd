------------------------------ MODULE Console ------------------------------
(***************************************************************************)
(* The console: lib/kernel/console.c, the serial port behind it            *)
(* (devices/serial.c), the input buffer (devices/input.c) and the last     *)
(* words of a panic (lib/kernel/debug.c).                                  *)
(*                                                                         *)
(* A character is written by two steps of a thread, serial_putc and        *)
(* vga_putc, each with interrupts off.  Between them, and between          *)
(* characters, other threads run and handlers may write too.  The queues   *)
(* are those of IntQueue: here a call that would sleep is not enabled.     *)
(***************************************************************************)
EXTENDS Integers, Sequences, FiniteSets

CONSTANTS
  Writers,     \* the threads that write, positive numbers below 10
  MainThread,  \* the one of them that boots
  TxSize,      \* the bytes that txq can hold ...
  RxSize,      \* ... and those that the input buffer can
  CallLen,     \* the characters of a call; one that nests has 1
  MaxNested,   \* bound: calls within calls
  MaxOut       \* bound: characters written

NOBODY == 0
FROM_HANDLER == 0    \* a character that an interrupt handler writes
FROM_PANIC == 99     \* one that debug_panic writes

VARIABLES
  mode,              \* of the serial port: "UNINIT", "POLL" or "QUEUE"
  txq, inq,          \* the transmit queue, the number of bytes in the input buffer
  ier,               \* the interrupts that the port may raise
  thre, dr,          \* the port can take a byte, and has one
  line,              \* the bytes that left the port
  console_lock, console_lock_depth, use_console_lock,
  calls,             \* the calls of a thread, innermost first: the characters left,
                     \* and whether one is between serial_putc and vga_putc
  started,           \* calls a thread has begun at the outermost level
  level,             \* of debug_panic: the panics so far
  state,             \* "boot", "on", "panic" or "halted"
  accepted, shown    \* history: what was given to the port, and to the display

serial == <<mode, txq, ier, thre, line, accepted>>
locking == <<console_lock, console_lock_depth, use_console_lock>>
threads == <<calls, started>>
consoleVars == <<serial, inq, dr, locking, threads, level, state, shown>>

ConsoleInit ==
  /\ mode = "UNINIT"
  /\ txq = <<>> /\ inq = 0
  /\ ier = {}
  /\ thre = TRUE /\ dr = FALSE
  /\ line = <<>>
  /\ console_lock = NOBODY /\ console_lock_depth = 0 /\ use_console_lock = FALSE
  /\ calls = [t \in Writers |-> <<>>]
  /\ started = [t \in Writers |-> 0]
  /\ level = 0
  /\ state = "boot"
  /\ accepted = <<>> /\ shown = <<>>

-----------------------------------------------------------------------------
(* The serial port.                                                        *)

(* What write_ier enables for a transmit queue and an input buffer.        *)
write_ier(q, n) == (IF q # <<>> THEN {"XMIT"} ELSE {})
                     \cup (IF n < RxSize THEN {"RECV"} ELSE {})

(* serial_putc, called with interrupts on or off.  With interrupts on a    *)
(* full queue makes it sleep.  putc_poll waits for the port.               *)
serial_putc(byte, on) ==
  /\ accepted' = Append(accepted, byte)
  /\ IF mode # "QUEUE"
     THEN mode' = "POLL" /\ line' = Append(line, byte) /\ thre' = FALSE /\ UNCHANGED <<txq, ier>>
     ELSE /\ on => Len(txq) < TxSize
          /\ IF Len(txq) = TxSize
             THEN /\ line' = Append(line, Head(txq)) /\ thre' = FALSE
                  /\ txq' = Append(Tail(txq), byte)
             ELSE txq' = Append(txq, byte) /\ UNCHANGED <<line, thre>>
          /\ ier' = write_ier(txq', inq)
          /\ UNCHANGED mode

(* serial_init_queue, the end of the boot: interrupts are on by then.      *)
serial_init_queue ==
  /\ state = "boot" /\ use_console_lock /\ calls[MainThread] = <<>>
  /\ mode' = "QUEUE"
  /\ ier' = write_ier(txq, inq)
  /\ state' = "on"
  /\ UNCHANGED <<txq, thre, line, accepted, inq, dr, locking, threads, level, shown>>

(* serial_interrupt: the port has a byte, or room for one, and may say so. *)
serial_interrupt ==
  LET takes == dr /\ inq < RxSize
      sends == thre /\ txq # <<>>
  IN  /\ state = "on"
      /\ (thre /\ "XMIT" \in ier) \/ (dr /\ "RECV" \in ier)
      /\ inq' = IF takes THEN inq + 1 ELSE inq
      /\ dr' = (dr /\ ~takes)
      /\ txq' = IF sends THEN Tail(txq) ELSE txq
      /\ line' = IF sends THEN Append(line, Head(txq)) ELSE line
      /\ thre' = (thre /\ ~sends)
      /\ ier' = write_ier(txq', inq')
      /\ UNCHANGED <<mode, accepted, locking, threads, level, state, shown>>

(* The port finishes a byte, and receives one.                             *)
PortReady ==
  /\ ~thre /\ thre' = TRUE
  /\ UNCHANGED <<mode, txq, ier, line, accepted, inq, dr, locking, threads, level, state, shown>>

PortReceives ==
  /\ state = "on" /\ ~dr /\ dr' = TRUE
  /\ UNCHANGED <<serial, inq, locking, threads, level, state, shown>>

(* keyboard_interrupt with an ordinary key: dropped if there is no room.   *)
KeyPressed ==
  /\ state = "on"
  /\ inq < RxSize
  /\ inq' = inq + 1
  /\ ier' = write_ier(txq, inq')
  /\ UNCHANGED <<mode, txq, thre, line, accepted, dr, locking, threads, level, state, shown>>

(* input_getc of a thread, with the serial_notify that follows.            *)
input_getc ==
  /\ state = "on" /\ inq > 0
  /\ inq' = inq - 1
  /\ ier' = write_ier(txq, inq')
  /\ UNCHANGED <<mode, txq, thre, line, accepted, dr, locking, threads, level, state, shown>>

-----------------------------------------------------------------------------
(* The console lock and the calls that write.                              *)

console_init ==
  /\ state = "boot" /\ ~use_console_lock /\ calls[MainThread] = <<>>
  /\ use_console_lock' = TRUE
  /\ UNCHANGED <<serial, inq, dr, console_lock, console_lock_depth, threads, level, state, shown>>

MayRun(t) == state = "on" \/ (state = "boot" /\ t = MainThread)

acquire_console(t) ==
  IF ~use_console_lock
  THEN UNCHANGED locking
  ELSE IF console_lock = t
       THEN /\ console_lock_depth' = console_lock_depth + 1
            /\ UNCHANGED <<console_lock, use_console_lock>>
       ELSE /\ console_lock = NOBODY
            /\ console_lock' = t
            /\ UNCHANGED <<console_lock_depth, use_console_lock>>

(* Fault: the lock is released by the inner call already.                  *)
release_consoleInner(t) ==
  /\ console_lock' = IF use_console_lock THEN NOBODY ELSE console_lock
  /\ UNCHANGED <<console_lock_depth, use_console_lock>>

release_console(t) ==
  IF ~use_console_lock
  THEN UNCHANGED locking
  ELSE IF console_lock_depth > 0
       THEN /\ console_lock_depth' = console_lock_depth - 1
            /\ UNCHANGED <<console_lock, use_console_lock>>
       ELSE /\ console_lock' = NOBODY
            /\ UNCHANGED <<console_lock_depth, use_console_lock>>

(* vprintf, puts, putbuf or putchar is called: at the outermost level, or  *)
(* from a timer interrupt while the thread is writing.                     *)
Write(t) ==
  /\ MayRun(t)
  /\ Len(calls[t]) < MaxNested /\ Len(accepted) < MaxOut
  /\ acquire_console(t)
  /\ calls' = [calls EXCEPT ![t] =
       <<[left |-> IF @ = <<>> THEN CallLen ELSE 1, vga |-> FALSE]>> \o @]
  /\ started' = IF calls[t] = <<>> THEN [started EXCEPT ![t] = @ + 1] ELSE started
  /\ UNCHANGED <<serial, inq, dr, level, state, shown>>

(* putchar_have_lock, its two halves.  A character carries the number of   *)
(* the outermost call that it belongs to.                                  *)
Byte(t) == 10 * t + started[t]

PutSerial(t) ==
  /\ MayRun(t)
  /\ calls[t] # <<>> /\ Head(calls[t]).left > 0 /\ ~Head(calls[t]).vga
  /\ Len(accepted) < MaxOut
  /\ serial_putc(Byte(t), state = "on")
  /\ calls' = [calls EXCEPT ![t] = <<[left |-> Head(@).left - 1, vga |-> TRUE]>> \o Tail(@)]
  /\ UNCHANGED <<inq, dr, locking, started, level, state, shown>>

PutVga(t) ==
  /\ MayRun(t)
  /\ calls[t] # <<>> /\ Head(calls[t]).vga
  /\ shown' = Append(shown, Byte(t))
  /\ calls' = [calls EXCEPT ![t] = <<[left |-> Head(@).left, vga |-> FALSE]>> \o Tail(@)]
  /\ UNCHANGED <<serial, inq, dr, locking, started, level, state>>

WriteEnds(t) ==
  /\ MayRun(t)
  /\ calls[t] # <<>> /\ Head(calls[t]) = [left |-> 0, vga |-> FALSE]
  /\ release_console(t)
  /\ calls' = [calls EXCEPT ![t] = Tail(@)]
  /\ UNCHANGED <<serial, inq, dr, started, level, state, shown>>

(* An interrupt handler writes a character: no lock, and interrupts off.   *)
HandlerWrites ==
  /\ state = "on" /\ Len(accepted) < MaxOut
  /\ serial_putc(FROM_HANDLER, FALSE)
  /\ shown' = Append(shown, FROM_HANDLER)
  /\ UNCHANGED <<inq, dr, locking, threads, level, state>>

-----------------------------------------------------------------------------
(* debug_panic: interrupts go off for good and the lock is not used any    *)
(* more.  The message, one character of it, may panic itself; the third    *)
(* panic is silent.                                                        *)
Panic ==
  /\ state \in {"boot", "on", "panic"} /\ level < 3
  /\ level' = level + 1
  /\ use_console_lock' = FALSE
  /\ state' = "panic"
  /\ UNCHANGED <<serial, inq, dr, console_lock, console_lock_depth, threads, shown>>

PanicPrints ==
  /\ state = "panic" /\ level < 3 /\ Len(accepted) < MaxOut + level
  /\ serial_putc(FROM_PANIC, FALSE)
  /\ shown' = Append(shown, FROM_PANIC)
  /\ UNCHANGED <<inq, dr, locking, threads, level, state>>

(* serial_flush, and the loop at the end.                                  *)
PanicEnds ==
  /\ state = "panic"
  /\ line' = line \o txq
  /\ txq' = <<>>
  /\ thre' = (thre /\ txq = <<>>)
  /\ state' = "halted"
  /\ UNCHANGED <<mode, ier, accepted, inq, dr, locking, threads, level, shown>>

ConsoleNext ==
  \/ console_init \/ serial_init_queue
  \/ serial_interrupt \/ PortReady \/ PortReceives \/ KeyPressed \/ input_getc
  \/ \E t \in Writers : Write(t) \/ PutSerial(t) \/ PutVga(t) \/ WriteEnds(t)
  \/ HandlerWrites
  \/ Panic \/ PanicPrints \/ PanicEnds

-----------------------------------------------------------------------------
(* Bytes leave the port in the order in which serial_putc was called, also *)
(* when a full queue with interrupts off makes it send the oldest byte by  *)
(* polling, and when a panic takes over: whatever was printed before the   *)
(* machine stops comes out.                                                *)
WireInOrder ==
  /\ line \o txq = accepted
  /\ state = "halted" => line = accepted

(* "to prevent simultaneous printf() calls from mixing their output": on   *)
(* both devices the characters of one call have no character of another    *)
(* thread among them, although calls nest and the lock does not.  Handlers *)
(* may write in between, and so may a panic.                               *)
CallsNotMixed ==
  \A h \in {accepted, shown} : \A i, j \in 1..Len(h) : \A k \in i..j :
    (h[i] = h[j] /\ h[i] \notin {FROM_HANDLER, FROM_PANIC})
      => h[k] \in {h[i], FROM_HANDLER, FROM_PANIC}

(* The port is never deaf or dumb for good: while interrupts are on, a     *)
(* queued byte has the transmit interrupt enabled and room in the input    *)
(* buffer has the receive interrupt enabled, whoever filled or emptied     *)
(* the queues last.                                                        *)
PortAttended ==
  state = "on" => /\ txq # <<>> => "XMIT" \in ier
                  /\ inq < RxSize => "RECV" \in ier
=============================================================================
