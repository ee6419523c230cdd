----------------------------- MODULE MCDevices -----------------------------
(***************************************************************************)
(* The devices in one run: the disks (Ide), the console with its serial    *)
(* port (Console), the keyboard (Keyboard) and the display (Vga).  The     *)
(* first state decides which.                                              *)
(*                                                                         *)
(* Ide: one channel with two devices, two threads, disks of one sector.    *)
(***************************************************************************)
EXTENDS Ide

CONSTANTS t1, t2, main, v1, v2

VARIABLES
  part,
  mode, txq, inq, ier, thre, dr, line, console_lock, console_lock_depth,
  use_console_lock, calls, started, panics, state, accepted, shown,     \* Console
  mods, caps_lock, key, down, caps_presses, pressed,                    \* Keyboard
  fb, cx, cy, paper, written                                            \* Vga

MCThreads == {t1, t2}
MCValues == {v1, v2}
MCSectors == {0, 1}

CO == INSTANCE Console WITH
        Writers <- {1, 2}, MainThread <- 1, TxSize <- 1, RxSize <- 1, CallLen <- 2,
        MaxNested <- 2, MaxOut <- 3, level <- panics
(* A letter, Delete, Caps Lock, both shifts, an Alt and a Ctrl.            *)
KB == INSTANCE Keyboard WITH Keys <- {30, 83, 58, 42, 54, 56, 57373}
VG == INSTANCE Vga WITH
        COL_CNT <- 3, ROW_CNT <- 2, TabStop <- 2, Letters <- {1, 2}, MaxChars <- 6

consoleVars == <<mode, txq, inq, ier, thre, dr, line, console_lock, console_lock_depth,
                 use_console_lock, calls, started, panics, state, accepted, shown>>
keyVars == <<mods, caps_lock, key, down, caps_presses, pressed>>
vgaVars == <<fb, cx, cy, paper, written>>
machineVars == <<part, vars, consoleVars, keyVars, vgaVars>>

(* The attached disks differ only for the first part.                      *)
DevicesInit ==
  /\ part \in {"ide", "console", "keyboard", "vga"}
  /\ Init
  /\ part # "ide" => \A d \in Disks : kind[d] = "absent"
  /\ CO!ConsoleInit /\ KB!KeyInit /\ VG!VgaInit

DevicesNext ==
  \/ /\ part = "ide" /\ Next
     /\ UNCHANGED <<part, consoleVars, keyVars, vgaVars>>
  \/ /\ part = "console" /\ CO!ConsoleNext
     /\ UNCHANGED <<part, vars, keyVars, vgaVars>>
  \/ /\ part = "keyboard" /\ KB!KeyNext
     /\ UNCHANGED <<part, vars, consoleVars, vgaVars>>
  \/ /\ part = "vga" /\ VG!VgaNext
     /\ UNCHANGED <<part, vars, consoleVars, keyVars>>

(* What is on its way goes on: the boot, a request, the device that has    *)
(* one, its interrupt.                                                     *)
DevicesSpec ==
  /\ DevicesInit /\ [][DevicesNext]_machineVars
  /\ WF_vars(part = "ide" /\ Progress)

-----------------------------------------------------------------------------
(* serial.c and debug.c: bytes leave the port in the order in which they   *)
(* were given to serial_putc, a panic loses none, and the port has the     *)
(* interrupts enabled that its queues need.  lib/kernel/console.c, "to     *)
(* prevent simultaneous printf() calls from mixing their output": also     *)
(* when calls nest.                                                        *)
ConsoleExact ==
  part = "console" => CO!WireInOrder /\ CO!PortAttended /\ CO!CallsNotMixed

(* kbd.c keyboard_interrupt and vga.c vga_putc: a key means the character  *)
(* that the held keys say, and the display shows the end of what was       *)
(* written.                                                                *)
KeysAndScreen == KB!KeysMeanCharacters /\ VG!ScreenShowsTail
=============================================================================
