----------------------------- MODULE Keyboard -----------------------------
(***************************************************************************)
(* devices/kbd.c: from scancodes to characters.  Characters are ASCII      *)
(* numbers.  The two bytes of an extended scancode are one event, as       *)
(* keyboard_interrupt reads both.  The input buffer has room: what happens *)
(* when it has not is in Console.                                          *)
(***************************************************************************)
EXTENDS Integers, Sequences

CONSTANT Keys      \* the scancodes, of keys pressed, that the user has

VARIABLES
  mods,            \* left_shift and so on, by their scancode
  caps_lock,
  key,             \* the last character appended, 0 for none, REBOOT
  down,            \* history: the keys that are held
  caps_presses,    \* history: the presses of Caps Lock, modulo 2
  pressed          \* history: the last event, [code, held, caps]

keyVars == <<mods, caps_lock, key, down, caps_presses, pressed>>

CAPS == 58
LSHIFT == 42
RSHIFT == 54
LALT == 56
RALT == 57400
LCTRL == 29
RCTRL == 57373
DEL == 127
REBOOT == 1000
shift_keys == {LSHIFT, RSHIFT, LALT, RALT, LCTRL, RCTRL}

(* The letters of each row of keys.                                        *)
invariant_keymap ==
  << [first |-> 1, chars |-> <<27>>],
     [first |-> 14, chars |-> <<8>>],
     [first |-> 15, chars |-> <<9, 81, 87, 69, 82, 84, 89, 85, 73, 79, 80>>],
     [first |-> 28, chars |-> <<13>>],
     [first |-> 30, chars |-> <<65, 83, 68, 70, 71, 72, 74, 75, 76>>],
     [first |-> 44, chars |-> <<90, 88, 67, 86, 66, 78, 77>>],
     [first |-> 55, chars |-> <<42>>],
     [first |-> 57, chars |-> <<32>>],
     [first |-> 83, chars |-> <<DEL>>] >>

unshifted_keymap ==
  << [first |-> 2, chars |-> <<49, 50, 51, 52, 53, 54, 55, 56, 57, 48, 45, 61>>],
     [first |-> 26, chars |-> <<91, 93>>],
     [first |-> 39, chars |-> <<59, 39, 96>>],
     [first |-> 43, chars |-> <<92>>],
     [first |-> 51, chars |-> <<44, 46, 47>>] >>

shifted_keymap ==
  << [first |-> 2, chars |-> <<33, 64, 35, 36, 37, 94, 38, 42, 40, 41, 95, 43>>],
     [first |-> 26, chars |-> <<123, 125>>],
     [first |-> 39, chars |-> <<58, 34, 126>>],
     [first |-> 43, chars |-> <<124>>],
     [first |-> 51, chars |-> <<60, 62, 63>>] >>

(* map_key: the set of the character found, empty if there is none.        *)
map_key(k, code) ==
  {k[i].chars[code - k[i].first + 1] : i \in
     {j \in 1..Len(k) : code >= k[j].first /\ code < k[j].first + Len(k[j].chars)}}

tolower(c) == IF c \in 65..90 THEN c + 32 ELSE c

KeyInit ==
  /\ mods = [m \in shift_keys |-> FALSE]
  /\ caps_lock = FALSE
  /\ key = 0
  /\ down = {} /\ caps_presses = 0
  /\ pressed = [code |-> 0, held |-> {}, caps |-> 0]

-----------------------------------------------------------------------------
(* The character of a key, with Ctrl, Shift, Caps Lock and Alt.            *)
Character(c, shift, alt, ctrl) ==
  LET plain == IF ctrl /\ c >= 64 /\ c < 96 THEN c - 64
               ELSE IF shift = caps_lock THEN tolower(c) ELSE c
  IN  IF c = DEL /\ ctrl /\ alt THEN REBOOT
      ELSE IF alt THEN plain + 128 ELSE plain

(* Fault: a released Shift key lets go of both.                            *)
keyboard_interruptBoth(code, release) ==
  /\ caps_lock' = caps_lock
  /\ mods' = [m \in shift_keys |->
       IF code \in {LSHIFT, RSHIFT} /\ m \in {LSHIFT, RSHIFT} THEN ~release
       ELSE IF m = code THEN ~release ELSE mods[m]]
  /\ UNCHANGED key

keyboard_interrupt(code, release) ==
  LET shift == mods[LSHIFT] \/ mods[RSHIFT]
      alt == mods[LALT] \/ mods[RALT]
      ctrl == mods[LCTRL] \/ mods[RCTRL]
      same == map_key(invariant_keymap, code)
      shifted == map_key(IF shift THEN shifted_keymap ELSE unshifted_keymap, code)
      found == IF same # {} THEN same ELSE shifted
  IN  IF code = CAPS
      THEN /\ caps_lock' = IF release THEN caps_lock ELSE ~caps_lock
           /\ UNCHANGED <<mods, key>>
      ELSE IF found # {}
      THEN /\ key' = IF release THEN key
                     ELSE Character(CHOOSE c \in found : TRUE, shift, alt, ctrl)
           /\ UNCHANGED <<mods, caps_lock>>
      ELSE /\ mods' = [m \in shift_keys |-> IF m = code THEN ~release ELSE mods[m]]
           /\ UNCHANGED <<caps_lock, key>>

(* The user presses or releases a key.                                     *)
Press(code) ==
  /\ code \notin down /\ key # REBOOT
  /\ down' = down \cup {code}
  /\ caps_presses' = IF code = CAPS THEN 1 - caps_presses ELSE caps_presses
  /\ pressed' = [code |-> code, held |-> down, caps |-> caps_presses]
  /\ keyboard_interrupt(code, FALSE)

Release(code) ==
  /\ code \in down /\ key # REBOOT
  /\ down' = down \ {code}
  /\ pressed' = [code |-> 0, held |-> {}, caps |-> 0]
  /\ UNCHANGED caps_presses
  /\ keyboard_interrupt(code, TRUE)

KeyNext == \E code \in Keys : Press(code) \/ Release(code)

-----------------------------------------------------------------------------
(* What the keys that were held mean for some keys: A, the digit 2, the    *)
(* left bracket, Backspace and Delete.                                     *)
Meaning(e) ==
  LET shift == e.held \cap {LSHIFT, RSHIFT} # {}
      ctrl == e.held \cap {LCTRL, RCTRL} # {}
      alt == e.held \cap {LALT, RALT} # {}
      base == CASE e.code = 30 -> IF ctrl THEN 1
                                  ELSE IF shift # (e.caps = 1) THEN 65 ELSE 97
                [] e.code = 3  -> IF shift THEN (IF ctrl THEN 0 ELSE 64) ELSE 50
                [] e.code = 26 -> IF shift THEN 123 ELSE IF ctrl THEN 27 ELSE 91
                [] e.code = 14 -> 8
                [] e.code = 83 -> DEL
  IN  IF e.code = 83 /\ ctrl /\ alt THEN REBOOT
      ELSE IF alt THEN base + 128 ELSE base

(* The state of the modifiers is that of the keys, whatever the order in   *)
(* which left and right ones overlap, and a key gives the character that   *)
(* the held keys stand for.                                                *)
KeysMeanCharacters ==
  /\ \A m \in shift_keys : mods[m] <=> m \in down
  /\ caps_lock <=> caps_presses = 1
  /\ pressed.code \in {30, 3, 26, 14, 83} => key = Meaning(pressed)
=============================================================================
