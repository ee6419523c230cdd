-------------------------------- MODULE Vga --------------------------------
(***************************************************************************)
(* The text display of devices/vga.c: a frame buffer with a cursor.        *)
(***************************************************************************)
EXTENDS Integers, Sequences

CONSTANTS
  COL_CNT, ROW_CNT,
  TabStop,       \* 8 in the code
  Letters,       \* printing characters
  MaxChars       \* bound: characters written

BLANK == 0
CtlChars == {"nl", "ff", "bs", "cr", "tab", "bel"}

VARIABLES
  fb, cx, cy,    \* the frame buffer, by row and column, and the cursor
  paper,         \* history: all rows since the last clear, the scrolled ones too
  written        \* history: the number of characters

vgaVars == <<fb, cx, cy, paper, written>>

Columns == 0..(COL_CNT - 1)
Rows == 0..(ROW_CNT - 1)
BlankRow == [x \in Columns |-> BLANK]
Screen == [f |-> fb, x |-> cx, y |-> cy]

(* The display as vga_putc finds it, the cursor at the top.                *)
VgaInit ==
  /\ fb = [y \in Rows |-> BlankRow]
  /\ cx = 0 /\ cy = 0
  /\ paper = <<BlankRow>>
  /\ written = 0

newline(s) ==
  IF s.y + 1 < ROW_CNT THEN [s EXCEPT !.x = 0, !.y = @ + 1]
  ELSE [f |-> [y \in Rows |-> IF y < ROW_CNT - 1 THEN s.f[y + 1] ELSE BlankRow],
        x |-> 0, y |-> ROW_CNT - 1]

cls == [f |-> [y \in Rows |-> BlankRow], x |-> 0, y |-> 0]

(* The cursor has moved to column x.                                       *)
MoveTo(s, x) == IF x >= COL_CNT THEN newline(s) ELSE [s EXCEPT !.x = x]

(* vga_putc of a printing character, and of the control characters.        *)
Put(c) == MoveTo([Screen EXCEPT !.f[cy][cx] = c], cx + 1)

Control(c) ==
  CASE c = "nl" -> newline(Screen)
    [] c = "ff" -> cls
    [] c = "bs" -> [Screen EXCEPT !.x = IF @ > 0 THEN @ - 1 ELSE @]
    [] c = "cr" -> [Screen EXCEPT !.x = 0]
    [] c = "tab" -> MoveTo(Screen, ((cx + TabStop) \div TabStop) * TabStop)
    [] c = "bel" -> Screen

vga_putc(s) == fb' = s.f /\ cx' = s.x /\ cy' = s.y

-----------------------------------------------------------------------------
(* The paper of a printer that never scrolls: the cursor is on its last    *)
(* row, and a row that is left is followed by a blank one.                 *)
OnPaper(c) == [paper EXCEPT ![Len(paper)][cx] = c]
Fed(p, feeds) == IF feeds THEN Append(p, BlankRow) ELSE p

WriteLetter(c) ==
  /\ vga_putc(Put(c))
  /\ paper' = Fed(OnPaper(c), cx = COL_CNT - 1)

WriteControl(c) ==
  /\ vga_putc(Control(c))
  /\ paper' = CASE c = "nl" -> Fed(paper, TRUE)
                [] c = "ff" -> <<BlankRow>>
                [] c = "tab" -> Fed(paper, cx - (cx % TabStop) + TabStop >= COL_CNT)
                [] OTHER -> paper

VgaNext ==
  /\ written < MaxChars
  /\ written' = written + 1
  /\ \/ \E c \in Letters : WriteLetter(c)
     \/ \E c \in CtlChars : WriteControl(c)

(* The display shows the end of what was written: the rows of the paper    *)
(* that fit, in order, blank rows below, and the cursor on the last of     *)
(* them and within the screen, through wrapping, scrolling and tabs.       *)
ScreenShowsTail ==
  LET n == Len(paper)
      top == IF n > ROW_CNT THEN n - ROW_CNT ELSE 0
  IN  /\ cx \in Columns /\ cy = n - top - 1
      /\ \A y \in Rows : fb[y] = IF top + y + 1 <= n THEN paper[top + y + 1] ELSE BlankRow
=============================================================================
