------------------------------ MODULE Terminal ------------------------------
(***************************************************************************)
(* terminal.c: the text screen, as operators on a screen record.  Colours  *)
(* and the hardware cursor are left out; the hardware cursor always follows *)
(* the pair (row, col).                                                    *)
(*                                                                         *)
(* A character that is written while the row is beyond the last one lands  *)
(* in VGA memory that is not displayed and that scrolling does not bring   *)
(* back, so the model drops it.                                            *)
(***************************************************************************)
EXTENDS Naturals, SequencesExt

CONSTANTS
  Width, Height,  \* VGA_WIDTH, VGA_HEIGHT
  Glyphs,         \* what a cell may show
  Blank,          \* the space
  NewLine         \* '\n', which is never shown

ASSUME ScreenAssumption ==
  /\ Width \in Nat \ {0} /\ Height \in Nat \ {0}
  /\ Blank \in Glyphs /\ NewLine \notin Glyphs

Cells == 0 .. (Width * Height - 1)
Screen == [cells : [Cells -> Glyphs], row : Nat, col : 0 .. (Width - 1)]

\* terminal_clear
Clear(screen) == [cells |-> [i \in Cells |-> Blank], row |-> 0, col |-> 0]

CursorIndex(screen) == screen.row * Width + screen.col

\* terminal_set_cursor_index: an index behind the screen is taken to its last cell.
SetCursor(screen, index) ==
  LET i == IF index >= Width * Height THEN Width * Height - 1 ELSE index
  IN  [screen EXCEPT !.row = i \div Width, !.col = i % Width]

Scrolled(cells) ==
  [i \in Cells |-> IF i + Width \in Cells THEN cells[i + Width] ELSE Blank]

\* The column wraps to the next row without scrolling; only '\n' scrolls.
Advanced(screen) ==
  IF screen.col + 1 >= Width THEN [screen EXCEPT !.row = @ + 1, !.col = 0]
  ELSE [screen EXCEPT !.col = @ + 1]

Shown(screen, glyph) ==
  IF CursorIndex(screen) \in Cells THEN [screen EXCEPT !.cells[CursorIndex(screen)] = glyph] ELSE screen

LineFeed(screen) ==
  IF screen.row + 1 >= Height
  THEN [cells |-> Scrolled(screen.cells), row |-> Height - 1, col |-> 0]
  ELSE [screen EXCEPT !.row = @ + 1, !.col = 0]

WriteChar(screen, char) ==
  IF char = NewLine THEN LineFeed(screen) ELSE Advanced(Shown(screen, char))

Write(screen, text) ==
  LET after[n \in 0 .. Len(text)] == IF n = 0 THEN screen ELSE WriteChar(after[n - 1], text[n])
  IN  after[Len(text)]

\* terminal_backspace steps back, also over the start of a row, and blanks the cell.
Backspace(screen) ==
  LET back == IF screen.col > 0 THEN [screen EXCEPT !.col = @ - 1]
              ELSE IF screen.row > 0 THEN [screen EXCEPT !.row = @ - 1, !.col = Width - 1]
              ELSE screen
  IN  Shown(back, Blank)

Backspaces(screen, count) ==
  LET after[n \in 0 .. count] == IF n = 0 THEN screen ELSE Backspace(after[n - 1])
  IN  after[count]
=============================================================================
