----------------------------- MODULE LineEditing ----------------------------
(***************************************************************************)
(* What the user of the shell's line editor may rely on: a line with a     *)
(* cursor, the most recent submitted lines (newest first, no line twice in *)
(* a row), and a draft that comes back when browsing ends.  No buffers, no *)
(* ring, no screen.                                                        *)
(***************************************************************************)
EXTENDS Naturals, SequencesExt

CONSTANTS
  Chars,       \* what can be typed
  MaxLength,   \* the longest line
  MaxRecent    \* how many submitted lines are kept

VARIABLES
  text, cursor,  \* the line and the number of characters before the cursor
  recent,        \* submitted lines, newest first
  position,      \* the recent line being looked at, 0 for none
  draft          \* what was being typed when browsing began

vars == <<text, cursor, recent, position, draft>>
NoDraft == [text |-> <<>>, cursor |-> 0]

Init ==
  /\ text = <<>> /\ cursor = 0
  /\ recent = <<>> /\ position = 0 /\ draft = NoDraft

Line(newText, newCursor) == text' = newText /\ cursor' = newCursor

Type(char) ==
  /\ IF Len(text) < MaxLength
     THEN Line(InsertAt(text, cursor + 1, char), cursor + 1)
     ELSE Line(<<>>, 0)
  /\ position' = 0 /\ UNCHANGED <<recent, draft>>

Erase ==
  /\ IF cursor = 0 THEN UNCHANGED <<text, cursor>>
     ELSE Line(RemoveAt(text, cursor), cursor - 1)
  /\ position' = 0 /\ UNCHANGED <<recent, draft>>

Delete ==
  /\ cursor < Len(text) /\ Line(RemoveAt(text, cursor + 1), cursor)
  /\ UNCHANGED <<recent, position, draft>>

Move ==
  /\ cursor' \in {0, cursor - 1, cursor + 1, Len(text)} \cap (0 .. Len(text))
  /\ UNCHANGED <<text, recent, position, draft>>

Older ==
  /\ position < Len(recent)
  /\ position' = position + 1
  /\ Line(recent[position + 1], Len(recent[position + 1]))
  /\ draft' = IF position = 0 THEN [text |-> text, cursor |-> cursor] ELSE draft
  /\ UNCHANGED recent

Newer ==
  /\ position > 0
  /\ position' = position - 1
  /\ IF position = 1 THEN Line(draft.text, draft.cursor)
     ELSE Line(recent[position - 1], Len(recent[position - 1]))
  /\ UNCHANGED <<recent, draft>>

Remembered ==
  IF text = <<>> \/ (recent # <<>> /\ text = recent[1]) THEN recent
  ELSE SubSeq(<<text>> \o recent, 1, IF Len(recent) < MaxRecent THEN Len(recent) + 1 ELSE MaxRecent)

Submit ==
  /\ recent' = Remembered
  /\ Line(<<>>, 0) /\ position' = 0 /\ draft' = NoDraft

\* The line is remembered, and running it stops the machine.
SubmitAndStop == recent' = Remembered /\ position' = 0 /\ draft' = NoDraft /\ UNCHANGED <<text, cursor>>

Next ==
  \/ \E char \in Chars : Type(char)
  \/ Erase \/ Delete \/ Move \/ Older \/ Newer \/ Submit \/ SubmitAndStop

Spec == Init /\ [][Next]_vars
=============================================================================
