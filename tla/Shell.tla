------------------------------- MODULE Shell --------------------------------
(***************************************************************************)
(* shell.c: the line editor, its history ring and what it draws with       *)
(* terminal.c, as keyboard_handle calls it, one key at a time (IRQ 1 runs   *)
(* with interrupts off).  shell_buffer is the C array with its terminator   *)
(* and the bytes left behind it; the strings that are only copied and       *)
(* compared, the saved line and the history entries, are sequences.         *)
(***************************************************************************)
EXTENDS Terminal, FiniteSetsExt

CONSTANTS
  Chars,        \* what the keyboard can type, with the space
  Nul,          \* the terminator
  BufferSize,   \* SHELL_BUFFER_SIZE, 128
  HistorySize,  \* SHELL_HISTORY_SIZE, 16
  Prompt,       \* SHELL_PROMPT
  Outputs,      \* what commands and error messages write
  Complaint,    \* the message of a full buffer
  MaxCursor,    \* bound on the cursor for keys without a character
  Unknown       \* what keyboard_handle writes for a key without a character

ASSUME ShellAssumption ==
  /\ Chars \subseteq Glyphs /\ Nul \notin Chars
  /\ MaxCursor \in Nat /\ BufferSize \in Nat \ {0, 1} /\ HistorySize \in Nat \ {0}
  /\ Prompt \in Seq(Glyphs) /\ Prompt # <<>>
  /\ \A output \in Outputs \cup {Complaint, Unknown} : output \in Seq(Glyphs \cup {NewLine})

VARIABLES
  buffer, length, cursor,     \* shell_buffer, shell_buffer_length, shell_cursor_pos
  history, count, nextIndex,  \* shell_history, _count, _next_index
  viewIndex,                  \* shell_history_view_index, -1 when not browsing
  saved,                      \* shell_saved_buffer with its length and cursor
  promptStart, lastRendered,  \* shell_prompt_start_index, shell_last_rendered_length
  screen,                     \* terminal.c
  littered,                   \* the prompt was printed above other text, which Enter does when
                              \* the cursor is in the first row of a wrapped line, or an
                              \* unknown key wrote into the line since
  halted                      \* the command of an empty line stopped the machine

ringVars == <<history, count, nextIndex>>
vars == <<buffer, length, cursor, ringVars, viewIndex, saved, promptStart, lastRendered,
          screen, littered, halted>>

Positions == 0 .. (BufferSize - 1)
Slots == 0 .. (HistorySize - 1)
Text == UNION {[1 .. n -> Chars] : n \in Positions}
Buffers == [Positions -> Chars \cup {Nul}]
NothingSaved == [text |-> <<>>, length |-> 0, cursor |-> 0]

-----------------------------------------------------------------------------
(* C strings in shell_buffer.                                               *)

StringIn(array) ==
  LET end == Min({i \in Positions : array[i] = Nul}) IN [i \in 1 .. end |-> array[i - 1]]

\* strcpy(shell_buffer, text)
Copied(text) ==
  [i \in Positions |-> IF i < Len(text) THEN text[i + 1]
                       ELSE IF i = Len(text) THEN Nul ELSE buffer[i]]

\* shell_tokenize ends each word at the blank behind it.
Tokenized(array) ==
  [i \in Positions |->
     IF array[i] = Blank /\ i > 0 /\ array[i - 1] \notin {Blank, Nul} THEN Nul ELSE array[i]]

IsBlank(text) == \A i \in DOMAIN text : text[i] = Blank

\* The loops of shell_insert_char, shell_backspace and shell_delete_forward.
Inserted(char) ==
  [i \in Positions |-> IF i = cursor THEN char
                       ELSE IF i \in (cursor + 1) .. (length + 1) THEN buffer[i - 1] ELSE buffer[i]]
\* Mutant: the terminator is not moved.
RemovedAt_Short(position) ==
  [i \in Positions |-> IF i \in position .. (length - 2) THEN buffer[i + 1] ELSE buffer[i]]

RemovedAt(position) ==
  [i \in Positions |-> IF i \in position .. (length - 1) THEN buffer[i + 1] ELSE buffer[i]]

-----------------------------------------------------------------------------
(* Drawing.                                                                 *)

Blanks(n) == [i \in 1 .. n |-> Blank]

\* Mutant: a shorter line is not followed by blanks.
Refreshed_NoRest(on, newBuffer, newLength, newCursor) ==
  LET drawn == Prompt \o [i \in 1 .. newLength |-> newBuffer[i - 1]]
  IN  SetCursor(Write(SetCursor(on, promptStart), drawn), promptStart + Len(Prompt) + newCursor)

\* Mutant: the old line is erased from the cursor backwards, as in shell_history_next.
Refreshed_StepsBack(on, newBuffer, newLength, newCursor) ==
  LET drawn == Prompt \o [i \in 1 .. newLength |-> newBuffer[i - 1]]
  IN  SetCursor(Write(SetCursor(Backspaces(on, length), promptStart), drawn),
                promptStart + Len(Prompt) + newCursor)

\* shell_refresh_line over a screen, and the line it draws.
Refreshed(on, newBuffer, newLength, newCursor) ==
  LET drawn == Prompt \o [i \in 1 .. newLength |-> newBuffer[i - 1]]
      rest  == IF lastRendered > newLength THEN Blanks(lastRendered - newLength) ELSE <<>>
  IN  SetCursor(Write(SetCursor(on, promptStart), drawn \o rest),
                promptStart + Len(Prompt) + newCursor)

ShowsLineOn(on, newBuffer, newLength, newCursor) ==
  /\ buffer' = newBuffer /\ length' = newLength /\ cursor' = newCursor
  /\ screen' = Refreshed(on, newBuffer, newLength, newCursor)
  /\ lastRendered' = newLength
  /\ UNCHANGED <<promptStart, littered, halted>>
ShowsLine(newBuffer, newLength, newCursor) == ShowsLineOn(screen, newBuffer, newLength, newCursor)

\* shell_print_prompt after something was written, with an empty line.
PromptsAfter(on, array) ==
  /\ promptStart' = CursorIndex(on)
  /\ screen' = Write(on, Prompt)
  /\ lastRendered' = 0
  /\ littered' = (\E i \in Cells : i >= CursorIndex(on) + Len(Prompt) /\ on.cells[i] # Blank)
  /\ buffer' = [array EXCEPT ![0] = Nul] /\ length' = 0 /\ cursor' = 0

-----------------------------------------------------------------------------
(* Editing.                                                                 *)

Init ==
  /\ buffer = [i \in Positions |-> Nul] /\ length = 0 /\ cursor = 0
  /\ history = [i \in Slots |-> <<>>] /\ count = 0 /\ nextIndex = 0
  /\ viewIndex = -1 /\ saved = NothingSaved
  /\ \E output \in Outputs :
       LET booted == Write(Clear([row |-> 0]), output) IN
       /\ promptStart = CursorIndex(booted)
       /\ screen = Write(booted, Prompt)
  /\ lastRendered = 0 /\ littered = FALSE /\ halted = FALSE

\* Mutant: the terminator is not counted.
BufferFull_Late == length >= BufferSize

BufferFull == length >= BufferSize - 1

InsertChar(char) ==
  /\ ~halted /\ ~BufferFull
  /\ viewIndex' = -1
  /\ ShowsLine(Inserted(char), length + 1, cursor + 1)
  /\ UNCHANGED <<ringVars, saved>>

\* A full buffer loses the line: a message and a new prompt.
Overflow ==
  /\ ~halted /\ BufferFull
  /\ viewIndex' = -1
  /\ PromptsAfter(Write(screen, Complaint), buffer)
  /\ UNCHANGED <<ringVars, saved, halted>>

BackspaceKey ==
  /\ ~halted
  /\ viewIndex' = -1
  /\ IF cursor = 0 \/ length = 0
     THEN UNCHANGED <<buffer, length, cursor, screen, promptStart, lastRendered, littered, halted>>
     ELSE ShowsLine(RemovedAt(cursor - 1), length - 1, cursor - 1)
  /\ UNCHANGED <<ringVars, saved>>

DeleteForward ==
  /\ ~halted /\ cursor < length
  /\ ShowsLine(RemovedAt(cursor), length - 1, cursor)
  /\ UNCHANGED <<ringVars, viewIndex, saved>>

MovesTo(position) ==
  /\ ~halted
  /\ ShowsLine(buffer, length, position)
  /\ UNCHANGED <<ringVars, viewIndex, saved>>

MoveLeft == cursor > 0 /\ MovesTo(cursor - 1)
MoveRight == cursor < length /\ MovesTo(cursor + 1)
MoveHome == MovesTo(0)
MoveEnd == MovesTo(length)

\* A key that translates to no character.  Repeated, it takes the cursor ever further
\* behind the screen; MaxCursor bounds that.
UnknownKey ==
  /\ ~halted /\ CursorIndex(screen) <= MaxCursor
  /\ screen' = Write(screen, Unknown) /\ littered' = TRUE
  /\ UNCHANGED <<buffer, length, cursor, ringVars, viewIndex, saved, promptStart, lastRendered, halted>>

-----------------------------------------------------------------------------
(* History.                                                                 *)

\* Mutant: the index is that of the next entry, not of the newest.
PhysicalIndex_Next(fromNewest) == (nextIndex - fromNewest + HistorySize) % HistorySize

\* shell_history_physical_index
PhysicalIndex(fromNewest) == (nextIndex - 1 - fromNewest + HistorySize) % HistorySize

Newest == PhysicalIndex(0)

HistoryAdd(text) ==
  IF text = <<>> \/ (count > 0 /\ history[Newest] = text) THEN UNCHANGED ringVars
  ELSE /\ history' = [history EXCEPT ![nextIndex] = text]
       /\ nextIndex' = (nextIndex + 1) % HistorySize
       /\ count' = IF count < HistorySize THEN count + 1 ELSE count

SetLineOn(on, text) == ShowsLineOn(on, Copied(text), Len(text), Len(text))

HistoryPrev ==
  /\ ~halted /\ count > 0 /\ viewIndex < count - 1
  /\ viewIndex' = viewIndex + 1
  /\ saved' = IF viewIndex = -1
              THEN [text |-> StringIn(buffer), length |-> length, cursor |-> cursor] ELSE saved
  /\ SetLineOn(screen, history[PhysicalIndex(viewIndex + 1)])
  /\ UNCHANGED ringVars

\* shell_clear_onscreen_command steps back over the whole line from wherever the cursor is.
ClearedOnScreen == Backspaces(screen, length)

HistoryNext ==
  /\ ~halted /\ count > 0 /\ viewIndex # -1
  /\ viewIndex' = viewIndex - 1
  /\ IF viewIndex > 0 THEN SetLineOn(ClearedOnScreen, history[PhysicalIndex(viewIndex - 1)])
     ELSE ShowsLineOn(ClearedOnScreen, Copied(saved.text), saved.length, saved.cursor)
  /\ UNCHANGED <<ringVars, saved>>

-----------------------------------------------------------------------------
(* Enter.  What commands and messages write is one of Outputs; clear empties the  *)
(* screen.  A line without words leaves argv[0] unset: the lookup reads whatever  *)
(* the stack holds there, prints it, or faults.                                   *)

Entered == LineFeed(screen)
Ran == {Write(Entered, output) : output \in Outputs}

EnterLine ==
  /\ ~halted
  /\ HistoryAdd(StringIn([buffer EXCEPT ![length] = Nul]))
  /\ viewIndex' = -1 /\ saved' = NothingSaved

Enter ==
  /\ EnterLine
  /\ \E after \in Ran \cup {Clear(Entered)} : PromptsAfter(after, Tokenized(buffer))
  /\ UNCHANGED halted

EnterFaults ==
  /\ EnterLine /\ IsBlank(StringIn(buffer))
  /\ halted' = TRUE
  /\ screen' \in Ran
  /\ UNCHANGED <<buffer, length, cursor, promptStart, lastRendered, littered>>

Edit ==
  \/ \E char \in Chars : InsertChar(char)
  \/ BackspaceKey \/ DeleteForward
  \/ MoveLeft \/ MoveRight \/ MoveHome \/ MoveEnd
Next == Edit \/ Overflow \/ HistoryPrev \/ HistoryNext \/ Enter \/ EnterFaults \/ UnknownKey

Spec == Init /\ [][Next]_vars

-----------------------------------------------------------------------------
(* Properties.                                                              *)

\* The types of the editor's state; lines and saved lines fit their arrays.
TypeOK ==
  /\ buffer \in Buffers /\ length \in Positions /\ cursor \in Positions
  /\ history \in [Slots -> Text] /\ count \in 0 .. HistorySize /\ nextIndex \in Slots
  /\ viewIndex \in -1 .. (HistorySize - 1)
  /\ saved \in [text : Text, length : Positions, cursor : Positions]
  /\ promptStart \in Nat /\ lastRendered \in Positions
  /\ screen \in Screen
  /\ littered \in BOOLEAN /\ halted \in BOOLEAN

\* The buffer is always a C string of the length the editor keeps beside it, with the
\* cursor inside, whichever way the line was edited, loaded or restored: no loop reads
\* or writes behind it (shell.c:38-54, 126-166).
BufferIsString ==
  /\ Len(StringIn(buffer)) = length /\ cursor <= length
  /\ Len(saved.text) = saved.length /\ saved.cursor <= saved.length

\* The state that the keys edit, the screen aside: the terminator stands behind the line,
\* the index of the line being looked at is one of the ring's, and the saved line fits.
EditorSound ==
  /\ buffer \in Buffers /\ length \in Positions /\ cursor \in 0 .. length
  /\ buffer[length] = Nul /\ \A i \in 0 .. (length - 1) : buffer[i] # Nul
  /\ history \in [Slots -> Text] /\ count \in 0 .. HistorySize /\ nextIndex \in Slots
  /\ viewIndex \in -1 .. (count - 1)
  /\ saved \in [text : Text, length : Positions, cursor : Positions]
  /\ Len(saved.text) = saved.length /\ saved.cursor <= saved.length

\* What the user sees of the arrays.
Line == [i \in 1 .. length |-> buffer[i - 1]]
Recent == [i \in 1 .. count |-> history[PhysicalIndex(i - 1)]]
Draft == [text |-> saved.text, cursor |-> saved.cursor]

Editing == INSTANCE LineEditing WITH
  text <- Line, recent <- Recent, position <- viewIndex + 1, draft <- Draft,
  MaxLength <- BufferSize - 1, MaxRecent <- HistorySize

\* The editor keeps the promise of LineEditing: keys edit the text at the cursor, the
\* ring holds the most recent lines in order, and the draft comes back (shell.c:79-231).
ImplementsLineEditing == Editing!Spec

LineEnd == promptStart + Len(Prompt) + length

\* The screen from the prompt on shows the prompt, the line and nothing of a longer
\* line that was there before, and the cursor stands where the next character goes, as
\* long as all of it is above the lower edge and the prompt was printed below everything
\* else (shell.c:109-124).
LineOnScreen ==
  ~littered /\ ~halted /\ LineEnd < Width * Height =>
    /\ \A i \in 1 .. Len(Prompt) : screen.cells[promptStart + i - 1] = Prompt[i]
    /\ \A i \in 1 .. length : screen.cells[promptStart + Len(Prompt) + i - 1] = buffer[i - 1]
    /\ \A i \in LineEnd .. (Width * Height - 1) : screen.cells[i] = Blank
    /\ CursorIndex(screen) = promptStart + Len(Prompt) + cursor

\* What keeps the line on the screen: what shell_refresh_line has to blank is what it drew
\* last, and nothing is left behind that, also where the line runs off the screen.
ScreenSound ==
  /\ lastRendered = length /\ LineOnScreen
  /\ ~littered /\ ~halted /\ promptStart \in Cells =>
       \A i \in Cells : i >= LineEnd => screen.cells[i] = Blank

\* The inductive invariant behind the theorems of ShellProofs.
StateSound == TypeOK /\ EditorSound /\ ScreenSound

Above == {i \in Cells : i < promptStart}
KeepsAbove == \A i \in Above : screen'.cells[i] = screen.cells[i]

\* Editing a line never changes what stands above the prompt (shell.c:109-190).
EditKeepsOutput == [][(promptStart \in Cells /\ ~KeepsAbove) => (~Edit)]_vars

\* shell.c:244 "Use Up/Down arrow keys to navigate through history.": to look at another
\* line does not change what stands above the prompt.
BrowsingKeepsOutput == [][~KeepsAbove => ~(HistoryPrev \/ HistoryNext)]_vars

=============================================================================
