------------------------------ MODULE Keyboard ------------------------------
(***************************************************************************)
(* keyboard.c: the handler that reads one scancode byte per interrupt and  *)
(* turns it into a call of the shell, with the flags shift_down and         *)
(* caps_lock_on.  The keys, and the keyboard that keeps a few bytes for the *)
(* handler, are external: a key sends its make code when it is pressed and  *)
(* while it repeats, the code plus 128 when it is released, each behind an  *)
(* E0 byte if it is one of the extended keys, and nothing when there is no  *)
(* room for all of it.                                                      *)
(***************************************************************************)
EXTENDS Naturals, Sequences, FiniteSets, TLC

CONSTANTS
  Keys,              \* the keys of the instance
  Code,              \* their make codes
  Extended,          \* the keys that send E0 first
  MaxUnread,         \* bytes the keyboard keeps
  MaxHeld,           \* bound on the keys that are down at once
  keyboard_map, keyboard_shift_map,  \* make code to character, or NoChar
  NoChar,            \* the character 0
  Letters, Upper     \* the lower-case letters, and toupper on them

VARIABLES
  held,                  \* the keys that are down
  heard,                 \* history: the last change of a shift key that was sent was a press
  wire,                  \* the bytes not read yet
  shiftDown, capsLock,   \* shift_down, caps_lock_on
  call                   \* history: the call of the shell or the terminal this step made, if any

vars == <<held, heard, wire, shiftDown, capsLock, call>>

Prefix == \HE0
Break(code) == code + 128

\* Shell operations by scancode.
ShellKeys ==
  \H48 :> "shell_history_prev" @@ \H50 :> "shell_history_next" @@
  \H4B :> "shell_move_left"    @@ \H4D :> "shell_move_right"   @@
  \H47 :> "shell_move_home"    @@ \H4F :> "shell_move_end"     @@
  \H53 :> "shell_delete_forward"
ShiftCodes == {\H2A, \H36}
ShiftBreaks == {Break(code) : code \in ShiftCodes}
CapsCode == \H3A

ASSUME KeyboardAssumption ==
  /\ Code \in [Keys -> 1 .. 127] /\ Extended \subseteq Keys
  /\ \A key1, key2 \in Keys : Code[key1] = Code[key2] => key1 = key2
  /\ MaxUnread \in Nat \ {0}
  /\ \A code \in DOMAIN keyboard_map : keyboard_map[code] = NoChar <=> keyboard_shift_map[code] = NoChar

-----------------------------------------------------------------------------
(* The handler, as a function of the flags and the byte.                    *)

InCase(char, up) == IF up THEN Upper[char] ELSE char
Lower(char) ==
  IF char \in {Upper[letter] : letter \in Letters}
  THEN CHOOSE letter \in Letters : Upper[letter] = char ELSE char

\* Mutant: Caps Lock works on every key.
Translated_CapsShifts(code, shift, caps) ==
  IF shift # caps THEN keyboard_shift_map[code] ELSE keyboard_map[code]

\* keyboard_translate_scancode; isalpha, toupper and tolower by the case pairs of Letters.
Translated(code, shift, caps) ==
  LET char == IF shift THEN keyboard_shift_map[code] ELSE keyboard_map[code]
  IN  IF Lower(char) \in Letters THEN InCase(Lower(char), shift # caps) ELSE char

Typed(code, shift, caps) ==
  IF Translated(code, shift, caps) = NoChar THEN <<"unknown", code>>
  ELSE <<"shell_handle_char", Translated(code, shift, caps)>>

\* The state after a byte: the flags, and the calls made so far.
Handled(state, byte) ==
  CASE byte \in DOMAIN ShellKeys -> [state EXCEPT !.calls = Append(@, <<ShellKeys[byte]>>)]
    [] byte \in ShiftCodes -> [state EXCEPT !.shift = TRUE]
    [] byte \in ShiftBreaks -> [state EXCEPT !.shift = FALSE]
    [] byte = CapsCode -> [state EXCEPT !.caps = ~@]
    [] byte >= 128 -> state
    [] OTHER -> [state EXCEPT !.calls = Append(@, Typed(byte, state.shift, state.caps))]

Kernel == [shift |-> shiftDown, caps |-> capsLock, calls |-> <<>>]
AfterAll ==
  LET after[n \in 0 .. Len(wire)] == IF n = 0 THEN Kernel ELSE Handled(after[n - 1], wire[n])
  IN  after[Len(wire)]

-----------------------------------------------------------------------------
Init ==
  /\ held = {} /\ heard = FALSE /\ wire = <<>>
  /\ shiftDown = FALSE /\ capsLock = FALSE /\ call = <<>>

Bytes(key) == IF key \in Extended THEN 2 ELSE 1
Sent(key, code) == IF key \in Extended THEN <<Prefix, code>> ELSE <<code>>
Shifts == {key \in Keys : Code[key] \in ShiftCodes /\ key \notin Extended}

Sends(key, code, pressed) ==
  IF Len(wire) + Bytes(key) > MaxUnread THEN UNCHANGED <<wire, heard>>
  ELSE /\ wire' = wire \o Sent(key, code)
       /\ heard' = IF key \in Shifts THEN pressed ELSE heard

\* Also the repetition of a key that is held.
Press(key) ==
  /\ key \in held \/ Cardinality(held) < MaxHeld
  /\ held' = held \cup {key} /\ Sends(key, Code[key], TRUE)
  /\ call' = <<>> /\ UNCHANGED <<shiftDown, capsLock>>

Release(key) ==
  /\ key \in held /\ held' = held \ {key} /\ Sends(key, Break(Code[key]), FALSE)
  /\ call' = <<>> /\ UNCHANGED <<shiftDown, capsLock>>

\* One interrupt, one byte.
keyboard_handle ==
  /\ wire # <<>> /\ wire' = Tail(wire)
  /\ LET after == Handled(Kernel, Head(wire)) IN
     /\ shiftDown' = after.shift /\ capsLock' = after.caps
     /\ call' = IF after.calls = <<>> THEN <<>> ELSE Head(after.calls)
  /\ UNCHANGED <<held, heard>>

Next == keyboard_handle \/ \E key \in Keys : Press(key) \/ Release(key)

\* The processor takes the interrupts of the keyboard: LinesServed of Startup.
Spec == Init /\ [][Next]_vars /\ WF_vars(keyboard_handle)

-----------------------------------------------------------------------------
(* Properties.                                                              *)

\* What a key asks for, whatever byte stands before it.
Means(key, shift, caps) ==
  IF Code[key] \in ShiftCodes \cup {CapsCode} THEN <<>>
  ELSE IF Code[key] \in DOMAIN ShellKeys THEN << <<ShellKeys[Code[key]]>> >>
  ELSE LET char == keyboard_map[Code[key]]
       IN  IF char \in Letters THEN << <<"shell_handle_char", InCase(char, shift # caps)>> >>
           ELSE IF char = NoChar THEN << <<"unknown", Code[key]>> >>
           ELSE << <<"shell_handle_char",
                     IF shift THEN keyboard_shift_map[Code[key]] ELSE char>> >>

CapsLockKey == CHOOSE key \in Keys : Code[key] = CapsCode

Promised == INSTANCE Typing WITH
  CapsLock <- CapsLockKey, caps <- AfterAll.caps, unread <- Len(wire), asked <- AfterAll.calls

\* Bytes are handled one at a time, long after the keys have moved on, and may be lost;
\* still each key that reached the keyboard asks for what it meant when it was pressed,
\* and in the order of the presses.  When one shift key is released while the other is
\* held, or a shift key's bytes are lost, either meaning is allowed until the next change
\* of a shift key that leaves no such doubt (keyboard.c:78-125).
ImplementsTyping == Promised!Spec

=============================================================================
