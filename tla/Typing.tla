------------------------------- MODULE Typing -------------------------------
(***************************************************************************)
(* What somebody at the keyboard may rely on: each key that is pressed asks *)
(* the shell for what it means at that moment, in the order of the presses. *)
(* A key is lost only while too many bytes are unread.                      *)
(***************************************************************************)
EXTENDS Naturals, Sequences, FiniteSets

CONSTANTS
  Keys, Shifts, CapsLock,  \* all keys, the shift keys among them, and Caps Lock
  Means(_, _, _),          \* what a key asks for, with shift or not and caps or not:
                           \* a sequence of no or one call
  Bytes(_),                \* how many bytes a press or a release of the key sends
  MaxUnread                \* bytes the keyboard keeps

VARIABLES
  held,    \* the keys that are down
  heard,   \* whether the last change of a shift key that was not lost was a press
  caps,    \* whether Caps Lock is on
  unread,  \* bytes not read yet
  asked,   \* calls not made yet
  call     \* the call this step made

vars == <<held, heard, caps, unread, asked, call>>

\* One shift at a time, none lost: then nobody can be in doubt about the shift state.
\* Otherwise a key may mean either.
ShiftHeld == held \cap Shifts # {}
ShiftsMeant == IF heard = ShiftHeld THEN {ShiftHeld} ELSE BOOLEAN

Init ==
  /\ held = {} /\ heard = FALSE /\ caps = FALSE
  /\ unread = 0 /\ asked = <<>> /\ call = <<>>

Heard(key, pressed) ==
  /\ unread + Bytes(key) <= MaxUnread
  /\ unread' = unread + Bytes(key)
  /\ heard' = IF key \in Shifts THEN pressed ELSE heard

\* Pressed, or repeated while it is held: Caps Lock too counts again.
Press(key) ==
  /\ held' = held \cup {key}
  /\ Heard(key, TRUE)
  /\ caps' = IF key = CapsLock THEN ~caps ELSE caps
  /\ \E shift \in ShiftsMeant : asked' = asked \o Means(key, shift, caps)
  /\ call' = <<>>

Release(key) ==
  /\ key \in held /\ held' = held \ {key}
  /\ Heard(key, FALSE)
  /\ call' = <<>> /\ UNCHANGED <<caps, asked>>

\* The press or the release of a key for which there is no room.
Lose(key) ==
  /\ unread + Bytes(key) > MaxUnread
  /\ held' \in {held \cup {key}, held \ {key}}
  /\ call' = <<>> /\ UNCHANGED <<heard, caps, unread, asked>>

\* The bytes that are read ask for nothing.
Skip == unread' \in 0 .. unread /\ call' = <<>> /\ UNCHANGED <<held, heard, caps, asked>>

Make ==
  /\ asked # <<>> /\ call' = Head(asked) /\ asked' = Tail(asked)
  /\ unread' \in 0 .. unread
  /\ UNCHANGED <<held, heard, caps>>

Next == Skip \/ Make \/ \E key \in Keys : Press(key) \/ Release(key) \/ Lose(key)

\* Whatever has been asked for is done in the end.
Spec == Init /\ [][Next]_vars /\ WF_vars(Make)
=============================================================================
