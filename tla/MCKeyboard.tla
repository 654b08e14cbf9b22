----------------------------- MODULE MCKeyboard -----------------------------
(* Both shift keys, Caps Lock, a letter, a digit, and an extended key.             *)
EXTENDS Keyboard

MCCode == [LShift |-> \H2A, RShift |-> \H36, Caps |-> \H3A, A |-> \H1E, One |-> \H02, Up |-> \H48]
MCKeys == DOMAIN MCCode
MCExtended == {"Up"}
MCMap == [code \in 0 .. 127 |-> CASE code = \H1E -> "a" [] code = \H02 -> "1" [] OTHER -> NoChar]
MCShiftMap == [code \in 0 .. 127 |-> CASE code = \H1E -> "A" [] code = \H02 -> "!" [] OTHER -> NoChar]
MCLetters == {"a"}
MCUpper == [a |-> "A"]
=============================================================================
