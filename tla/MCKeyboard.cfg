SPECIFICATION Spec
CONSTANTS
  Keys <- MCKeys
  Code <- MCCode
  Extended <- MCExtended
  MaxUnread = 3
  MaxHeld = 2
  keyboard_map <- MCMap
  keyboard_shift_map <- MCShiftMap
  NoChar = ""
  Letters <- MCLetters
  Upper <- MCUpper
PROPERTY
  ImplementsTyping
