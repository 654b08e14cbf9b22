SPECIFICATION Spec
CONSTANTS
  Width = 2
  Height = 2
  Glyphs = {" ", "a", ">", "o"}
  Blank = " "
  NewLine = NewLine
  Chars = {" ", "a"}
  Nul = Nul
  MaxCursor = 1
  BufferSize = 3
  HistorySize = 2
  Prompt <- MCPrompt
  Outputs <- MCNoOutput
  Complaint <- MCComplaint
  Unknown <- MCUnknown
INVARIANTS
  StateSound
  LineOnScreen
  BufferIsString
PROPERTIES
  EditKeepsOutput
  ImplementsLineEditing
CHECK_DEADLOCK FALSE
