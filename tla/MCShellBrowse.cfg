SPECIFICATION Spec
CONSTANTS
  Width = 3
  Height = 2
  Glyphs = {" ", "a", ">", "o"}
  Blank = " "
  NewLine = NewLine
  Chars = {"a"}
  Nul = Nul
  MaxCursor = 7
  BufferSize = 3
  HistorySize = 1
  Prompt <- MCPrompt
  Outputs <- MCOutputs
  Complaint <- MCComplaint
  Unknown <- MCUnknown
PROPERTY
  BrowsingKeepsOutput
CHECK_DEADLOCK FALSE
