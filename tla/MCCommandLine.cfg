SPECIFICATION Spec
CONSTANTS
  HexDigits = 2
  Kilo = 16
  Lines <- MCLines
  MaxArgs = 4
  Names <- MCNames
  Order <- MCOrder
  TableSize = 3
  HashFactor = 245
  MaxDigits = 5
  DivideZero <- MCDivideZero
  DefaultSize = 64
  Frequency = 2
  Ticks <- MCTicks
  Minute = 4
  MemoryMaps <- MCMemoryMaps
INVARIANTS
  ArgumentsAreWords
  CalcIsExact
  AnswersAreTrue
PROPERTIES
  LineIsAnswered
CHECK_DEADLOCK FALSE
