SPECIFICATION Spec
CONSTANTS
  PageSize = 16
  AddrSpace = 768
  VirtBase = 128
  LowMemEnd = 16
  KernelEnd = 40
  EarlyLimit = 128
  HeapAlign = 8
  TableEntries = 8
  DirEntries = 6
  KernelDir = 1
  Frames = {0, 1, 2, 3, 4, 5, 6, 7, 8, 9, 10, 11, 12, 13, 14, 15, 16, 17, 18, 19, 20, 21, 22}
  BootTable = 0
  NoFrame = NoFrame
  HeaderSize = 6
  MinSplit = 8
  GrowPages = 2
  HeapStart = 24
  HeapEnd = 34
  TestPage = 16
  Memories <- MCMemories
  Sizes = {0, 16, 47, 760, 767}
  TestSize = 16
INVARIANTS
  Inductive
  HeapBacked
  BlocksSound
  FramesAccounted
  StopsOnlyWhenExhausted
PROPERTIES
  BlocksInUseStay
  RefusedOnlyWhenExhausted
  ImplementsHeapSpec
  CommandsFinish
CHECK_DEADLOCK FALSE
