SPECIFICATION Spec
CONSTANTS
  PageSize = 16
  AddrSpace = 768
  VirtBase = 128
  LowMemEnd = 16
  KernelEnd = 40
  EarlyLimit = 128
  HeapAlign = 4
  TableEntries = 8
  DirEntries = 6
  KernelDir = 1
  Frames = {0, 1, 2, 3, 4, 5, 6, 7, 8, 9, 10, 11, 12, 13, 14, 15}
  BootTable = 0
  NoFrame = NoFrame
  HeaderSize = 3
  MinSplit = 4
  GrowPages = 2
  HeapStart = 24
  HeapEnd = 34
  TestPage = 16
  Memories <- MCFailingMemory
  Sizes = {7, 15}
  TestSize = 7
INVARIANT
  BootstrapHeapKept
CHECK_DEADLOCK FALSE
