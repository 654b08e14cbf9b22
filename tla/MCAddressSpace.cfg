SPECIFICATION Spec
CONSTANTS
  TableEntries = 4
  DirEntries = 4
  KernelDir = 1
  Frames = {0, 1, 2, 3, 4, 5, 6}
  BootTable = 0
  NoFrame = NoFrame
  InitialFree <- MCInitialFree
  ClientPages <- MCClientPages
  WatchedPages <- MCWatchedPages
INVARIANTS
  Inductive
  TlbCoherent
  TablesSound
  StopsOnlyWithoutLowFrames
PROPERTIES
  ChangesOnePage
CHECK_DEADLOCK FALSE
