SPECIFICATION Spec
CONSTANTS
  PageSize = 4
  AddrSpace = 128
  VirtBase = 92
  LowMemEnd = 8
  KernelEnd = 13
  EarlyLimit = 28
  HeapAlign = 2
  BitsPerWord = 4
  WordSize = 1
  E820Maps <- MCMaps
  RunLengths = {0, 1, 3}
  Limits = {0, 30}
INVARIANTS
  Inductive
  ReservedNeverFree
  HeldIsUsed
  PoolIsRam
  UsedAccounting
PROPERTIES
  CallsReturn
  ImplementsFramePool
