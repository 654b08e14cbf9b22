SPECIFICATION Spec
CONSTANTS
  SectorsPerTrack = 3
  Heads = 2
  Stage2Sectors = 3
  KernelSectors = 16
  SegmentSectors = 8
  MaxEntries = 2
  FirmwareMaps <- MCOneMap
INVARIANT
  AllowedKernelWhole
CHECK_DEADLOCK FALSE
