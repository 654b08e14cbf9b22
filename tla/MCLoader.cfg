SPECIFICATION Spec
CONSTANTS
  SectorsPerTrack = 3
  Heads = 2
  Stage2Sectors = 3
  KernelSectors = 8
  SegmentSectors = 8
  MaxEntries = 2
  FirmwareMaps <- MCFirmwareMaps
INVARIANTS
  Inductive
  ImagesWhole
  MapIsFaithful
PROPERTIES
  BootEnds
CHECK_DEADLOCK FALSE
