SPECIFICATION Spec
CONSTANTS
  Commands <- MCCommands
  Alloc = "alloc"
  Bucket <- MCBucket
  Supplies = {{1, 2, 3, 4}, {1, 2, 3, 4, 5}, {1, 2, 3, 4, 5, 6, 7, 8, 9}}
  MaxKeys = 3
  TickModulus = 3
  Others = {12}
INVARIANTS
  Inductive
  BlocksDistinct
  TableWhole
PROPERTIES
  ShellStarts
  LinesServed
CHECK_DEADLOCK FALSE
