SPECIFICATION Spec
CONSTANTS
  Commands <- MCCommands
  Alloc = "alloc"
  Bucket <- MCBucket
  Supplies = {{1, 2, 3, 4, 5, 6, 7, 8, 9}}
  MaxKeys = 2
  TickModulus = 3
  Others = {}
INVARIANT
  EarlyAllocIsOwn
