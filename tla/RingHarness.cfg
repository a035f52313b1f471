SPECIFICATION Spec
CONSTANTS
  kSubBucketBits = 2
  ValueBits = 4
  Size = 2
  Batches = {1, 2}
  Reps = 1
  BurstMessages = 5
  PacedMessages = 2
  WarmupShare = 2
  Warmup = 1
  Intervals = {0, 1}
  Lead = 1
  Jumps = {1, 4}
  MaxTime = 9
  Skews <- SkewValues
INVARIANTS
  NoDataRace
  ExitIsEarned
  PercentilesAreClose
  StallsAreNotHidden
PROPERTIES
  Ends
