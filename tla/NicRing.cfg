SPECIFICATION FairSpec
CONSTANTS
  RingSize = 3
  Total = 8
INVARIANTS
  NoDataRace
PROPERTIES
  ImplementsQueue
