SPECIFICATION FairSpec
CONSTANTS
  Size = 4
  Modulus = 8
  Total = 18
INVARIANTS
  NoDataRace
  OneOwnerPerSlot
  ReceivedInOrder
  IndicesAgree
PROPERTIES
  ImplementsQueue
  AllReceived
