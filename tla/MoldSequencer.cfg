SPECIFICATION Spec
CONSTANTS
  MaxNumber = 6
  kEndOfSession = 3
  MaxHeld = 2
  NoSession = NoSession
  Sessions = {s1, s2}
  MaxCalls = 4
INVARIANTS
  ExactlyOnceInOrder
  LostIsWhatIsMissing
  NothingVanishes
  HeldBeyondGap
PROPERTIES
  GiveUpLosesOnlyMissing
  ImplementsDelivery
