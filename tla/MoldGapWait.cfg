SPECIFICATION WatchSpec
CONSTANTS
  MaxNumber = 6
  kEndOfSession = 5
  MaxHeld = 4
  NoSession = NoSession
  Session = s1
  Sockets = {1, 2}
  Feeds <- ThreeOrders
  Ends = 1
  MaxBytes = 86
  MessageBytes = {12, 19, 23, 31, 36}
  Refs = {1, 2, 3}
  Room = 4
  Malformed <- NoNoise
  GapWait = 1
  IdleWait = 1
PROPERTY EveryGapGetsItsWait
