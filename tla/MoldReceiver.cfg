SPECIFICATION Spec
CONSTANTS
  MaxNumber = 6
  kEndOfSession = 5
  MaxHeld = 1
  NoSession = NoSession
  Session = s1
  Sockets = {1, 2}
  Feeds <- Sessions
  Ends = 1
  MaxBytes = 86
  MessageBytes = {12, 19, 23, 31, 36}
  Refs = {1}
  Room = 2
  Malformed <- NoiseIn
  GapWait = 0
  IdleWait = 0
INVARIANTS
  CleanMeansComplete
  ExitCountsEveryGap
  EndedMeansAllAccounted
PROPERTIES
  NoneLostUnread
  Stops
