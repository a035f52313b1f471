SPECIFICATION Spec
CONSTANTS
  MaxNumber = 6
  kEndOfSession = 3
  MaxHeld = 0
  NoSession = NoSession
  Session = s1
  MaxBytes = 28
  MessageBytes = {1, 3}
  Ends = 3
  MessageLength <- Lengths
  Frames <- Contents
  MaxMessages = 4
  BufferSizes = {0, 1, 2, 3, 4, 5, 6, 8, 20}
INVARIANTS
  SendsTheWholeFile
  ReportsTheFile
