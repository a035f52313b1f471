SPECIFICATION Spec
CONSTANTS
  Null = Null
  Locates = {1}
  kEmpty = 0
  Slots = {1, 2, 3, 4, 5, 6, 7, 8, 9, 10, 11, 12, 13, 14}
  kHour = 36000
  kWindow = 2
  Orders = 4
  Googl <- Name
  BufferBytes = 100
  Extras <- MoreMessages
  Foreign <- NotForTheBooks
INVARIANTS
  HearsWhatWasSent
  ExitTellsTheFile
