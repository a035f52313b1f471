SPECIFICATION Spec
CONSTANTS
  Null = Null
  Locates = {1}
  kEmpty = 0
  Slots = {1, 2, 3, 4, 5, 6, 7}
  Depth = 3
  Warmup = 1
  Rounds = 4
  kQty = 10
  kBestBid = 3
  MaxOrders = 4
  MaxPrice = 3
  MaxQuantity = 3
INVARIANTS
  BooksAgree
  MatchingIsFair
