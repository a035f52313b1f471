SPECIFICATION Spec
CONSTANTS
  Null = Null
  Locates = {l1, l2}
  Refs = {r1, r2, r3}
  kEmpty = kEmpty
  Prices <- TwoPrices
  Sizes = {2}
  MaxShares = 2
  Slots = {1, 2, 3, 4}
SYMMETRY Symmetry
INVARIANTS
  BooksWellFormed
  IndexFindsEveryOrder
  ListenerIsCurrent
PROPERTIES
  ImplementsQueues
  CrossingsAreCounted
