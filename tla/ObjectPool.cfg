SPECIFICATION PoolSpec
CONSTANTS
  BlockSize = 2
  Users = {u1, u2, u3, u4, u5}
  Objects = {v1, v2}
  Null = Null
INVARIANTS
  SlotsPartitioned
  FreeListIntact
PROPERTIES
  ImplementsAllocator
