SPECIFICATION Spec
CONSTANTS
  Keys = {k1, k2, k3}
  Values = {v1, v2}
  kEmpty = kEmpty
  MinCapacity = 2
  MaxCapacity = 8
INVARIANTS
  IsTheMap
PROPERTIES
  CallsReturn
