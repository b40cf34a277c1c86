SPECIFICATION Spec
CONSTANTS
  Keys = {1, 2, 3, 4, 5, 6, 7, 8, 9, 10}
  Offsets <- TwoForTwo
  MaxKeys = 3
  Addrs = {1, 2, 3, 4, 5, 6, 7, 8, 9, 10, 11}
  Memory = {0, 1, 2, 3}
  Reach = 3
INVARIANTS
  TreeShape
  LeafChain
  FreeSafe
PROPERTIES
  RefinesMap
