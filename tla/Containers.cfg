CONSTANTS
  Nodes = {1, 2, 3, 4, 5, 6, 7, 8, 9, 10, 11}
  SplayNodes = {1, 2, 3, 4, 5, 11}
  MaxIterated = 4
  Key <- Keyed
  e1 = e1
  e2 = e2
  e3 = e3
  e4 = e4
  Elements = {e1, e2, e3, e4}
  Priorities = {0, 1, 5}
  KeyBits = 3
  ReuseEntries = FALSE
  Null = Null
SYMMETRY AnyElement
SPECIFICATION Containers
INVARIANTS
  TreeHoldsContent
  RedBlack
  LookupsAgree
  IterationInOrder
  HeapIsOneTree
  HeapRootIsBest
  HeapReturnsRootChange
