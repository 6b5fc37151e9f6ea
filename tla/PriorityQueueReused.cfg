CONSTANTS
  e1 = e1
  e2 = e2
  e3 = e3
  e4 = e4
  Elements = {e1, e2, e3, e4}
  Priorities = {0, 1, 5}
  KeyBits = 3
  ReuseEntries = TRUE
  Null = Null
SYMMETRY AnyElement
SPECIFICATION Spec
INVARIANT OneTree
