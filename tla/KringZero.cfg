CONSTANTS
  w1 = w1
  w2 = w2
  Writers = {w1, w2}
  NumSlots = 3
  Requests = {1, 2}
  ZeroLease = TRUE
  AllowLap = FALSE
  NoWriter = NoWriter
SPECIFICATION Spec
INVARIANT NothingStranded
