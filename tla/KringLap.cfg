CONSTANTS
  w1 = w1
  w2 = w2
  Writers = {w1, w2}
  NumSlots = 3
  Requests = {1, 2}
  ZeroLease = FALSE
  AllowLap = TRUE
  NoWriter = NoWriter
SPECIFICATION Spec
INVARIANTS TailBehindLease
