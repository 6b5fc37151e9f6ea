CONSTANTS
  w1 = w1
  w2 = w2
  w3 = w3
  Writers = {w1, w2, w3}
  NumSlots = 3
  Requests = {1, 2}
  ZeroLease = FALSE
  AllowLap = FALSE
  NoWriter = NoWriter
SPECIFICATION FairSpec
INVARIANTS
  TypeOK
  PublishedFilled
  TailBehindLease
  BlocksDisjoint
  NothingStranded
  UnleasedFree
  KringChain
PROPERTIES
  ImplementsOrderedRing
  EveryLeaseConsumed
