CONSTANTS
  e1 = e1
  e2 = e2
  e3 = e3
  q1 = q1
  q2 = q2
  t1 = t1
  t2 = t2
  c1 = c1
  Elements = {e1, e2, e3}
  LinkQueues = {q1, q2}
  ChainQueues = {t1, t2}
  Circles = {c1}
  Null = Null
SYMMETRY Interchangeable
SPECIFICATION Spec
INVARIANTS
  LinksMatchContents
  StackshotWalksWholeQueue
  SafeIterationMeetsAll
