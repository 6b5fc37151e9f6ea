CONSTANTS
  t1 = t1
  t2 = t2
  o1 = o1
  o2 = o2
  p1 = p1
  p2 = p2
  g = g
  w1 = w1
  w2 = w2
  Threads = {t1, t2}
  Objects = {o1, o2}
  Locals <- LocalsOf
  Globals = {g}
  Weaks = {w1, w2}
  SourceMayDie = TRUE
  Null = Null
SYMMETRY Interchangeable
SPECIFICATION Spec
INVARIANT SourceSurvives
