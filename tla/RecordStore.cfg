SPECIFICATION Spec
CONSTANTS
  Proc = {p1, p2}
  Job = {j1, j2, j3}
  Form = {f1, f2}
  Parts = 3
  MaxRecords = 2
  Torn = Torn
  None = None
SYMMETRY Symmetry
INVARIANTS DurableStays NoAppendPastDamage NotPublishedIsTrue
PROPERTY Promise
