SPECIFICATION Spec
CONSTANTS
  Task = {p1, p2}
  Object = {system}
  TTL = 2
  MaxEpoch = 2
  MaxObs = 2
  None = None
SYMMETRY Symmetry
INVARIANT CopiesAreCached
PROPERTY VerdictIsSound
