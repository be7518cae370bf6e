SPECIFICATION Spec
CONSTANTS
  MaxBytes = 2
  Retained = 3
  Size = {1, 2, 3}
  MaxId = 6
  None = None
INVARIANTS InOrder Retention Bounded
