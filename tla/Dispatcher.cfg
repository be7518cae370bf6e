SPECIFICATION Spec
CONSTANTS
  Req = {r1, r2, r3}
  MaxConcurrent = 1
  Refusals = {denied}
  None = None
SYMMETRY Symmetry
INVARIANTS WorkIsAudited AnswerIsAudited Conserved LateIsNoSuccess
PROPERTY LatchIsFinal
