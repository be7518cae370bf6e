SPECIFICATION FairSpec
CONSTANTS
  Req = {r1, r2}
  MaxConcurrent = 2
  Refusals = {denied, invalid_arguments}
  None = None
INVARIANT OneVerdict
PROPERTY Answered
