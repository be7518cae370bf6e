SPECIFICATION FairSpec
CONSTANTS
  Task = {p1, p2}
  Object = {system}
  TTL = 1
  MaxEpoch = 1
  MaxObs = 1
  None = None
PROPERTY Served
