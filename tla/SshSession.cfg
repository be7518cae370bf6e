SPECIFICATION FairSpec
CONSTANTS
  Task = {p1, p2}
  Maximum = 1
  None = None
INVARIANT IdleEpochIsLive
PROPERTIES FailureIsFinal SuccessIsComplete Released
