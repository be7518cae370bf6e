SPECIFICATION Spec
CONSTANTS
  MaxSource = 4
  SourceLimit = 3
  CipherLimit = 3
  Chunk = 2
INVARIANTS SuccessIsComplete ValidatedFirst NothingLeftBehind
PROPERTIES CleanupIsSafe FirstErrorIsFinal
