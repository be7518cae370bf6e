SPECIFICATION FairSpec
CONSTANTS
  Task = {p1, p2}
  Operation = {apk, opkg}
  Page = 2
  MaxRecords = 5
  TTL = 1
  MaxNonce = 2
  MaxEpoch = 2
  None = None
INVARIANTS RestingSlot ChainIsComplete
PROPERTIES PageIsCurrent LeaseReturns
