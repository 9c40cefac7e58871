\* Over-limit records that normalize to no event.
SPECIFICATION Spec
CONSTANTS
  Kinds = {"hit", "hollow"}
  InitialRecords <- HeaderOnly
  MaxRecords = 3
  MaxGens = 1
  PageLimits = {1}
  MaxEvents = 3
  RetainFloor = 3
  DiscoveryLines = 2
  MayTimeOut = FALSE
INVARIANTS
  RetryAccepted
