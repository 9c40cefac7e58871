\* --limit equal to --max-events, with the retention floor at or below both.
SPECIFICATION Spec
CONSTANTS
  Kinds = {"hit", "miss"}
  InitialRecords <- HeaderOnly
  MaxRecords = 3
  MaxGens = 1
  PageLimits = {1}
  MaxEvents = 1
  RetainFloor = 1
  DiscoveryLines = 2
  MayTimeOut = FALSE
PROPERTIES
  PageWhileUndisplayed
