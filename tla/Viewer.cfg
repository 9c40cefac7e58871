\* Up to three records of every kind after the header, read in pages of one and
\* two events, by searches that may time out.
SPECIFICATION Spec
CONSTANTS
  Kinds = {"hit", "double", "miss", "empty", "bad", "huge", "hollow"}
  InitialRecords <- HeaderOnly
  MaxRecords = 4
  MaxGens = 1
  PageLimits = {1, 2}
  MaxEvents = 3
  RetainFloor = 3
  DiscoveryLines = 2
  MayTimeOut = TRUE
INVARIANTS
  TypeOK
  NoGapNoRepeat
  AppendBehindInspected
  CursorAccepted
  OkLeadsOn
PROPERTIES
  PageProgress
