\* Short logs of each agent under conversion, every state of the destinations under an export
\* or an installation, failures and kills at each step, a second command after the first.
SPECIFICATION Spec
CONSTANTS
  Destinations <- Paths
  MaxMeddling = 1
  Scenes <- AllScenes
  Appended <- Appends
  MaxRecords = 3
  MaxRuns = 2
  Sample = 2
INVARIANTS
  KeptIsClean
  EveryRecordRead
  FormatOfTheLog
  NeverTorn
  TemporariesRemoved
  RefusedWritesNothing
  WrittenInOrder
PROPERTIES
  InputKept
  SkillKept
  RunEnds
CHECK_DEADLOCK FALSE
