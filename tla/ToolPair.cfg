\* Every log of up to four records of two sessions, read from the start, with one record
\* appended or the log replaced between any two steps of the passes.
SPECIFICATION Spec
CONSTANTS
  Sessions = {"A", "B"}
  CallIds = {"c1", "c2"}
  Contents <- Mixed
  Appends <- Results
  Replacements <- Swapped
  MaxRecords = 4
  EventCaps = {1, 2}
  Starts = {0}
INVARIANTS
  TypeOK
  AbsenceProven
  PairsExact
  ReentryReaches
  PairsFitAndShow
CHECK_DEADLOCK FALSE
