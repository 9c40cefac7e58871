\* A query resumed in the middle of a log that holds two sessions.
SPECIFICATION Spec
CONSTANTS
  Sessions = {"A", "B"}
  CallIds = {"c1", "c2"}
  Contents <- Readable
  Appends <- Results
  Replacements <- Swapped
  MaxRecords = 4
  EventCaps = {1, 2}
  Starts = {0, 1, 2}
INVARIANTS
  AbsenceProven
CHECK_DEADLOCK FALSE
