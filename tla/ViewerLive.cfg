\* Two records after the header and a second file at the path: the client is cut off by
\* replacements, rejected cursors, over-limit and malformed records.
SPECIFICATION Spec
CONSTANTS
  Kinds = {"double", "bad", "huge", "hollow"}
  InitialRecords <- HeaderOnly
  MaxRecords = 3
  MaxGens = 2
  PageLimits = {1}
  MaxEvents = 3
  RetainFloor = 3
  DiscoveryLines = 2
  MayTimeOut = FALSE
PROPERTIES
  EventuallyCaughtUp
  ImplementsFeed
  ExhaustedMeansConsumed
