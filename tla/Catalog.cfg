\* Small trees under two roots, each bound within reach, one change of the tree at any moment.
SPECIFICATION Spec
CONSTANTS
  Order <- Names
  Trees <- Forest
  Requests <- Commands
  Arrivals <- NewNodes
  NoFile <- None
  MaxChanges = 1
  MaxDepth = 1
  MaxEntries = 3
  MaxBytes = 2
  MaxFileBytes = 2
INVARIANTS
  TypeOK
  ListingComplete
  ResolutionExact
  BoundsHeld
CHECK_DEADLOCK FALSE
