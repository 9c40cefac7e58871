\* Files of up to five bytes, a buffer of two, caps that make one- to
\* three-byte lines oversize or not.
SPECIFICATION Spec
CONSTANTS
  MaxSize = 5
  BufCapacity = 2
  CapRequests = {0, 2}
INVARIANTS
  TypeOK
  CheckpointSafe
  ReadOnce
PROPERTIES
  ImplementsLineScan
  ScanEnds
CHECK_DEADLOCK FALSE
