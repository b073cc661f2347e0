CONSTANTS
  Bytes = {0, 1, 2, 3, 4, 5, 6, 7, 65}
  MaxLen = 5
  Tag <- MCTag
  DSFixed = 1
  Inet4Size = 1
  Inet6Size = 2
  MaxDigest = 1
  RecordCap = 255
  Encodings <- MCEncodings
  MallocMayFail = TRUE

SPECIFICATION Spec

\* hsk_resource_decode returns or crashes: the terminal states are its exits.
CHECK_DEADLOCK FALSE

INVARIANTS
  TypeOK
  WellFormedRoundTrip

PROPERTY
  LoopEnds

