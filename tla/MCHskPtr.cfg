CONSTANTS
  IpLen = 6
  V4Len = 2
  Octets = {0, 1, 255}
  Garbage = {0, 35}
  Ptr32 = FALSE
  NDEBUG = FALSE

SPECIFICATION Spec

INVARIANTS
  TypeOK
  IpSizeIsLongestZeroRun
  Synth6RoundTrip

\* Every call returns; the codec keeps no state, so a behaviour ends after one.
CHECK_DEADLOCK FALSE
