CONSTANTS
  Cap = 8
  MagnetFixed = 2
  Resources <- MCResources
  AllocMayFail = TRUE
SPECIFICATION Spec
\* The builder returns: its final state has no successor.
CHECK_DEADLOCK FALSE
INVARIANTS
  TypeOK
  UriOutput
