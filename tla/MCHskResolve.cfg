CONSTANTS
  Bytes = {0, 1, 2, 6, 65}
  MaxLen = 3
  Tag <- MCTag
  DSFixed = 1
  Inet4Size = 1
  Inet6Size = 2
  MaxDigest = 1
  RecordCap = 255
  Encodings = {}
  MallocMayFail = FALSE
  Hosts = {"ns1."}
  NoHost = NoHost
  NoType = NoType
  AllocMayFail = FALSE

SPECIFICATION Spec

\* A decode that fails hands no resource to the responders: nothing follows.
CHECK_DEADLOCK FALSE

INVARIANT NsNameIsFqdn
