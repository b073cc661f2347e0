CONSTANTS
  Hosts = {"ns1.alice."}
  NoHost = NoHost
  NoType = NoType
  MaxRecords = 2
  AllocMayFail = FALSE
  Resources <- MCResources

SPECIFICATION Spec

INVARIANTS
  TypeOK
  ReferralNotAuthoritative
  SignedSections
