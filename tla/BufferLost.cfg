SPECIFICATION FairSpec
CONSTANTS
  Post <- MCPost
  OldConvs <- MCOldConvs
  MaxId = 5
  MaxRequests = 2
  MaxChildren = 1
  MaxTimeouts = 1
  MaxVersions = 1
  MaxFaults = 0
PROPERTIES
  BufferIsReplayed
CHECK_DEADLOCK FALSE
