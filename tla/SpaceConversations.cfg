SPECIFICATION FairSpec
CONSTANTS
  Post <- MCPost
  OldConvs <- MCOldConvs
  MaxId = 6
  MaxRequests = 3
  MaxChildren = 2
  MaxTimeouts = 1
  MaxVersions = 2
  MaxFaults = 1
INVARIANTS
  TypeOK
  MemoryIsJournal
  OneMainLine
  OneWriter
  NoStalePermission
  ReadersSeeWhatWasTold
  SentIsWaiting
  DyingIsTold
CHECK_DEADLOCK FALSE
PROPERTIES
  CommentsStay
  RequestsEnd
  DyingEnds
