CONSTANTS
  MaxInt = 8
  AllocBlockSize = 2
  AllocSnapshotInterval = 2
  ShardFullBufferSize = 2
  BlockRequests = {1, 2}
  MaxAllocs = 4
SPECIFICATION Spec
INVARIANTS
  TypeOK
  ReservedBeforeGiven
  SnapshotsMatchJournal
  LastIntNeverGiven
PROPERTY
  OnlyFreshOIDsUsed
