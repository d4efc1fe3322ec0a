SPECIFICATION Spec
CONSTANTS
  Node = {n1, n2}
  LastShard = 7
  NoShard = none
  SnapshotInterval = 2
  MaxMishaps = 2
INVARIANTS TypeOK OnlyTheDisownedShare OwnershipIsOnRecord RecoveryIsConservative
PROPERTY AskingIsAnswered
CHECK_DEADLOCK FALSE
