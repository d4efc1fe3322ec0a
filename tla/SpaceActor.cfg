SPECIFICATION Spec
CONSTANTS
  Thing = {t1, p1}
  Publishable = {p1}
  Value = {v1, v2}
  Absent = absent
  Client = {c1, c2}
  Nobody = nobody
  SnapshotInterval = 0
  Patient = FALSE
  MaxRequests = 4
  MaxCrashes = 1
INVARIANTS TypeOK MemoryKeepsUp SnapshotsKeepUp 
SYMMETRY Symmetry
CHECK_DEADLOCK FALSE
