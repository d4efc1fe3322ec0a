SPECIFICATION Spec
CONSTANTS
  Thing = {t1, t2}
  Publishable = {}
  Value = {v1, v2}
  Absent = absent
  Client = {c1, c2}
  Nobody = nobody
  SnapshotInterval = 0
  Patient = TRUE
  MaxRequests = 5
  MaxCrashes = 0
INVARIANT MemoryIsHistory
CHECK_DEADLOCK FALSE
