SPECIFICATION MCSpec
CONSTANTS
  Proc = {p1, p2}
  Key = {k1, k2}
  NoKey = NoKey
  Scan = {s1}
  Val = {a}
  Table = {"assets", "events", "findings"}
  Latest = 1
  MaxRows = 2
  MaxSessions = 3
  ScanRun = {r1, r2}
  ChildTable = {"assets"}
  Actor = {u1}
  NoActor = NoActor
  MaxAge = 0
  MinScansKeep = 1
  MaxTime = 2
  MaxFinding = 1
  MaxAudit = 4
SYMMETRY EvidenceSymmetry
CHECK_DEADLOCK FALSE
INVARIANTS StoreSealed RestoreKeepsSource ReviewTrailSound
PROPERTIES LifecyclePurgeSafe
