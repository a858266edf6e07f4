SPECIFICATION FairSpec
CONSTANTS
  s1 = s1
  v1 = v1
  v2 = v2
  Snapshot = {s1}
  Volume = {v1, v2}
  Root = v1
  MaxChanges = 2
  MaxFaults = 2
  MaxDeletes = 1
  MaxRestores = 3
  MaxCrashes = 2
INVARIANT SnapshotInv
PROPERTIES CompleteIsWhole RecoveryIsWhole PendingSettles
CHECK_DEADLOCK FALSE
