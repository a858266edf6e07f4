SPECIFICATION Spec
CONSTANTS
  Absent = Absent
  Checked = {mail}
  Unchecked = {queue}
  Credential = {oauth}
  Partial = Partial
  MaxRuns = 2
  MaxFailed = 2
  MaxLost = 1
  MaxCrashes = 1
INVARIANTS RestoreInv TargetKept
PROPERTY OriginalKept
CHECK_DEADLOCK FALSE
