SPECIFICATION Spec
CONSTANTS
  Absent = Absent
  Checked = {mail}
  Unchecked = {queue}
  Credential = {oauth}
  Partial = Partial
  MaxRuns = 2
  MaxFailed = 0
  MaxLost = 0
  MaxCrashes = 1
PROPERTY DroppedOnlyWhenLive
CHECK_DEADLOCK FALSE
