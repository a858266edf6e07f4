SPECIFICATION CutoverFairSpec
CONSTANTS
  Absent = Absent
  Incoming = Incoming
  Old = Old
  Alien = Alien
  MaxErrors = 4
INVARIANT CutoverInv
PROPERTIES OnlyReleasedDropped RetryConverges
CHECK_DEADLOCK FALSE
