SPECIFICATION BoundedSpec
CONSTANTS
  h1 = h1
  h2 = h2
  p1 = p1
  b1 = b1
  b2 = b2
  Host = {h1, h2}
  Plan = {p1}
  Base = {b1, b2}
  HomeOf <- MCHomeOf
  NoOne = NoOne
  NoJob = NoJob
  MaxWal = 2
  Floor = 1
  MaxCrashes = 2
INVARIANT RecoveryInv
PROPERTIES ImplementsArchive OnlyRecoveredServed
CHECK_DEADLOCK FALSE
