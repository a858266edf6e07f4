SPECIFICATION LeaseFairSpec
CONSTANTS
  Client = {c1, c2}
  NoClient = NoClient
  MaxGeneration = 3
  MaxCrashed = 1
  MaxDuplicates = 1
INVARIANT GuardedOwnsObject
PROPERTIES LeaseImplementsTryLock LeaseClears
CHECK_DEADLOCK FALSE
