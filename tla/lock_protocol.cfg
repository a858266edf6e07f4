SPECIFICATION FairSpec
CONSTANTS
  Actor = {a1, a2, a3}
  Pid = {p1, p2}
  NoActor = NoActor
  NoPid = NoPid
  Empty = Empty
  MaxNest = 1
  MaxCrashes = 1
INVARIANTS ExclusiveUnlessRaced HolderOwnsFile
PROPERTIES OnlyOwnerRemoves ImplementsTryLock AttemptEnds
CHECK_DEADLOCK FALSE
