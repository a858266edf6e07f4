SPECIFICATION Spec
CONSTANTS
  h1 = h1
  h2 = h2
  m1 = m1
  m2 = m2
  o1 = o1
  o2 = o2
  Host = {h1, h2}
  Migration = {m1, m2}
  Object = {o1, o2}
  Backend = {"object_mirror", "posix_object_mount", "odoo_module"}
  None = None
  MaxWrites = 1
  MaxCrashes = 1
SYMMETRY Interchangeable
INVARIANTS FilestoreInv ActiveComplete
PROPERTIES PublishedAgainstPlan RemovedIsStored
CHECK_DEADLOCK FALSE
