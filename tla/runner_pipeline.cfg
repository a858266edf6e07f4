SPECIFICATION Spec
CONSTANTS
  o1 = o1
  o2 = o2
  c1 = c1
  e1 = e1
  t1 = t1
  NoOp = NoOp
  NoOne = NoOne
  EnvOf <- MCEnvOf
  ApiOp = {o1, o2}
  CliOp = {c1}
  Runner = {r1, r2}
  Token = {t1}
  TokenOf <- MCSharedToken
  Cancellable = {o1}
  Ttl = 2
  Retention = 0
  MaxTime = 3
  MaxCrashes = 1
SYMMETRY RunnerSymmetry
INVARIANTS PipelineInv ExclusiveExecution ClaimHasOneOwner TokenRunsOnce AuditMatchesRecord
CHECK_DEADLOCK FALSE
