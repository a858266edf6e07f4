SPECIFICATION Spec
CONSTANTS
  staging = staging
  production = production
  Env = {staging, production}
  Protected = {production}
  Source = staging
  Target = production
  Detached = Detached
  MaxCommit = 2
  MaxRuns = 2
  MaxFaults = 2
  MaxCrashes = 1
INVARIANT DeploymentInv
PROPERTIES DataKept RecordedRuns RollbackRestores
CHECK_DEADLOCK FALSE
