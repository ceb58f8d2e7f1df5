SPECIFICATION Spec
CONSTANTS
  a = a
  b = b
  c = c
  Scenarios <- MCSharedScenarios
  MaxRuns = 1
INVARIANTS
  DeployedIdsUnique
