SPECIFICATION FairSpec
CONSTANTS
  a = a
  b = b
  c = c
  Scenarios <- MCScenarios
  MaxRuns = 2
INVARIANTS
  IndInv DeployedIdsUnique ReadIsCurrent
PROPERTIES
  DeployedIdsStayTaken EveryInstanceEnds ImplementsIdAllocator
