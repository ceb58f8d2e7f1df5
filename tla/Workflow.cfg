SPECIFICATION FairSpec
CONSTANTS
  a = a
  b = b
  c = c
  Scenarios <- MCScenarios
  NumPbits = 1
  Leftovers <- MCLeftovers
  Answers = {"ok", "error", "lost"}
INVARIANTS
  IndInv FlowIdsUnique SuccessMeansProvisioned StagesInOrder SymmetricFlowHeld ReasonTellsStage
PROPERTY
  EveryWorkflowEnds
