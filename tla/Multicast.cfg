SPECIFICATION Spec
CONSTANTS
  a = a
  b = b
  c = c
  d = d
  Scenarios <- MCScenarios
  Answers = {"ok", "error", "lost"}
INVARIANTS
  GapsComeFromOverlap UnservedPonsExplained SuccessMeansMember SuccessMeansCreated
PROPERTY
  PassedOverForGood
