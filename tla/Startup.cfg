SPECIFICATION FairSpec
CONSTANTS
  Scenarios <- MCScenarios
  Answers = {"ok", "error", "lost"}
INVARIANTS
  StartupOrder  PanicsHaveACause
PROPERTY
  StopsUnlessHeldUp
