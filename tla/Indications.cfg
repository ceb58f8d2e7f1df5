SPECIFICATION Spec
CONSTANTS
  InitialInterval = 500000
  MaxInterval = 60000000
  EnableAnswers = {"ok", "error", "nil"}
  MaxEofs = 10
INVARIANTS
  SleepFollowsOutage
