SPECIFICATION Spec
CONSTANTS
  InitialInterval = 500000
  MaxInterval = 60000000
  EnableAnswers = {"ok", "error"}
  MaxEofs = 1
INVARIANT
  ContinuesToRetry
