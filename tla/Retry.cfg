SPECIFICATION Spec
CONSTANT maxRetry = 20
INVARIANTS
  ResultIsHonest
PROPERTY
  CallReturns
