SPECIFICATION Spec
CONSTANTS
  Configs <- ManyConfigs
  OnusPerIteration = 4
  OnuIds = {}
  LeftoverOnuIds = {{}}
  ActivateAnswers = {"ok"}
  KvCanFail = FALSE
  TpCanFail = FALSE
INVARIANTS
  EvenDistribution AllAttemptedOnEvenPons PanicsExactlyOnManyBatches
