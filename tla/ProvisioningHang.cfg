SPECIFICATION FairSpec
CONSTANTS
  Configs <- OneOnu
  OnusPerIteration = 4
  OnuIds <- ThreeIds
  LeftoverOnuIds = {{}}
  ActivateAnswers = {"ok", "error"}
  KvCanFail = FALSE
  TpCanFail = FALSE
CHECK_DEADLOCK FALSE
PROPERTY ProcessStops
