SPECIFICATION FairSpec
CONSTANTS
  Configs <- HostileConfigs
  OnusPerIteration = 1
  OnuIds <- ThreeIds
  LeftoverOnuIds <- TwoLeftovers
  ActivateAnswers = {"ok", "exists", "error"}
  KvCanFail = TRUE
  TpCanFail = TRUE
\* A refused activation leaves every goroutine of the job waiting or ended.
CHECK_DEADLOCK FALSE
INVARIANTS
  IndInv WaitGroupsExact JobDoneBeforeStop OneBatchAtATime OnuKeysUnique
PROPERTIES
  ResultsKept StopsUnlessActivationRefused ImplementsBatchedJob
