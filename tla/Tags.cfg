SPECIFICATION Spec
CONSTANTS
  Scenarios <- MCScenarios
  SerialsDrawn <- MCSerialsDrawn
INVARIANTS
  TagPairsUnique DtStagsUnique FittingPortsUnique NamesUnique
