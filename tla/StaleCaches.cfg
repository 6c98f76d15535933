SPECIFICATION Spec
CONSTANTS
  Specs <- TwoConfigs
  FirstSpec <- A
  NoTemplate = NoTemplate
  MaxReplicas = 2
  KedaInstalled = FALSE
  AppLags = TRUE
  PodsLag = TRUE
  EditAtRest = FALSE
  BadTemplates = {}
  FailuresHeal = TRUE
  MaxEdits = 1
  MaxDisruptions = 0
  MaxScalings = 0
  MaxAborts = 0
INVARIANTS ReleasedRunNewRevision
PROPERTIES  EvictsOnlyWarm
