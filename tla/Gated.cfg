SPECIFICATION Spec
CONSTANTS
  Specs <- ThreePods
  FirstSpec <- L
  NoTemplate = NoTemplate
  MaxReplicas = 3
  KedaInstalled = FALSE
  AppLags = FALSE
  PodsLag = FALSE
  EditAtRest = FALSE
  BadTemplates = {}
  FailuresHeal = TRUE
  MaxEdits = 2
  MaxDisruptions = 0
  MaxScalings = 0
  MaxAborts = 0
INVARIANTS ReleasedRunNewRevision WriteInv JumpsChecked
PROPERTIES EvictsOnlyWarm BreakingOnlyWhenEmpty NoLossyDowngrade
