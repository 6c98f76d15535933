SPECIFICATION Spec
CONSTANTS
  Specs <- Autoscaled
  FirstSpec <- X
  NoTemplate = NoTemplate
  MaxReplicas = 2
  KedaInstalled = TRUE
  AppLags = FALSE
  PodsLag = FALSE
  EditAtRest = FALSE
  BadTemplates = {}
  FailuresHeal = TRUE
  MaxEdits = 2
  MaxDisruptions = 0
  MaxScalings = 0
  MaxAborts = 0
INVARIANTS PausedDuringRollout
