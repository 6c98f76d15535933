SPECIFICATION Spec
CONSTANTS
  Specs <- AcrossBoundary
  FirstSpec <- Old
  NoTemplate = NoTemplate
  MaxReplicas = 2
  KedaInstalled = FALSE
  AppLags = FALSE
  PodsLag = FALSE
  EditAtRest = FALSE
  BadTemplates = {}
  FailuresHeal = TRUE
  MaxEdits = 2
  MaxDisruptions = 0
  MaxScalings = 0
  MaxAborts = 0
INVARIANTS NoMixedFleet
