SPECIFICATION Spec
CONSTANTS
  Specs <- AcrossBoundary
  FirstSpec <- Old
  NoTemplate = NoTemplate
  MaxReplicas = 2
  KedaInstalled = FALSE
  AppLags = FALSE
  PodsLag = FALSE
  EditAtRest = TRUE
  BadTemplates = {}
  FailuresHeal = TRUE
  MaxEdits = 3
  MaxDisruptions = 1
  MaxScalings = 0
  MaxAborts = 1
INVARIANTS ReleasedRunNewRevision TypeOK NoMixedFleet
 
