SPECIFICATION FairSpec
CONSTANTS
  Specs <- AskRecreate
  FirstSpec <- A
  NoTemplate = NoTemplate
  MaxReplicas = 2
  KedaInstalled = FALSE
  AppLags = FALSE
  PodsLag = FALSE
  EditAtRest = FALSE
  BadTemplates = {}
  FailuresHeal = FALSE
  MaxEdits = 2
  MaxDisruptions = 1
  MaxScalings = 0
  MaxAborts = 0
PROPERTIES RecreateUnblocks
