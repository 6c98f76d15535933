SPECIFICATION FairSpec
CONSTANTS
  Specs <- SomeBroken
  FirstSpec <- X
  NoTemplate = NoTemplate
  MaxReplicas = 2
  KedaInstalled = TRUE
  AppLags = FALSE
  PodsLag = FALSE
  EditAtRest = FALSE
  BadTemplates <- Broken
  FailuresHeal = TRUE
  MaxEdits = 2
  MaxDisruptions = 0
  MaxScalings = 1
  MaxAborts = 0
PROPERTIES KeepsScale RolloutCompletes FollowsProtocol
