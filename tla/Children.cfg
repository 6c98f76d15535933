SPECIFICATION FairSpec
CONSTANTS
  Specs <- ThreeSpecs
  FirstSpec <- Routed
  Foundation <- TwoObjects
  Keys = {"lb", "team"}
  LegacyKeys = {"lb"}
  Modes = {"httproute", "ingress"}
  FirstMode = "ingress"
  Installed = {"networkpolicy", "service", "fleet", "scaler", "ingress", "httproute"}
  HTTPRouteRetries = TRUE
  Tampered = {"ingress"}
  Lagging = {"ingress"}
  None = None
  MaxUids = 2
  MaxEvents = 2
INVARIANTS CopiesInv OneRoute GuardedFleet
PROPERTIES ForeignUntouched Settles
CHECK_DEADLOCK FALSE
