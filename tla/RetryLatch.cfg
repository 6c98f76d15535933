SPECIFICATION FairSpec
CONSTANTS
  Specs <- JustRouted
  FirstSpec <- Routed
  Foundation <- TwoObjects
  Keys = {"lb", "team"}
  LegacyKeys = {"lb"}
  Modes = {"httproute"}
  FirstMode = "httproute"
  Installed = {"networkpolicy", "service", "fleet", "scaler", "ingress", "httproute"}
  HTTPRouteRetries = TRUE
  Tampered = {}
  Lagging = {"httproute"}
  None = None
  MaxUids = 1
  MaxEvents = 0
PROPERTIES RetriesRecover
