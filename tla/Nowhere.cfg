SPECIFICATION Spec
CONSTANTS
  Fleets = {f1}
  Buckets = {b1, b2}
  FirstBucket = b1
  NoEntry = NoEntry
  CacheCap = 1
  Pins = {1}
  MaxPublications = 2
  MaxEdits = 1
  MaxRestarts = 1
PROPERTY NeverToNowhere
