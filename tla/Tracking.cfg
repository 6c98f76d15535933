SPECIFICATION FairSpec
CONSTANTS
  Fleets = {f1, f2}
  Buckets = {b1, b2}
  FirstBucket = b1
  NoEntry = NoEntry
  CacheCap = 1
  Pins = {1}
  MaxPublications = 1
  MaxEdits = 1
  MaxRestarts = 1
INVARIANT CacheBounded
PROPERTIES OnlyOwnBucket 
