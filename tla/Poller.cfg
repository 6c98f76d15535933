SPECIFICATION FairSpec
CONSTANTS
    MaxReplicas = 2
    Window = 1
    MaxTime = 1
    MaxEvents = 1
    None = None
INVARIANT ScalesOnCensus
PROPERTIES SweepIsAtomic SeriesVanish
CHECK_DEADLOCK FALSE
