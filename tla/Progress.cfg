\* Well-formed streams whose bytes all arrive, a buffer at hand.
SPECIFICATION FairSpec
CONSTANTS
    Streams <- MCGood
    CounterWidth = 256
    PktRoom = 3
    SinkRoom = 6
    PoolBusy = FALSE
    MayClose = FALSE
PROPERTIES
    AllHandled
CHECK_DEADLOCK FALSE
