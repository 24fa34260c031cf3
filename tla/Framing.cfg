\* Every stream, in any pieces, a busy pool and peers that close.
SPECIFICATION Spec
CONSTANTS
    Streams <- MCAll
    CounterWidth = 256
    PktRoom = 3
    SinkRoom = 6
    PoolBusy = TRUE
    MayClose = TRUE
INVARIANTS
    TypeOK
    Framing
    PayloadWhole
    ReadInv
CHECK_DEADLOCK FALSE
