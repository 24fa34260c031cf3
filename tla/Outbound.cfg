\* Two clients and a remote; sockets that block or fail; payloads of one chunk, of more and of none.
SPECIFICATION FairSpec
CONSTANTS
    MaxClients = 2
    Remote <- MCRemote
    CounterWidth = 4
    ChunkSize = 2
    PayloadLens = {0, 2, 3}
    Refusals <- MCRefusals
    MaxOps = 3
    NULL = NULL
INVARIANTS
    TypeOK
    StreamWhole
    AckResumes
    RefsBalanced
    NeverShort
PROPERTIES
    FanOutReturns
