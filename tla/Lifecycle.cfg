\* Two slots, two handles: clients come, publish, leave, vanish and expire, with leases of 1 and 3.
SPECIFICATION Spec
CONSTANTS
    MaxClients = 2
    MaxSubs = 1
    MaxInflight = 1
    DefaultKeepalive = 1
    CounterWidth = 4
    TimeWidth = 100
    MaxTime = 2
    h1 = h1
    h2 = h2
    t1 = t1
    t2 = t2
    Handles = {h1, h2}
    Topics = {t1}
    Above <- MCAboveOne
    NULL = NULL
    PacketTypes = {"connect", "publish", "disconnect"}
    Keepalives = {2}
    FilterLists <- MCOneFilter
    Quirks = {"vanish"}
SYMMETRY MCSymmetry
INVARIANTS
    TypeOK
    HandlesOwned
    RegisteredExact
    BufferOwnership
    NoCrash
    PollLeavesNoExpired
    TimeInv
PROPERTIES
    EvictionJustified
