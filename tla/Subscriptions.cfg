\* Two clients that subscribe, unsubscribe, publish and leave; two topics, one buffer, no clock.
SPECIFICATION DeliverySpec
CONSTANTS
    MaxClients = 2
    MaxSubs = 2
    MaxInflight = 1
    DefaultKeepalive = 2
    CounterWidth = 4
    TimeWidth = 100
    MaxTime = 0
    h1 = h1
    h2 = h2
    t1 = t1
    t2 = t2
    Handles = {h1, h2}
    Topics = {t1, t2}
    Above <- MCAboveTwo
    NULL = NULL
    PacketTypes = {"connect", "publish", "subscribe", "unsubscribe", "disconnect"}
    Keepalives = {0}
    FilterLists <- MCKnownFilters
    Quirks = {}
SYMMETRY MCSymmetry
INVARIANTS
    RoutesMatchGrants
    NumSubsExact
    PoolNotLeaked
    AckSlotFree
PROPERTIES
    DeliversAsPromised
