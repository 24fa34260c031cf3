\* A client expires inside a packet and the next one gets its slot.
SPECIFICATION Spec
CONSTANTS
    MaxClients = 1
    MaxSubs = 1
    MaxInflight = 1
    DefaultKeepalive = 2
    CounterWidth = 4
    TimeWidth = 100
    MaxTime = 3
    h1 = h1
    h2 = h2
    t1 = t1
    t2 = t2
    Handles = {h1}
    Topics = {t1}
    Above <- MCAboveOne
    NULL = NULL
    PacketTypes = {"publish"}
    Keepalives = {0}
    FilterLists <- MCOneFilter
    Quirks = {}
PROPERTIES
    NewIsFresh
