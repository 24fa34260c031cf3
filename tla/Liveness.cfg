\* Two peers that vanish, one payload buffer, time for the lease to run out.
SPECIFICATION FairSpec
CONSTANTS
    MaxClients = 2
    MaxSubs = 1
    MaxInflight = 1
    DefaultKeepalive = 1
    CounterWidth = 4
    TimeWidth = 100
    MaxTime = 1
    h1 = h1
    h2 = h2
    t1 = t1
    t2 = t2
    Handles = {h1, h2}
    Topics = {t1}
    Above <- MCAboveOne
    NULL = NULL
    PacketTypes = {"publish"}
    Keepalives = {0}
    FilterLists <- MCOneFilter
    Quirks = {"vanish"}
PROPERTIES
    PollReturns
    SilentEvicted
