\* Everything peers and the network may do, and a clock that wraps around.
SPECIFICATION Spec
CONSTANTS
    MaxClients = 1
    MaxSubs = 1
    MaxInflight = 1
    DefaultKeepalive = 1
    CounterWidth = 4
    TimeWidth = 3
    MaxTime = 3
    h1 = h1
    h2 = h2
    t1 = t1
    t2 = t2
    Handles = {h1}
    Topics = {t1}
    Above <- MCAboveOne
    NULL = NULL
    PacketTypes = {"connect", "publish", "subscribe", "unsubscribe", "ping", "disconnect", "other"}
    Keepalives = {1}
    FilterLists <- MCUnknownFilters
    Quirks = {"vanish", "blocked", "split", "empty", "oversize", "credentials"}
INVARIANTS
    IInv
CHECK_DEADLOCK FALSE
