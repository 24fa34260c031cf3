\* A port with and without topics and keepalive, a clock that wraps, a remote that does what it likes.
SPECIFICATION FairSpec
CONSTANTS
    TopicCounts = {0, 1}
    Keepalives = {0, 1}
    ConnectTimeout = 2
    SubscribeTimeout = 1
    RetryAfter = 1
    TimeWidth = 6
    StartTimes = {4}
    MaxInflight = 1
    MaxReceivers = 2
    MaxPublishes = 2
    MaxWire = 2
    NULL = NULL
INVARIANTS
    TypeOK
    Subscribed
    DeliveredInOrder
    PortBuffer
PROPERTIES
    ErrorJustified
    SilenceBounded
    Settles
CHECK_DEADLOCK FALSE
