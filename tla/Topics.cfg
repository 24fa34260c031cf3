\* Three trees; names that the tree has, has in part and has not; two filters to a packet; lost clients.
SPECIFICATION Spec
CONSTANTS
    Letters = {"a", "b"}
    Setups <- MCSetups
    Names <- MCNames
    Ids <- MCIds
    MaxFilters = 2
    Room = 4
INVARIANTS
    TypeOK
    TreeSound
    KnownTopicResolves
    NothingInvented
    NameRoundTrip
    RemoteResolves
