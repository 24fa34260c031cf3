\* A SUBSCRIBE with two filters, both of topics the broker has.
SPECIFICATION Spec
CONSTANTS
    Letters = {"a", "b"}
    Setups <- MCTestSetups
    Names <- MCNames
    Ids <- MCIds
    MaxFilters = 2
    Room = 4
INVARIANTS
    ExistingNotRefused
