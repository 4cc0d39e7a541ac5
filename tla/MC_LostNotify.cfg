CONSTANTS
    c1 = c1
    c2 = c2
    g1 = g1
    n1 = n1
    v1 = v1
    v2 = v2
    NoEntity = NoEntity
    Clients <- MCOneClient
    Groups <- MCGroups
    Names <- MCNames
    Vals <- MCVals
    EntityKinds <- MCEntityKinds
    Interest <- MCInterestAll
    MaxRev = 3
    MaxFaults = 1
    Reads = FALSE
SPECIFICATION Spec
INVARIANT
    HandlerViewConverges
