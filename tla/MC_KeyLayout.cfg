CONSTANTS
    GroupNames <- MCPlainGroups
    EntityNames <- MCPlainNames
    EntityKinds <- MCKinds
SPECIFICATION Spec
INVARIANT
    ListGroupExact
    ListEntityExact
PROPERTIES
    UpdateKeepsOthers
    DeleteGroupExact
