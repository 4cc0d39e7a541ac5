CONSTANTS
    GroupNames <- MCPlainGroups
    EntityNames <- MCMetaName
    EntityKinds <- MCStream
SPECIFICATION Spec
INVARIANT
    ListGroupExact
