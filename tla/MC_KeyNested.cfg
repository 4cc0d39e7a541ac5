CONSTANTS
    GroupNames <- MCNestedGroups
    EntityNames <- MCPlainNames
    EntityKinds <- MCStream
SPECIFICATION Spec
PROPERTIES
    DeleteGroupExact
