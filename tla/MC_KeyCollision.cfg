CONSTANTS
    GroupNames <- MCStreamsGroups
    EntityNames <- MCMetaName
    EntityKinds <- MCStream
SPECIFICATION Spec
PROPERTIES
    UpdateKeepsOthers
