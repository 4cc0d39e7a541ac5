CONSTANTS
    Docs <- MCDocs
    IntVals <- MCIntVals
    Strs <- MCStrs
    StrArrays <- MCStrArrays
    IntArrays <- MCIntArrays
SPECIFICATION Spec
\* Each element id is written once, so the model stops when all are written.
CHECK_DEADLOCK FALSE
INVARIANT
    TypeOK
    RangeExact
