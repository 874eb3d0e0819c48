CONSTANTS
    Models <- TwoRevisions
    DefaultLimit = 2
    MaxLimit = 3
    HashLength = 71
    MaxCursor = 128
    MaxLine = 2
    Inputs <- ShortInputs
    RequestOf <- ByteRequests
    Requests <- HttpRequests
    Principals <- ThreePrincipals
SPECIFICATION Spec
INVARIANT CursorsFitSchema
CHECK_DEADLOCK FALSE
