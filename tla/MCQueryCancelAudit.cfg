CONSTANTS
    Revisions = 1
    RowBytes <- ThreeRows
    MaxResultBytes = 8
    MaxAttempts = 2
SPECIFICATION Spec
CHECK_DEADLOCK FALSE
INVARIANT
    CancellationIsRecorded
