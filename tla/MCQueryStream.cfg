CONSTANTS
    Revisions = 2
    RowBytes <- ThreeRows
    MaxResultBytes = 8
    MaxAttempts = 3
SPECIFICATION FairSpec
CHECK_DEADLOCK FALSE
INVARIANTS
    StreamInv
    NoMissedCancellation
    SourceIsGuarded
    SuccessIsAudited
    RowsAreClosed
    TruncationIsExact
PROPERTIES
    StreamEnds
    CancelledWorkEnds
