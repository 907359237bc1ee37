CONSTANTS
    Key = {k}
    Value = {v1, v2, v3}
    Deleted = Deleted
    MaxHeads = 4
    MaxBases = 3
SPECIFICATION LoopSpec
INVARIANTS
    LoopFindsOutcome
    OutcomeIsRight
CHECK_DEADLOCK FALSE
