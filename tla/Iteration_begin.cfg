SPECIFICATION IterationSpec
CONSTANTS
    MaxFields = 3
INVARIANT RoundShowsField
CHECK_DEADLOCK FALSE
