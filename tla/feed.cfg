SPECIFICATION Spec
CONSTANTS
    MaxLinks = 4
    PageSize = 2
    MaxCalls = 2
CHECK_DEADLOCK FALSE
INVARIANTS
    TypeOK
    NewestFirst
    NothingSkipped
    ButtonStays
