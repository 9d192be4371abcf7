SPECIFICATION Spec
CONSTANTS
    MaxHeight = 6
    Validity = 3
    Lag = 2
CHECK_DEADLOCK FALSE
INVARIANTS
    Sound
    OkIsConfirmed
PROPERTIES
    ExpiredIsOver
    IsTheCallTaken
    Returns
