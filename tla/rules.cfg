SPECIFICATION Spec
CONSTANTS
    minActLength = 3
    maxActLength = 4
    maxByLength = 2
    MaxMemo = 9
    MaxDigits = 2
    MaxPrev = 3
    MaxRunes = 5
CHECK_DEADLOCK FALSE
INVARIANTS
    CleansAndComparesAsTold
    ChecksAgree
    NothingHidden
    FormKnowsTooShort
    WhatIsTakenFits
