SPECIFICATION PowerSpec
CONSTANTS
    MaxLinks = 3
    MaxSends = 6
    MaxLost = 1
    Acts = {a, b}
    PledgeAct = pledge
    Visitors = {v}
    QueueSize = 4
    PausedAfter = 2
    PledgeFits = TRUE
    Events = {"crash", "answer", "expire", "day"}
    MaxEvents = 2
CHECK_DEADLOCK FALSE
INVARIANTS
    ConfirmedIsOnLedger
    EachPointsAtTheOneBefore
    NothingStranded
