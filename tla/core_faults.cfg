SPECIFICATION Spec
CONSTANTS
    MaxLinks = 2
    MaxSends = 5
    Acts = {a, b}
    PledgeAct = pledge
    Visitors = {v, w}
    QueueSize = 2
    PausedAfter = 2
    PledgeFits = TRUE
    Events = {"crash", "shutdown", "hang", "store", "outage", "answer", "expire", "deadline", "day"}
    MaxEvents = 2
SYMMETRY Alike
CHECK_DEADLOCK FALSE
INVARIANTS
    TypeOK
    ConfirmedIsOnLedger
    PrevIsHead
    QueueSound
    IInv
PROPERTY KeepsItsPromise
