SPECIFICATION FairSpec
CONSTANTS
    MaxLinks = 2
    MaxSends = 6
    Acts = {a, b}
    PledgeAct = pledge
    Visitors = {v, w}
    QueueSize = 3
    PausedAfter = 2
    PledgeFits = FALSE
    Events = {"crash", "shutdown", "outage", "answer", "expire"}
    MaxEvents = 3
CHECK_DEADLOCK FALSE
PROPERTY EveryLinkSettles
