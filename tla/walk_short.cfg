SPECIFICATION ReadSpec
CONSTANTS
    MaxLinks = 2
    MaxSends = 5
    Acts = {a, b}
    PledgeAct = pledge
    Visitors = {v}
    QueueSize = 3
    PausedAfter = 2
    PledgeFits = TRUE
    Events = {"shutdown", "expire"}
    MaxEvents = 2
CHECK_DEADLOCK FALSE
INVARIANT CountedByAnyone
