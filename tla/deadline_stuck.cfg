SPECIFICATION FairSpec
CONSTANTS
    MaxLinks = 1
    MaxSends = 4
    Acts = {a}
    PledgeAct = pledge
    Visitors = {v}
    QueueSize = 2
    PausedAfter = 2
    PledgeFits = TRUE
    Events = {"deadline"}
    MaxEvents = 1
CHECK_DEADLOCK FALSE
PROPERTY NoLinkHoldsUpTheRest
