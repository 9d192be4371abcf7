SPECIFICATION ReadSpec
CONSTANTS
    MaxLinks = 3
    MaxSends = 6
    Acts = {a}
    PledgeAct = pledge
    Visitors = {v, w}
    QueueSize = 1
    PausedAfter = 2
    PledgeFits = TRUE
    Events = {"shutdown", "expire", "day"}
    MaxEvents = 2
SYMMETRY Alike
CHECK_DEADLOCK FALSE
INVARIANTS
    RepeatsAreSimultaneous
    OneMemoPerLink
    FailedNotOnChain
    StatsCurrent
    WalkIsClean
    WalkFindsWhatIsCounted
    VerifyNeverDiffers
