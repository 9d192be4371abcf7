SPECIFICATION FairSpec
CONSTANTS
    MaxLinks = 1
    MaxConnections = 2
    MaxStreams = 1
    StreamBuffer = 1
    MaxRestarts = 1
CHECK_DEADLOCK FALSE
INVARIANTS
    TypeOK
    CatchesUp
PROPERTY ShutdownIsNotHeldUp
