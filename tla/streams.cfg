SPECIFICATION HubSpec
CONSTANTS
    MaxLinks = 2
    MaxConnections = 3
    MaxStreams = 2
    StreamBuffer = 2
    MaxRestarts = 1
CHECK_DEADLOCK FALSE
VIEW ButForTheWire
INVARIANTS
    StreamIsCurrent
