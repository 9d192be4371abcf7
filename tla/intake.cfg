SPECIFICATION Spec
CONSTANTS
    Requests = {r1, r2}
    Addresses = {ip1, ip2}
    Acts = {a1}
    Seeds = {s1, s2, s3, s4}
    PerHour = 1
    PerMinute = 2
    Hour = 2
    Minute = 1
    TTL = 1
    MaxTime = 2
    MaxRestarts = 1
SYMMETRY Alike
CHECK_DEADLOCK FALSE
INVARIANTS
    TypeOK
    OneLinkPerSeal
    SealsLast
    ChargedExactly
    OvershootIsBounded
