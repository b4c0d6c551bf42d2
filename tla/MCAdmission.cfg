SPECIFICATION Spec
CONSTANTS
    Requests = {r1, r2}
    Addresses = {a1}
    Names = {n1}
    LockAt = 2
    LockTime = 2
    BanAt = 2
    BanTime = 2
    perIp = perIp
    overall = overall
    Chain <- MCChain
    Limit <- MCLimit
    Window = 2
    MaxStall = 1
INVARIANTS TypeOK FullCountLocks OvershootIsInFlight BanMatchesFailures
PROPERTY LockEnds
