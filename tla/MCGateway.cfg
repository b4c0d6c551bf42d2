SPECIFICATION Spec
CONSTANTS
    Requests = {r1, r2}
    Quota = 1
    Slots = 1
    CacheTtl = 1
    RemoveDelay = 1
    StaleAge = 2
INVARIANTS TypeOK QuotaOvershootIsInFlight 
PROPERTY QueuedIsServed
