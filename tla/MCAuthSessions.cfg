SPECIFICATION Spec
CONSTANTS
    Users = {u1}
    Requests = {r1, r2}
    Pairs = {p1, p2}
    Nobody = Nobody
    NoPair = NoPair
    MaxSessions = 1
    Life = 2
    Slack = 0
SYMMETRY Symmetry
INVARIANTS TypeOK LiveIsListed
PROPERTIES RejectedStaysRejected OldestFirst ChangeEndsOldSessions
