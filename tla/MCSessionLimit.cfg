SPECIFICATION Spec
CONSTANTS
    Users = {u1}
    Requests = {r1}
    Pairs = {p1, p2, p3}
    Nobody = Nobody
    NoPair = NoPair
    MaxSessions = 1
    Life = 2
    Slack = 1
SYMMETRY Symmetry
INVARIANT SessionLimit
CHECK_DEADLOCK FALSE
