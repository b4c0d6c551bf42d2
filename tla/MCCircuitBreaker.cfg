CONSTANTS
  Providers = {p1, p2}
  Indexes = {1}
  Requests = {r1, r2, r3}
  Idle = Idle
  Threshold = 2
  Recovery = 2
  MaxFailures = 3
SPECIFICATION Spec
INVARIANTS
  TypeOK
  QuietBeforeProbe
PROPERTIES
  ChangesAreEarned
  OutageIsProbed
