CONSTANTS
  k1 = k1
  k2 = k2
  k3 = k3
  KeyIds = {k1, k2, k3}
  FirstLoad <- MCFirstLoad
  SecondLoad <- MCSecondLoad
  Requests = {r1, r2}
  Idle = Idle
  MaxKeys = 3
  MaxRemovals = 1
  ErrorThreshold = 1
  BackoffTicks = 2
  CounterPeriod = 6
  MaxUsage = 1
SPECIFICATION Spec
SYMMETRY MCSymmetry
INVARIANTS
  TypeOK
  ReportsReachTheirKey
  BackedOffEntryRests
PROPERTIES
  RetiredStaysRetired
  RoundRobinTakesTurns
