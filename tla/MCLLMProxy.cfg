CONSTANTS
  pa = pa
  pb = pb
  k1 = k1
  Providers = {pa, pb}
  KeyIds = {k1}
  KeysOf <- MCKeysOf
  FallbackChain <- MCChain
  PoolOrder <- MCPoolOrder
  Kinds = {"chat", "stream", "embed", "models"}
  Requests = {r1, r2}
  Nobody = Nobody
  MaxEdits = 1
  MaxRetries = 2
  MaxKeys = 2
  ErrorThreshold = 2
  BackoffTicks = 1
  CounterPeriod = 2
  MaxUsage = 0
  KeyRotation = "random"
  Threshold = 2
  Recovery = 1
  MaxFailures = 2
SPECIFICATION Spec
CHECK_DEADLOCK FALSE
INVARIANTS
  TypeOK
  BreakerCountsKeyErrors
PROPERTIES
  KeepsContract
  OpenBreakerSheds
  EveryRequestSettles
