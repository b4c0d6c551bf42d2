CONSTANTS
  pa = pa
  pb = pb
  k1 = k1
  Providers = {pa, pb}
  KeyIds = {k1}
  KeysOf <- MCSingleKeys
  FallbackChain <- MCChain
  PoolOrder <- MCPoolOrder
  Kinds = {"stream"}
  Requests = {r1, r2}
  Nobody = Nobody
  MaxEdits = 0
  MaxRetries = 2
  MaxKeys = 2
  ErrorThreshold = 2
  BackoffTicks = 1
  CounterPeriod = 2
  MaxUsage = 0
  KeyRotation = "round_robin"
  Threshold = 1
  Recovery = 1
  MaxFailures = 1
SPECIFICATION Spec
CHECK_DEADLOCK FALSE
INVARIANT StreamHasOneSource
