CONSTANTS
  default = default
  kv = kv
  w1 = w1
  w2 = w2
  None = None
  Default = default
  Services <- TwoServices
  Watchers <- TwoWatchers
  Settable = {"SERVING", "NOT_SERVING"}
SPECIFICATION HealthFairSpec
INVARIANT ShutdownAllDown
INVARIANT NeverBlocks
INVARIANT NotStale
PROPERTY LatestDelivered
