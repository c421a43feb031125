SPECIFICATION FairSpec
CONSTANTS
  FailureThreshold = 2
  RatePercent = 50
  MinVolume = 3
  Cooldown = 1
  Decay = 2
  Window = 2
  MaxProbes = 2
  MaxFailures = 3
  MaxRecent = 3
  MaxDepth = 2
  MaxAge = 7
  Capacity = 3
  Rate = 1
  Period = 2
  Span = 2
  Cost = {1, 2}
  Horizon = 5
  MaxByHand = 1
  MaxThreadStarts = 2
  NLayers = 4
  RingDepth = 2
  BufferMax = 2
  MaxReadErrors = 1
  CachedLayer = {l1, l2, l3}
  ArenaSize = 3
INVARIANTS
  TypeOK
  StateIsEarned
  RateHolds
  LevelNeedsEvidence
  ReadOnce
  LoadsWhatWasStored
PROPERTIES
  OpenEnds
  LimiterServes
  CalmRecovers
  StoreFinishes
CHECK_DEADLOCK FALSE
