SPECIFICATION FairSpec
CONSTANTS
  Thread = {t1}
  Layer = {l1, l2}
  Position = {0, 1, 2}
  MaxStores = 3
  Method = {"none", "int8", "int4"}
  Full = 256
  Stub = 3
  Limit = 512
  Floor = 1
  Policy = "any"
  Sinks = 0
  Keep = 0
  Free = free
INVARIANTS
  TypeOK
  NewestIsKept
  MemoryBounded
  ServedIsNewest
PROPERTY
  StoreReturns
