SPECIFICATION FairSpec
CONSTANTS
  Thread = {t1}
  Layer = {l1}
  Position = {0, 1, 2}
  MaxStores = 3
  Method = {"none"}
  Full = 256
  Stub = 3
  Limit = 512
  Floor = 1
  Policy = "window"
  Sinks = 1
  Keep = 2
  Free = free
PROPERTY StoreReturns
