SPECIFICATION Spec
CONSTANTS
  Thread = {t1, t2}
  Layer = {l1}
  Position = {0, 1}
  MaxStores = 2
  Method = {"none"}
  Full = 256
  Stub = 3
  Limit = 512
  Floor = 1
  Policy = "any"
  Sinks = 0
  Keep = 0
  Free = free
INVARIANT ServedIsNewest
