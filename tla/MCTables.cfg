SPECIFICATION Spec
CONSTANTS
  Block = {b1, b2, b3, b4}
  TokensPerPage = 4
  Row = {r1, r2}
  MaxPages = 5
  MaxTokens = 2
  Short = Short
  Long = Long
  Other = Other
  Prompt <- MCPrompt
  Tenant = {t1, t2}
  MaxPrefixes = 2
  Budget = 3
  Model = {m1, m2, m3, m4}
  Size = {0, 1, 2}
  MaxModels = 3
  MaxMemory = 3
  MaxRestarts = 2
  MaxStarts = 2
  MaxSignals = 1
SYMMETRY Symmetry
INVARIANTS
  TypeOK
  BlocksConserved
  PrefixPagesLive
  TablesAgree
  ModelsAddUp
  WatchedWithinBudget
  StateIsTrue
PROPERTY
  IsPageStore
CHECK_DEADLOCK FALSE
