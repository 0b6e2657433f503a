SPECIFICATION Spec
CONSTANTS
  s1 = s1
  s2 = s2
  m1 = m1
  m2 = m2
  Id = {1, 2, 3}
  Entry <- MCEntry
  NoModel = noModel
  Priced <- MCPriced
  DayLength = 2
  Window = 1
  Retention = 1
  BatchSize = 1
  DefaultLimit = 1
  MaxLimit = 2
  Filters <- MCFilters
  Limits = {0, 2}
  MaxTime = 2
  MaxFaults = 1
INVARIANTS PagesComplete AnalyticsBracketed
PROPERTIES OnlyExpiredPruned ExpiredPruned
CHECK_DEADLOCK FALSE
