SPECIFICATION Spec
CONSTANTS
  g1 = g1
  YearLength = 5
  NumYears = 3
  Interval = 2
  Sharded = TRUE
  Generators = {g1}
  Windows <- ManyWindows
  Arrivals = {8, 9, 10}
  MaxConnections = 2
  DatabasesFail = TRUE
INVARIANTS TypeOK YieldedInOrder CompleteWhenDone CoverageIsExact OpenIsCached
