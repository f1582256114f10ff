SPECIFICATION Spec
CHECK_DEADLOCK FALSE
SYMMETRY CallerSymmetry
CONSTANTS
  Callers = {c1, c2}
  Columns = {a}
  Scenarios <- AllScenarios
  MaxCalls = 3
  MaxFailures = 1
  max_retries = 1
  cache_ttl = 1
  Latency = 1
INVARIANTS
  CatalogExact
  CacheExact
