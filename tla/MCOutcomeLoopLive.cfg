SPECIFICATION MixedSpec
CONSTANTS
  w1 = w1
  w2 = w2
  p1 = p1
  p2 = p2
  e1 = e1
  e2 = e2
  e3 = e3
  e4 = e4
  Worker = {w1, w2}
  Process = {p1, p2}
  Evidence = {e1, e2, e3, e4}
  FactsOf <- Oddities
  MaxAttempts = 2
  HardCeiling = 3
  MaxExecutions = 2
  MaxCalls = 2
  MaxFailures = 1
PROPERTIES CaseMovesWithItsOutcome CallsEnd
CHECK_DEADLOCK FALSE
