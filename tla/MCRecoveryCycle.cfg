SYMMETRY Symmetry
SPECIFICATION Spec
CONSTANTS
  w1 = w1
  w2 = w2
  Worker = {w1, w2}
  Forecasts <- MCForecasts
  Amount = 20
  Recoveries = 0
  FirstAction = "RETRY"
  MaxConsecutive = 1
  MaxCalls = 3
  MaxCancels = 1
  MaxAttempts = 1
  HardCeiling = 2
  MaxRetries = 3
  Cooldown = 3
  MaxRepetitions = 2
  MaxInterventions = 4
  MaxLinks = 2
  HighValue = 30
  MinExpectedValue = 2
  Cost <- MCCost
  MinValue = 1
  Tolerance = 1
  RetryLimit = 3
  InterventionLimit = 5
  DecisionHighValue = 40
  MinOutreach = 10
INVARIANTS CycleTypeOK KeysDispatchedOnce OnlyFailuresLeadOn CyclesBounded RetriesEndInTime
PROPERTIES RecoveryEndsDispatch NoBlindRepetition
CHECK_DEADLOCK FALSE
