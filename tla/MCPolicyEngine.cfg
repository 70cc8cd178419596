SPECIFICATION Spec
CONSTANTS
  MaxRetries = 3
  Cooldown = 3
  MaxRepetitions = 2
  MaxInterventions = 4
  MaxLinks = 2
  HighValue = 2
  MinExpectedValue = 2
  Requests <- MCRequests
INVARIANTS PolicyTypeOK AllowedExactlyWhenClear UnsafeIsBlocked
PROPERTIES RefusedStaysRefused
CHECK_DEADLOCK FALSE
