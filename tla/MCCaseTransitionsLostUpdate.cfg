SPECIFICATION UnderWaySpec
CONSTANTS
  p1 = p1
  e1 = e1
  d1 = d1
  Payment = {p1}
  Event = {e1, e2, e3}
  Delivery = {d1, d2, d3}
  Worker = {w1, w2}
  Payload <- FailureAndCapture
  Asked <- Lifecycle
  MaxCrashes = 0
  MaxTransitions = 4
SYMMETRY Symmetry
INVARIANT OneActiveCase
CHECK_DEADLOCK FALSE
