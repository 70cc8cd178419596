SPECIFICATION Spec
CONSTANTS
  p1 = p1
  Payment = {p1}
  Event = {e1, e2, e3}
  Delivery = {d1, d2, d3}
  Payload <- AllBodies
  MaxCrashes = 1
SYMMETRY Symmetry
INVARIANTS TypeOK OneActiveCase RecoveryTracksPayment EventRecordedOnce AcknowledgedIsRecorded LatestEventWins AuditExplainsCase
PROPERTIES CapturedIsFinal ImplementsLedger
CHECK_DEADLOCK FALSE
