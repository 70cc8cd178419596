SPECIFICATION LiveSpec
CONSTANTS
  p1 = p1
  Payment = {p1}
  Event = {e1, e2}
  Delivery = {d1, d2, d3}
  Payload <- FewBodies
  MaxCrashes = 1
PROPERTIES SoundEventsAnswered
CHECK_DEADLOCK FALSE
