SPECIFICATION RepresentativeSpec
CONSTANTS
  c1 = c1
  k1 = k1
  k2 = k2
  a1 = a1
  a2 = a2
  a3 = a3
  Case = {c1}
  Action = {a1, a2, a3}
  Key = {k1, k2}
  Worker = {w1, w2}
  CaseOf <- OneCase
  KeyOf <- Keys
  KindOf <- Kinds
  MaxCalls = 3
  MaxCrashes = 1
INVARIANTS ExecutionTypeOK OneSurvivingDispatch ExecutionsEnd ActionsFollowExecutions CasesMoveForAReason AnswersAreOnRecord
PROPERTIES CallsEnd ImplementsExecutions
CHECK_DEADLOCK FALSE
