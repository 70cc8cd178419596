------------------------- MODULE MCCaseTransitions -------------------------
(***************************************************************************)
(* Instances of CaseTransitions for TLC.                                   *)
(***************************************************************************)
EXTENDS CaseTransitions, TLC

CONSTANTS p1, e1, d1

Body1(type, time) == [payment |-> p1, type |-> type, time |-> time, form |-> "valid"]

\* A failure opens a case, a capture closes it.
FailureAndCapture == {Body1("payment.failed", 1), Body1("payment.captured", 2)}

\* The working statuses, and one terminal status a worker may ask for.
Lifecycle == (ActiveCase \ {"NEW"}) \cup {"RECOVERED", "STOPPED"}

Symmetry ==
  Permutations(Delivery \ {d1}) \cup Permutations(Event \ {e1}) \cup Permutations(Worker)

\* Two workers are about to approve and execute a case: the failure that opened
\* it was handled by d1, and it has been taken as far as its policy check.
Trail(path) ==
  [i \in 1 .. Len(path) |-> [from |-> IF i = 1 THEN NoCase ELSE path[i - 1], to |-> path[i]]]
UnderWay(path) ==
  /\ payload \in {b \in [Event -> Payload] : b[e1].type = "payment.failed"}
  /\ payStatus = [p \in Payment |-> "FAILED"]
  /\ rawEvents = {d1}
  /\ paymentEvents = {d1}
  /\ caseStatus = [d \in Delivery |-> IF d = d1 THEN path[Len(path)] ELSE NoCase]
  /\ audit = [d \in Delivery |-> IF d = d1 THEN Trail(path) ELSE <<>>]
  /\ pc = [d \in Delivery |-> IF d = d1 THEN "replied" ELSE "idle"]
  /\ eventOf = [d \in Delivery |-> IF d = d1 THEN e1 ELSE NoEvent]
  /\ work = [d \in Delivery |-> NoWork]
  /\ reply = [d \in Delivery |-> IF d = d1 THEN "NEW" ELSE "none"]
  /\ crashes = 0
  /\ job = [w \in Worker |-> NoJob]
  /\ transitions = 0

AtPolicyCheck ==
  UnderWay(<<"NEW", "DIAGNOSING", "EVALUATING", "DECISION_PENDING", "POLICY_CHECK">>)
UnderWaySpec == AtPolicyCheck /\ [][WorkersNext]_allVars
=============================================================================
