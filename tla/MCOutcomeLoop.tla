--------------------------- MODULE MCOutcomeLoop ---------------------------
(***************************************************************************)
(* Instances of OutcomeLoop for TLC.                                       *)
(***************************************************************************)
EXTENDS OutcomeLoop, TLC

CONSTANTS w1, w2, p1, p2, e1, e2, e3, e4

Said(type, payment, raw, execution, linked, cycle) ==
  [type |-> type, payment |-> payment, raw |-> raw, execution |-> execution,
   linked |-> linked, cycle |-> cycle]

\* Three reports that the attempt failed, and a capture.
Failed == Said("PAYMENT_EVENT", "FAILED", "none", "none", TRUE, 1)
Attempts ==
  e1 :> Failed @@ e2 :> Failed @@ e3 :> Failed
  @@ e4 :> Said("PAYMENT_EVENT", "CAPTURED", "none", "none", TRUE, 1)
Symmetry == Permutations({e1, e2, e3}) \cup Permutations(Worker) \cup Permutations(Process)

\* A failure, a capture, a capture that names no execution, and a cycle that is too high.
Oddities ==
  e1 :> Said("EXECUTION_RESULT", "none", "none", "FAILED", TRUE, 1)
  @@ e2 :> Said("OTHER", "none", "failed", "none", TRUE, 4)
  @@ e3 :> Said("PAYMENT_EVENT", "CAPTURED", "none", "none", TRUE, 1)
  @@ e4 :> Said("PAYMENT_EVENT", "CAPTURED", "none", "none", FALSE, 1)

\* Two processes, or one, that have the audit service.
LoopInit ==
  /\ Init
  /\ payRow = "FAILED"
  /\ caseRow.status = "EXECUTING"
  /\ home \in {w1 :> p1 @@ w2 :> p2, w1 :> p1 @@ w2 :> p1}
  /\ audited = Process
LoopSpec == LoopInit /\ [][Next]_vars /\ Fairness

\* And two of which only one may have it.
MixedInit ==
  /\ Init
  /\ payRow = "FAILED"
  /\ caseRow.status = "EXECUTING"
  /\ home \in {w1 :> p1 @@ w2 :> p2, w1 :> p1 @@ w2 :> p1}
  /\ p2 \notin audited
MixedSpec == MixedInit /\ [][Next]_vars /\ Fairness
=============================================================================
