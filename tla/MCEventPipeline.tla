-------------------------- MODULE MCEventPipeline --------------------------
(***************************************************************************)
(* Instances of EventPipeline for TLC.                                     *)
(***************************************************************************)
EXTENDS EventPipeline, TLC

CONSTANTS p1

Body1(type, time, form) == [payment |-> p1, type |-> type, time |-> time, form |-> form]

\* Two captures and two failures that may come out of order, an authorisation
\* between them, and one body for each way a request is turned away.
BodiesInAnyOrder ==
  {Body1("payment.failed", t, "valid") : t \in {1, 2}}
  \cup {Body1("payment.captured", t, "valid") : t \in {1, 2}}
  \cup {Body1("payment.authorized", 2, "valid")}

RefusedBodies ==
  {Body1("payment.failed", 1, form) : form \in Form \ {"valid"}}
  \cup {Body1("other", 1, "valid")}

AllBodies == BodiesInAnyOrder \cup RefusedBodies

\* For liveness: a sound event, and one whose handler takes the row lock, fails
\* and is delivered again for ever.
FewBodies ==
  {Body1("payment.failed", 1, "valid"), Body1("payment.captured", 2, "valid"),
   Body1("payment.failed", 1, "bad_timestamp")}

\* The payment's status does not matter to who waits for whom: one known payment.
LiveInit == Init /\ payStatus = [p \in Payment |-> "FAILED"]
LiveSpec == LiveInit /\ [][Next]_vars /\ Fairness

Symmetry == Permutations(Delivery) \cup Permutations(Event)
=============================================================================
