---------------------- MODULE MCExecutionOrchestrator ----------------------
(***************************************************************************)
(* Instances of ExecutionOrchestrator for TLC: actions of one case.        *)
(***************************************************************************)
EXTENDS ExecutionOrchestrator, TLC

CONSTANTS c1, k1, k2, a1, a2, a3

\* Two actions that were given the same key, and one of another kind.
OneCase == [a \in Action |-> c1]
Keys == (a1 :> k1 @@ a2 :> k1 @@ a3 :> k2)
Kinds == (a1 :> "attempt" @@ a2 :> "attempt" @@ a3 :> "STOP")

\* A failed payment, which a webhook may authorise so that the gate refuses it; a
\* case fresh from its policy check or left by an earlier execution; and an action
\* that may not be approved yet.  The code treats the other statuses as these.
Representative ==
  /\ Init
  /\ payStatus[c1] = "FAILED"
  /\ caseStatus[c1] \in {"POLICY_CHECK", "EXECUTING"}
  /\ actionStatus[a1] = "APPROVED" /\ actionStatus[a3] = "APPROVED"
RepresentativeSpec == Representative /\ [][Next]_vars /\ Fairness
=============================================================================
