---------------------------- MODULE OutcomeRules ----------------------------
(***************************************************************************)
(* What is concluded from one piece of evidence: the classification of     *)
(* recovery_loop/outcomes.py, the dispositions of dispositions.py, the     *)
(* bounds of guards.py, and the moves of case and payment that follow.     *)
(***************************************************************************)
EXTENDS AproDomain, Naturals

CONSTANTS
  MaxAttempts,              \* max_attempts and max_interventions
  HardCeiling               \* hard_cycle_ceiling

ASSUME BoundAssumption == {MaxAttempts, HardCeiling} \subseteq Nat

EvidenceType == {"PAYMENT_EVENT", "EXECUTION_RESULT", "OTHER"}
OutcomeOfRaw == [expired |-> "EXPIRED", failed |-> "FAILED", escalated |-> "ESCALATED"]
OutcomeWithoutUnknown ==
  [SUCCEEDED |-> "PENDING", UNKNOWN |-> "FAILED", FAILED |-> "FAILED",
   CANCELLED |-> "STOPPED"]
OutcomeOfExecution ==
  [SUCCEEDED |-> "PENDING", UNKNOWN |-> "PENDING", FAILED |-> "FAILED",
   CANCELLED |-> "STOPPED"]

\* raw: the provider's own status, by what it is taken for; execution: the status
\* of the execution passed along; linked: the outcome's execution is in executions.
Facts == [type : EvidenceType, payment : PaymentStatus \cup {"none"},
          raw : DOMAIN OutcomeOfRaw \cup {"recovered", "none"},
          execution : DOMAIN OutcomeOfExecution \cup {"none"},
          linked : BOOLEAN, cycle : Nat]

OutcomeType == {"RECOVERED", "PENDING", "STOPPED", "ESCALATED", "EXPIRED", "FAILED"}
Nothing == "nothing"
Disposition == {"COMPLETE", "WAIT_FOR_OUTCOME", "STOP", "ESCALATE", "RE_EVALUATE"}

-----------------------------------------------------------------------------
\* _classify_outcome: a capture that is proved outranks every other status.
Classify(f, payment) ==
  IF "CAPTURED" \in {payment, f.payment} \/ f.raw = "recovered" THEN "RECOVERED"
  ELSE IF f.raw # "none" THEN OutcomeOfRaw[f.raw]
  ELSE IF f.type = "EXECUTION_RESULT" /\ f.execution # "none"
         THEN OutcomeOfExecution[f.execution]
  ELSE IF f.type = "PAYMENT_EVENT" /\ f.payment = "FAILED" THEN "FAILED"
  ELSE "PENDING"

\* evaluate_loop_bounds, of a payment that is not captured: what becomes of a
\* failed attempt.  All attempts here are interventions, so one limit stands for
\* the attempt and the intervention limit.
AfterFailureOffByOne(case, attempts) ==
  IF case.status = "ESCALATED" THEN "ESCALATE"
  ELSE IF \/ case.status \in TerminalCase
          \/ attempts > MaxAttempts
          \/ case.attempts > MaxAttempts THEN "STOP"
  ELSE "RE_EVALUATE"
AfterFailure(case, attempts) ==
  IF case.status = "ESCALATED" THEN "ESCALATE"
  ELSE IF \/ case.status \in TerminalCase
          \/ attempts >= MaxAttempts
          \/ case.attempts >= MaxAttempts THEN "STOP"
  ELSE "RE_EVALUATE"

\* DispositionResolver.resolve; UnboundedLoopError is Raises.
Raises == "raises"
Resolve(outcome, case, payment, cycle, attempts) ==
  IF "RECOVERED" = outcome \/ payment = "CAPTURED" THEN "COMPLETE"
  ELSE IF outcome = "FAILED"
         THEN IF cycle > HardCeiling THEN Raises ELSE AfterFailure(case, attempts)
  ELSE [PENDING |-> "WAIT_FOR_OUTCOME", STOPPED |-> "STOP", EXPIRED |-> "STOP",
        ESCALATED |-> "ESCALATE"][outcome]

Target == [COMPLETE |-> "RECOVERED", RE_EVALUATE |-> "EVALUATING", STOP |-> "STOPPED",
           ESCALATE |-> "ESCALATED", WAIT_FOR_OUTCOME |-> "OBSERVING"]

\* A recovery makes the payment captured, if it is not already.
PaysNothing(outcome, payment) == FALSE
Pays(outcome, payment) == outcome = "RECOVERED" /\ payment # "CAPTURED"

\* The case can be moved to the target, from EXECUTING by way of OBSERVING.
MayAdvance(payment, from, to) ==
  \/ to = from
  \/ IF from = "EXECUTING" /\ to # "OBSERVING"
       THEN MayMoveCase(payment, from, "OBSERVING") /\ MayMoveCase(payment, "OBSERVING", to)
       ELSE MayMoveCase(payment, from, to)

\* One of the transitions that are to follow raises.
CannotFollow(outcome, then, status, payment) ==
  \/ then = Raises
  \/ Pays(outcome, payment) /\ ~ MayMovePayment(payment, "CAPTURED")
  \/ ~ MayAdvance(IF Pays(outcome, payment) THEN "CAPTURED" ELSE payment,
                  status, Target[then])

\* The attempts that the case counts, once the outcome of a cycle is known.
AttemptsAfter(case, cycle) == IF cycle > case.attempts THEN cycle ELSE case.attempts
=============================================================================
