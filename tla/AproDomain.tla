----------------------------- MODULE AproDomain -----------------------------
(***************************************************************************)
(* The lifecycle tables every component of APRO shares: the statuses of    *)
(* src/apro/domain/enums.py and the transition engine of                   *)
(* src/apro/domain/state_machines.py.  A transition function of the code   *)
(* returns a copy of its argument with the new status, or raises; here it  *)
(* is the predicate that says when it returns.                             *)
(***************************************************************************)

PaymentStatus == {"CREATED", "AUTHORIZED", "FAILED", "PENDING", "CAPTURED"}

PaymentMoves ==
  [CREATED    |-> {"AUTHORIZED", "FAILED", "PENDING"},
   AUTHORIZED |-> {"CAPTURED", "FAILED"},
   FAILED     |-> {"PENDING", "CAPTURED", "AUTHORIZED"},
   PENDING    |-> {"CAPTURED", "FAILED", "AUTHORIZED"},
   CAPTURED   |-> {}]

\* transition_payment returns: both of its errors leave the payment alone.
MayMovePayment(from, to) == to \in PaymentMoves[from]

-----------------------------------------------------------------------------
TerminalCase == {"RECOVERED", "STOPPED", "ESCALATED"}
ActiveCase == {"NEW", "DIAGNOSING", "EVALUATING", "DECISION_PENDING",
               "POLICY_CHECK", "ACTION_APPROVED", "EXECUTING", "OBSERVING"}
CaseStatus == ActiveCase \cup TerminalCase

\* Where work on an active case may lead next.
Progress ==
  [NEW              |-> {"DIAGNOSING"},
   DIAGNOSING       |-> {"EVALUATING"},
   EVALUATING       |-> {"DECISION_PENDING"},
   DECISION_PENDING |-> {"POLICY_CHECK"},
   POLICY_CHECK     |-> {"ACTION_APPROVED"},
   ACTION_APPROVED  |-> {"EXECUTING"},
   EXECUTING        |-> {"OBSERVING"},
   OBSERVING        |-> {"RECOVERED", "EVALUATING"}]

\* It may also stop or escalate from anywhere.
CaseMovesSkippingApproval ==
  [s \in CaseStatus |->
     IF s \in TerminalCase THEN {}
     ELSE Progress[s] \cup {"EXECUTING", "STOPPED", "ESCALATED"}]

CaseMoves ==
  [s \in CaseStatus |->
     IF s \in TerminalCase THEN {} ELSE Progress[s] \cup {"STOPPED", "ESCALATED"}]

\* The statuses a case may not enter once its payment is CAPTURED.
ExecutionEligible == {"ACTION_APPROVED", "EXECUTING"}

\* transition_recovery_case returns.
MayMoveCase(payment, from, to) ==
  /\ ~ (payment = "CAPTURED" /\ to \in ExecutionEligible)
  /\ from \notin TerminalCase
  /\ to \in CaseMoves[from]
=============================================================================
