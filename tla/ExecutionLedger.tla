-------------------------- MODULE ExecutionLedger --------------------------
(***************************************************************************)
(* What durable execution promises, without its transactions and its       *)
(* copies: an approved action has its effect, is recorded and moves on in  *)
(* one step, and an idempotency key is used up by it.  Only an effect that *)
(* is lost leaves nothing behind.  ExecutionOrchestrator implements it.    *)
(***************************************************************************)
EXTENDS AproDomain, Naturals

CONSTANTS Case, Action, Key, CaseOf, KindOf, KeyOf, Absent

VARIABLES
  payment,  \* the status of each case's payment
  recovery, \* the status of each case
  actions,  \* the status of each action
  record,   \* how each key's execution ended, and of which action; or Absent
  effects   \* how often each key has had an effect outside

vars == <<payment, recovery, actions, record, effects>>

Init ==
  /\ payment \in [Case -> PaymentStatus \ {"CAPTURED"}]
  /\ recovery \in [Case -> {"POLICY_CHECK", "ACTION_APPROVED", "EXECUTING"}]
  /\ actions \in [Action -> {"RECOMMENDED", "APPROVED"}]
  /\ record = [k \in Key |-> Absent]
  /\ effects = [k \in Key |-> 0]

Takes(a) ==
  /\ record[KeyOf[a]] = Absent
  /\ actions[a] = "APPROVED"
  /\ effects' = [effects EXCEPT ![KeyOf[a]] = @ + 1]

Records(a, result) ==
  record' = [record EXCEPT ![KeyOf[a]] = [action |-> a, status |-> result]]

\* Where success leads has been reached before: by another action's, or a capture.
Reached(a) ==
  \/ payment[CaseOf[a]] = "CAPTURED"
  \/ \E b \in Action :
       /\ CaseOf[b] = CaseOf[a] /\ KindOf[b] = KindOf[a]
       /\ record[KeyOf[b]] = [action |-> b, status |-> "SUCCEEDED"]

\* It succeeds, as an attempt may and a STOP or ESCALATE does; the case goes where
\* that leads, whatever a capture has made of it meanwhile, unless it has been there.
Goal == [attempt |-> "OBSERVING", STOP |-> "STOPPED", ESCALATE |-> "ESCALATED"]
Succeeds(a) ==
  /\ Takes(a)
  /\ Records(a, "SUCCEEDED")
  /\ actions' = [actions EXCEPT ![a] = "COMPLETED"]
  /\ \/ recovery' = [recovery EXCEPT ![CaseOf[a]] = Goal[KindOf[a]]]
     \/ Reached(a) /\ UNCHANGED recovery
  /\ UNCHANGED payment

\* An attempt ends otherwise: the case moves no further than to EXECUTING.
Status == [FAILED |-> "FAILED", CANCELLED |-> "CANCELLED", UNKNOWN |-> "EXECUTING"]
EndsWithout(a, result) ==
  /\ KindOf[a] = "attempt"
  /\ Takes(a)
  /\ Records(a, result)
  /\ actions' = [actions EXCEPT ![a] = Status[result]]
  /\ \/ UNCHANGED recovery
     \/ recovery' = [recovery EXCEPT ![CaseOf[a]] = "EXECUTING"]
  /\ UNCHANGED payment

\* An effect of which nothing tells: the key is as free as before.
Vanishes(a) == Takes(a) /\ UNCHANGED <<payment, recovery, actions, record>>

\* The gate closes: the key is used up without an effect.
Withdraws(a) ==
  /\ record[KeyOf[a]] = Absent
  /\ Records(a, "CANCELLED")
  /\ UNCHANGED <<payment, recovery, actions, effects>>

Captured(c) ==
  /\ MayMovePayment(payment[c], "CAPTURED")
  /\ payment' = [payment EXCEPT ![c] = "CAPTURED"]
  /\ recovery' = [recovery EXCEPT ![c] =
       IF @ = "OBSERVING" THEN "RECOVERED" ELSE IF @ \in ActiveCase THEN "STOPPED" ELSE @]
  /\ UNCHANGED <<actions, record, effects>>

Authorized(c) ==
  /\ MayMovePayment(payment[c], "AUTHORIZED")
  /\ payment' = [payment EXCEPT ![c] = "AUTHORIZED"]
  /\ UNCHANGED <<recovery, actions, record, effects>>

Next ==
  \/ \E a \in Action :
       \/ Succeeds(a) \/ Vanishes(a) \/ Withdraws(a)
       \/ \E result \in DOMAIN Status : EndsWithout(a, result)
  \/ \E c \in Case : Captured(c) \/ Authorized(c)

Spec == Init /\ [][Next]_vars
=============================================================================
