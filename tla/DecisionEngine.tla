--------------------------- MODULE DecisionEngine ---------------------------
(***************************************************************************)
(* The choice of the next recovery action: EconomicDecisionEngine.decide   *)
(* (decision/engine.py), with the eligibility rules of eligibility.py and  *)
(* the economics of economics.py.  The predictions of the trained models   *)
(* are an input; so is whether the confidence computed from them reaches   *)
(* the policy engine's threshold.                                          *)
(***************************************************************************)
EXTENDS PolicyRules

CONSTANTS
  Cost,                                  \* total_cost of each action
  MinValue, Tolerance,                   \* of EconomicConfiguration
  RetryLimit, InterventionLimit,         \* of PolicyConfiguration, the
  DecisionHighValue, MinOutreach         \* decision engine's own

ASSUME DecisionAssumption ==
  /\ Cost \in [Action -> Nat]
  /\ MinValue \in Int
  /\ {Tolerance, RetryLimit, InterventionLimit, DecisionHighValue, MinOutreach} \subseteq Nat

\* attempts: attempt_count, the number of the cycle; recoveries: interventions of
\* the past; retryable: the diagnosis does not rule out a retry.
Features == [amount : Nat, attempts : Nat, recoveries : Nat, retryable : BOOLEAN]

\* gross: the expected recovery of each action.
Forecast == [gross : [Action -> Nat], confident : BOOLEAN, retryable : BOOLEAN]

Decision == [action : Action \cup {NoAction}, value : Int, confident : BOOLEAN]

Eligible(x, action) ==
  /\ action \in {"RETRY", "OUTREACH"} => x.amount < DecisionHighValue
  /\ action \in ActiveAction => x.recoveries < InterventionLimit
  /\ action = "RETRY" => x.attempts < RetryLimit /\ x.retryable
  /\ action = "OUTREACH" => x.amount >= MinOutreach

Value(forecast, action) == forecast.gross[action] - Cost[action]

\* The greatest value of an eligible action: STOP and ESCALATE always are.
Best(x, forecast) ==
  LET eligible == {a \in Action : Eligible(x, a)} IN
  CHOOSE v \in {Value(forecast, a) : a \in eligible} :
    \A a \in eligible : Value(forecast, a) <= v

\* Actions within the tolerance of the best are tied; the order is tie_break_order.
TieRank == [STOP |-> 1, ESCALATE |-> 2, RETRY |-> 3, PAYMENT_LINK |-> 4, OUTREACH |-> 5]
Winner(x, forecast) ==
  LET tied == {a \in Action : /\ Eligible(x, a)
                              /\ Best(x, forecast) - Value(forecast, a) <= Tolerance} IN
  CHOOSE a \in tied : \A b \in tied : TieRank[a] <= TieRank[b]

\* The threshold is that of the best value, not of the action that wins the tie.  No
\* action is decided with 0.50, which is just what the policy's threshold asks for.
Decide(x, forecast) ==
  IF Best(x, forecast) < MinValue
    THEN [action |-> NoAction, value |-> Best(x, forecast), confident |-> TRUE]
    ELSE [action |-> Winner(x, forecast), value |-> Value(forecast, Winner(x, forecast)),
          confident |-> forecast.confident]
=============================================================================
