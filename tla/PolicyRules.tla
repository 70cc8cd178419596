---------------------------- MODULE PolicyRules ----------------------------
(***************************************************************************)
(* The policy engine's rules (policy/rules.py), the validation of a human  *)
(* approval (policy/approvals.py), and how PolicyEngine.evaluate           *)
(* (policy/engine.py) ranks the rules that fire: a function of one request.*)
(* The action enumeration holds the five supported actions only, so that   *)
(* rule H4 (unsupported action) never fires.                               *)
(***************************************************************************)
EXTENDS AproDomain, Integers

CONSTANTS
  MaxRetries, Cooldown, MaxRepetitions, MaxInterventions, MaxLinks,
  HighValue, MinExpectedValue        \* the thresholds of PolicyConfig

ASSUME PolicyAssumption ==
  {MaxRetries, Cooldown, MaxRepetitions, MaxInterventions, MaxLinks,
   HighValue, MinExpectedValue} \subseteq Nat

ActiveAction == {"RETRY", "PAYMENT_LINK", "OUTREACH"}
Action == ActiveAction \cup {"STOP", "ESCALATE"}
NoAction == "none"

\* faults: what is wrong with the decision's models and bindings; flaws: with the
\* approval; value: what is expected of the action, if anything was; retriedAt: when
\* the last retry was observed, if there was one; last and repeats: the last action
\* and how often in a row; reused: the key was used before.
ModelFault == {"binding or output", "diagnosis failed", "prediction failed"}
Mismatch == {"replayed", "other case", "other decision", "other action"}
Flaw == Mismatch \cup {"expired", "other version"}
Request ==
  [action : Action \cup {NoAction}, payment : PaymentStatus, trusted : BOOLEAN,
   duplicate : BOOLEAN, reused : BOOLEAN, stale : BOOLEAN, faults : SUBSET ModelFault,
   amount : Nat, confident : BOOLEAN, value : SUBSET Int, now : Nat, retries : Nat,
   retriedAt : SUBSET Nat, last : Action \cup {NoAction}, repeats : Nat,
   interventions : Nat, links : Nat, approved : BOOLEAN, flaws : SUBSET Flaw]

IsActive(r) == r.action \in ActiveAction
IsAboveHighValue(r) == r.amount > HighValue
IsHighValue(r) == r.amount >= HighValue

\* validate_human_approval, with the order of its checks: what it finds.
ApprovalProblem(r) ==
  IF ~ r.approved THEN "missing"
  ELSE IF r.flaws \cap Mismatch # {} \/ r.action = NoAction THEN "mismatch"
  ELSE IF "expired" \in r.flaws THEN "expired"
  ELSE IF "other version" \in r.flaws THEN "mismatch"
  ELSE "none"

-----------------------------------------------------------------------------
\* When each rule fires.
HardRules(r) ==
  [H1 |-> r.payment = "CAPTURED",
   H2 |-> ~ r.trusted,
   H3 |-> r.duplicate,
   H5 |-> "binding or output" \in r.faults]
ModelRules(r) ==
  [M1 |-> "diagnosis failed" \in r.faults,
   M2 |-> "prediction failed" \in r.faults]
LimitRules(r) ==
  [R1 |-> r.action = "RETRY" /\ r.retries >= MaxRetries,
   R2 |-> r.action = "RETRY" /\ \E t \in r.retriedAt : r.now - t < Cooldown,
   R3 |-> IsActive(r) /\ r.last = r.action /\ r.repeats >= MaxRepetitions,
   R4 |-> IsActive(r) /\ r.interventions >= MaxInterventions]
ValueRules(r) ==
  [S1 |-> IsActive(r) /\ IsHighValue(r),
   S2 |-> IsActive(r) /\ ~ r.confident,
   S4 |-> IsActive(r) /\ \E v \in r.value : v <= 0,
   S3 |-> IsActive(r) /\ \E v \in r.value : 0 < v /\ v < MinExpectedValue]
StateRules(r) ==
  [S5 |-> r.stale,
   S6 |-> r.payment \notin {"FAILED", "PENDING", "CAPTURED"},
   S7 |-> r.action = "PAYMENT_LINK" /\ r.links >= MaxLinks,
   S8 |-> r.action # NoAction /\ r.reused]
ApprovalRules(r) ==
  [A1 |-> IsActive(r) /\ (IsHighValue(r) \/ ~ r.confident) /\ ~ r.approved,
   A2 |-> ApprovalProblem(r) = "mismatch",
   A3 |-> ApprovalProblem(r) = "expired"]

Holding(rules) == {x \in DOMAIN rules : rules[x]}
Fired(r) ==
  Holding(HardRules(r)) \cup Holding(ModelRules(r)) \cup Holding(LimitRules(r))
    \cup Holding(ValueRules(r)) \cup Holding(StateRules(r)) \cup Holding(ApprovalRules(r))

\* RulePrecedenceLevel: 1 is hard safety, 7 is human approval.
Level ==
  [H1 |-> 1, H2 |-> 1, H3 |-> 1, S8 |-> 1, A2 |-> 1, A3 |-> 1, S5 |-> 2, S6 |-> 2,
   R1 |-> 4, R2 |-> 4, R3 |-> 4, R4 |-> 4, S7 |-> 4, H5 |-> 5, M1 |-> 5, M2 |-> 5,
   S2 |-> 6, S4 |-> 6, S3 |-> 6, S1 |-> 7, A1 |-> 7]
HumanApproval == 7
Rule == DOMAIN Level

\* The place of each rule in ALL_RULES.
Place ==
  [H1 |-> 1, H2 |-> 2, H3 |-> 3, H5 |-> 5, M1 |-> 6, M2 |-> 7, R1 |-> 8, R2 |-> 9,
   R3 |-> 10, R4 |-> 11, S1 |-> 12, S2 |-> 13, S4 |-> 14, S3 |-> 15, S5 |-> 16,
   S6 |-> 17, S7 |-> 18, S8 |-> 19, A1 |-> 20, A2 |-> 21, A3 |-> 22]
Requires == {"S1", "S2", "S6", "A1"}   \* the others block

\* sorted() by level is stable: rules of one level keep their places.
RankByPlace(x) == Place[x]
Rank(x) == 100 * Level[x] + Place[x]
Top(rules) == CHOOSE x \in rules : \A y \in rules : Rank(x) <= Rank(y)

\* Only the requirement of an approval is opened by one.
OutcomeWithAnyApproval(r, rule) ==
  IF rule \in Requires
    THEN IF ApprovalProblem(r) = "none" THEN "ALLOW" ELSE "REQUIRE_HUMAN_APPROVAL"
    ELSE "BLOCK"
OutcomeWithReason(r, rule) ==
  IF Level[rule] = HumanApproval /\ ApprovalProblem(r) # "none"
    THEN ApprovalProblem(r)
    ELSE IF rule \in Requires THEN "REQUIRE_HUMAN_APPROVAL" ELSE "BLOCK"
OutcomeOf(r, rule) ==
  IF Level[rule] = HumanApproval
    THEN CASE ApprovalProblem(r) = "none"    -> "ALLOW"
           [] ApprovalProblem(r) = "missing" -> "REQUIRE_HUMAN_APPROVAL"
           [] OTHER                          -> "BLOCK"
    ELSE IF rule \in Requires THEN "REQUIRE_HUMAN_APPROVAL" ELSE "BLOCK"

Verdict(r) ==
  IF Fired(r) = {} THEN "ALLOW" ELSE OutcomeOf(r, Top(Fired(r)))
=============================================================================
