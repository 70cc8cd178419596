---------------------------- MODULE PolicyProofs ----------------------------
(***************************************************************************)
(* Proofs about the policy engine, for all thresholds and all requests.    *)
(* The ranking is what has to be argued: the rule on top speaks for all    *)
(* that have fired, and it is one of level 7 only if no other has fired.   *)
(***************************************************************************)
EXTENDS PolicyEngine, WellFoundedInduction, TLAPS

\* Ranks are numbers.
LEMMA RankType == \A x \in Rule : Rank(x) \in Nat
  BY DEF Rule, Rank, Level, Place

\* The order of ranks is well founded: of the rules that fired one is on top.
LEMMA TopRanksFirst ==
  ASSUME NEW rules \in SUBSET Rule, rules # {}
  PROVE  Top(rules) \in rules /\ \A y \in rules : Rank(Top(rules)) <= Rank(y)
<1> DEFINE Ranks == {Rank(x) : x \in rules}
<1>1. Ranks \in SUBSET Nat /\ Ranks # {}
  BY RankType
<1>2. \E n \in Ranks : \A m \in Ranks : ~ (<<m, n>> \in OpToRel(<, Nat))
  <2> HIDE DEF Ranks
  <2> QED
    BY <1>1, NatLessThanWellFounded, WFMin, Zenon
<1>3. PICK x \in rules : \A m \in Ranks : ~ (<<m, Rank(x)>> \in OpToRel(<, Nat))
  BY <1>2
<1>4. \A y \in rules : ~ (Rank(y) < Rank(x))
  <2> SUFFICES ASSUME NEW y \in rules, Rank(y) < Rank(x) PROVE FALSE
    OBVIOUS
  <2>1. <<Rank(y), Rank(x)>> \in OpToRel(<, Nat)
    BY RankType, Zenon DEF OpToRel
  <2> QED
    BY <1>3, <2>1
<1>5. \A y \in rules : Rank(x) <= Rank(y)
  BY <1>4, RankType
<1> QED
  BY <1>5 DEF Top

\* A rule of a lower level goes before one of a higher level, whatever their places.
LEMMA LevelsRankFirst ==
  ASSUME NEW x \in Rule, NEW y \in Rule, Rank(x) <= Rank(y)
  PROVE  Level[x] <= Level[y]
<1>1. \A z \in Rule : Level[z] \in 1 .. 7 /\ Place[z] \in 1 .. 22
  BY DEF Rule, Level, Place
<1>2. /\ Level[x] \in 1 .. 7 /\ Place[x] \in 1 .. 22
      /\ Level[y] \in 1 .. 7 /\ Place[y] \in 1 .. 22
  BY <1>1
<1>3. 100 * Level[x] + Place[x] <= 100 * Level[y] + Place[y]
  BY DEF Rank
<1> QED
  <2> DEFINE a == Level[x]  b == Place[x]  c == Level[y]  d == Place[y]
  <2> HIDE DEF a, b, c, d
  <2>1. a \in 1 .. 7 /\ b \in 1 .. 22 /\ c \in 1 .. 7 /\ d \in 1 .. 22
    BY <1>2 DEF a, b, c, d
  <2>2. 100 * a + b <= 100 * c + d
    BY <1>3 DEF a, b, c, d
  <2>3. a <= c
    BY <2>1, <2>2
  <2> QED
    BY <2>3 DEF a, c

\* Which rules fire, one by one.
LEMMA OnlyRulesFire ==
  ASSUME NEW r
  PROVE  Fired(r) \in SUBSET Rule
<1>1. Holding(HardRules(r)) \subseteq Rule
  BY DEF Holding, HardRules, Rule, Level
<1>2. Holding(ModelRules(r)) \subseteq Rule
  BY DEF Holding, ModelRules, Rule, Level
<1>3. Holding(LimitRules(r)) \subseteq Rule
  BY DEF Holding, LimitRules, Rule, Level
<1>4. Holding(ValueRules(r)) \subseteq Rule
  BY DEF Holding, ValueRules, Rule, Level
<1>5. Holding(StateRules(r)) \subseteq Rule
  BY DEF Holding, StateRules, Rule, Level
<1>6. Holding(ApprovalRules(r)) \subseteq Rule
  BY DEF Holding, ApprovalRules, Rule, Level
<1> QED
  BY <1>1, <1>2, <1>3, <1>4, <1>5, <1>6 DEF Fired

LEMMA EventAndModelRulesFire ==
  ASSUME NEW r
  PROVE  /\ "H1" \in Fired(r) <=> r.payment = "CAPTURED"
         /\ "H2" \in Fired(r) <=> ~ r.trusted
         /\ "H3" \in Fired(r) <=> r.duplicate
         /\ "H5" \in Fired(r) <=> "binding or output" \in r.faults
         /\ "M1" \in Fired(r) <=> "diagnosis failed" \in r.faults
         /\ "M2" \in Fired(r) <=> "prediction failed" \in r.faults
         /\ "S5" \in Fired(r) <=> r.stale
         /\ "S6" \in Fired(r) <=> r.payment \notin {"FAILED", "PENDING", "CAPTURED"}
         /\ "S8" \in Fired(r) <=> r.action # NoAction /\ r.reused
BY DEF Fired, Holding, HardRules, ModelRules, LimitRules, ValueRules, StateRules,
       ApprovalRules

LEMMA LimitRulesFire ==
  ASSUME NEW r
  PROVE  /\ "R1" \in Fired(r) <=> r.action = "RETRY" /\ r.retries >= MaxRetries
         /\ "R2" \in Fired(r) <=> r.action = "RETRY" /\ \E t \in r.retriedAt : r.now - t < Cooldown
         /\ "R3" \in Fired(r) <=> IsActive(r) /\ r.last = r.action /\ r.repeats >= MaxRepetitions
         /\ "R4" \in Fired(r) <=> IsActive(r) /\ r.interventions >= MaxInterventions
         /\ "S7" \in Fired(r) <=> r.action = "PAYMENT_LINK" /\ r.links >= MaxLinks
BY DEF Fired, Holding, HardRules, ModelRules, LimitRules, ValueRules, StateRules,
       ApprovalRules

LEMMA ValueRulesFire ==
  ASSUME NEW r
  PROVE  /\ "S2" \in Fired(r) <=> IsActive(r) /\ ~ r.confident
         /\ "S3" \in Fired(r) <=>
              IsActive(r) /\ \E v \in r.value : 0 < v /\ v < MinExpectedValue
         /\ "S4" \in Fired(r) <=> IsActive(r) /\ \E v \in r.value : v <= 0
BY DEF Fired, Holding, HardRules, ModelRules, LimitRules, ValueRules, StateRules,
       ApprovalRules

LEMMA ApprovalRulesFire ==
  ASSUME NEW r
  PROVE  /\ "S1" \in Fired(r) <=> IsActive(r) /\ IsHighValue(r)
         /\ "A1" \in Fired(r) <=> IsActive(r) /\ (IsHighValue(r) \/ ~ r.confident) /\ ~ r.approved
         /\ "A2" \in Fired(r) <=> ApprovalProblem(r) = "mismatch"
         /\ "A3" \in Fired(r) <=> ApprovalProblem(r) = "expired"
BY DEF Fired, Holding, HardRules, ModelRules, LimitRules, ValueRules, StateRules,
       ApprovalRules

-----------------------------------------------------------------------------
\* A request is clear exactly when no rule fires, or the one for high values alone
\* does and the request carries a valid approval.
OnlyItsValue(r) ==
  Fired(r) \subseteq {"S1"} /\ ("S1" \in Fired(r) => ApprovalProblem(r) = "none")

\* The thresholds and the facts that are compared with them are numbers.
LEMMA Numbers ==
  ASSUME NEW r \in Request
  PROVE  /\ MaxRetries \in Nat /\ Cooldown \in Nat /\ MaxRepetitions \in Nat
         /\ MaxInterventions \in Nat /\ MaxLinks \in Nat /\ MinExpectedValue \in Nat
         /\ r.retries \in Nat /\ r.now \in Nat /\ r.repeats \in Nat /\ r.retriedAt \subseteq Nat
         /\ r.interventions \in Nat /\ r.links \in Nat /\ r.value \subseteq Int
BY PolicyAssumption DEF Request

LEMMA ApprovalProblems ==
  ASSUME NEW r \in Request
  PROVE  /\ ApprovalProblem(r) = "none" <=> r.approved /\ r.flaws = {} /\ r.action # NoAction
         /\ ApprovalProblem(r) = "missing" <=> ~ r.approved
         /\ ApprovalProblem(r) \in {"none", "missing", "mismatch", "expired"}
BY DEF ApprovalProblem, Request, Flaw, Mismatch

LEMMA ClearFiresNothingElse ==
  ASSUME NEW r \in Request, Clear(r)
  PROVE  OnlyItsValue(r)
<1>1. r.payment \in {"FAILED", "PENDING"} /\ r.trusted /\ ~ r.duplicate /\ ~ r.stale
  BY DEF Clear, Recoverable, SoundEvent
<1>2. Fired(r) \cap {"H1", "H2", "H3", "H5", "M1", "M2", "S5", "S6", "S8"} = {}
  BY <1>1, EventAndModelRulesFire DEF Clear
<1>3. IsActive(r) => WithinLimits(r) /\ Pays(r)
  BY DEF Clear
<1>4. "R1" \notin Fired(r) /\ "R2" \notin Fired(r)
  <2>1. r.action = "RETRY" => IsActive(r)
    BY DEF IsActive, ActiveAction
  <2>2. ASSUME r.action = "RETRY"
        PROVE  ~ r.retries >= MaxRetries /\ ~ \E t \in r.retriedAt : r.now - t < Cooldown
    BY <1>3, <2>1, <2>2, Numbers DEF WithinLimits
  <2> QED
    BY <2>2, LimitRulesFire, Zenon
<1>5. "R3" \notin Fired(r) /\ "R4" \notin Fired(r)
  <2>1. ASSUME IsActive(r)
        PROVE  /\ r.last = r.action => ~ r.repeats >= MaxRepetitions
               /\ ~ r.interventions >= MaxInterventions
    BY <1>3, <2>1, Numbers DEF WithinLimits
  <2> QED
    BY <2>1, LimitRulesFire, Zenon
<1>6. "S7" \notin Fired(r)
  <2>1. r.action = "PAYMENT_LINK" => IsActive(r)
    BY DEF IsActive, ActiveAction
  <2>2. r.action = "PAYMENT_LINK" => ~ r.links >= MaxLinks
    BY <1>3, <2>1, Numbers DEF WithinLimits
  <2> QED
    BY <2>2, LimitRulesFire, Zenon
<1>7. "S2" \notin Fired(r) /\ "S3" \notin Fired(r) /\ "S4" \notin Fired(r)
  <2>1. ASSUME IsActive(r)
        PROVE  r.confident /\ \A v \in r.value : ~ v <= 0 /\ ~ v < MinExpectedValue
    <3>1. r.confident
      BY <1>3, <2>1, Zenon DEF Pays
    <3>2. \A v \in r.value : v > 0 /\ v >= MinExpectedValue
      BY <1>3, <2>1, Zenon DEF Pays
    <3>3. \A v \in r.value : ~ v <= 0 /\ ~ v < MinExpectedValue
      BY <3>2, Numbers
    <3> QED
      BY <3>1, <3>3, Zenon
  <2> QED
    BY <2>1, ValueRulesFire, Zenon
<1>8. "A2" \notin Fired(r) /\ "A3" \notin Fired(r)
  BY ApprovalRulesFire, ApprovalProblems DEF Clear
<1>9. "S1" \in Fired(r) => ApprovalProblem(r) = "none"
  BY ApprovalRulesFire, ApprovalProblems DEF Clear, IsHighValue
<1>10. "A1" \notin Fired(r)
  BY ApprovalRulesFire DEF Clear, Pays, IsHighValue
<1> QED
  BY <1>2, <1>4, <1>5, <1>6, <1>7, <1>8, <1>9, <1>10, OnlyRulesFire
     DEF OnlyItsValue, Rule, Level

LEMMA NothingElseFiresWhenClear ==
  ASSUME NEW r \in Request, OnlyItsValue(r)
  PROVE  Clear(r)
<1>1. \A x \in Fired(r) : x = "S1"
  BY DEF OnlyItsValue
<1>2. Recoverable(r) /\ SoundEvent(r) /\ r.faults = {}
  <2>1. "H1" \notin Fired(r) /\ "S6" \notin Fired(r)
    BY <1>1
  <2>2. "H2" \notin Fired(r) /\ "H3" \notin Fired(r) /\ "S5" \notin Fired(r)
    BY <1>1
  <2>3. "H5" \notin Fired(r) /\ "M1" \notin Fired(r) /\ "M2" \notin Fired(r)
    BY <1>1
  <2>4. Recoverable(r)
    BY <2>1, EventAndModelRulesFire DEF Recoverable
  <2>5. SoundEvent(r)
    BY <2>2, EventAndModelRulesFire, Zenon DEF SoundEvent
  <2>6. r.faults \cap ModelFault = {}
    BY <2>3, EventAndModelRulesFire DEF ModelFault
  <2> QED
    BY <2>4, <2>5, <2>6 DEF Request
<1>3. r.action # NoAction => ~ r.reused
  <2>1. "S8" \notin Fired(r)
    BY <1>1
  <2> QED
    BY <2>1, EventAndModelRulesFire
<1>4. ASSUME IsActive(r) PROVE WithinLimits(r)
  <2>1. "R1" \notin Fired(r) /\ "R2" \notin Fired(r)
    BY <1>1
  <2>2. "R3" \notin Fired(r) /\ "R4" \notin Fired(r) /\ "S7" \notin Fired(r)
    BY <1>1
  <2>3. r.action = "RETRY" => ~ r.retries >= MaxRetries
    BY <2>1, LimitRulesFire, Zenon
  <2>4. r.action = "RETRY" => ~ \E t \in r.retriedAt : r.now - t < Cooldown
    BY <2>1, LimitRulesFire, Zenon
  <2>5. r.action = "PAYMENT_LINK" => ~ r.links >= MaxLinks
    BY <2>2, LimitRulesFire, Zenon
  <2>6. r.last = r.action => ~ r.repeats >= MaxRepetitions
    BY <1>4, <2>2, LimitRulesFire, Zenon
  <2>7. ~ r.interventions >= MaxInterventions
    BY <1>4, <2>2, LimitRulesFire, Zenon
  <2> QED
    BY <2>3, <2>4, <2>5, <2>6, <2>7, Numbers DEF WithinLimits
<1>5. ASSUME IsActive(r) PROVE Pays(r)
  <2>1. "S2" \notin Fired(r) /\ "S3" \notin Fired(r) /\ "S4" \notin Fired(r)
    BY <1>1
  <2>2. r.confident
    BY <1>5, <2>1, ValueRulesFire, Zenon
  <2>3. \A v \in r.value : ~ v <= 0 /\ ~ (0 < v /\ v < MinExpectedValue)
    BY <1>5, <2>1, ValueRulesFire, Zenon
  <2>4. \A v \in r.value : v > 0 /\ v >= MinExpectedValue
    BY <2>3, Numbers
  <2> QED
    BY <2>2, <2>4, Zenon DEF Pays
<1>6. IsActive(r) /\ r.amount >= HighValue => r.approved
  BY ApprovalRulesFire, ApprovalProblems DEF OnlyItsValue, IsHighValue
<1>7. r.approved => r.flaws = {} /\ r.action # NoAction
  <2>1. "A2" \notin Fired(r) /\ "A3" \notin Fired(r)
    BY <1>1
  <2> QED
    BY <2>1, ApprovalRulesFire, ApprovalProblems
<1> QED
  BY <1>2, <1>3, <1>4, <1>5, <1>6, <1>7 DEF Clear

-----------------------------------------------------------------------------
\* Whatever fires besides the rules of level 7 goes before them.
LEMMA TopIsLast ==
  ASSUME NEW r, Fired(r) # {}, Level[Top(Fired(r))] = HumanApproval
  PROVE  Fired(r) \subseteq {"S1", "A1"}
<1>1. /\ Top(Fired(r)) \in Rule
      /\ \A y \in Fired(r) : y \in Rule /\ Rank(Top(Fired(r))) <= Rank(y)
  BY OnlyRulesFire, TopRanksFirst
<1>2. \A y \in Fired(r) : Level[Top(Fired(r))] <= Level[y]
  BY <1>1, LevelsRankFirst
<1>3. \A y \in Fired(r) : 7 <= Level[y]
  BY <1>2 DEF HumanApproval
<1>4. \A y \in Rule \ {"S1", "A1"} : ~ (7 <= Level[y])
  BY DEF Rule, Level
<1> QED
  BY <1>1, <1>3, <1>4

\* The engine allows exactly the requests of which nothing but the value is in question.
LEMMA VerdictAllows ==
  ASSUME NEW r \in Request
  PROVE  Verdict(r) = "ALLOW" <=> Clear(r)
<1>1. CASE Fired(r) = {}
  <2>1. OnlyItsValue(r)
    BY <1>1 DEF OnlyItsValue
  <2> QED
    BY <1>1, <2>1, NothingElseFiresWhenClear DEF Verdict
<1>2. CASE Fired(r) # {}
  <2> DEFINE top == Top(Fired(r))
  <2>1. top \in Fired(r) /\ Fired(r) \subseteq Rule
    BY <1>2, OnlyRulesFire, TopRanksFirst
  <2>2. Verdict(r) = OutcomeOf(r, top)
    BY <1>2 DEF Verdict
  <2>3. ASSUME Clear(r) PROVE Verdict(r) = "ALLOW"
    <3>1. top = "S1" /\ ApprovalProblem(r) = "none"
      BY <2>1, <2>3, ClearFiresNothingElse DEF OnlyItsValue
    <3>2. Level[top] = HumanApproval
      BY <3>1 DEF Level, HumanApproval
    <3> QED
      BY <2>2, <3>1, <3>2 DEF OutcomeOf
  <2>4. ASSUME Verdict(r) = "ALLOW" PROVE Clear(r)
    <3>1. Level[top] = HumanApproval /\ ApprovalProblem(r) = "none"
      BY <2>2, <2>4, ApprovalProblems DEF OutcomeOf
    <3>2. Fired(r) \subseteq {"S1", "A1"}
      BY <1>2, <3>1, TopIsLast
    <3>3. "A1" \notin Fired(r)
      BY <3>1, ApprovalProblems, ApprovalRulesFire
    <3>4. OnlyItsValue(r)
      BY <3>1, <3>2, <3>3 DEF OnlyItsValue
    <3> QED
      BY <3>4, NothingElseFiresWhenClear
  <2> QED
    BY <2>3, <2>4
<1> QED
  BY <1>1, <1>2

\* What is unsafe fires a rule of level 1, and these block.
LEMMA VerdictBlocks ==
  ASSUME NEW r \in Request, Unsafe(r)
  PROVE  Verdict(r) = "BLOCK"
<1> DEFINE Hard == {"H1", "H2", "H3", "S8", "A2", "A3"}
           top == Top(Fired(r))
<1>1. PICK x \in Hard : x \in Fired(r)
  <2>1. CASE r.payment = "CAPTURED" \/ ~ r.trusted \/ r.duplicate
    BY <2>1, EventAndModelRulesFire
  <2>2. CASE r.reused /\ r.action # NoAction
    BY <2>2, EventAndModelRulesFire
  <2>3. CASE r.approved /\ r.flaws # {}
    BY <2>3, ApprovalProblems, ApprovalRulesFire
  <2> QED
    BY <2>1, <2>2, <2>3 DEF Unsafe
<1>2. /\ top \in Rule /\ x \in Rule
      /\ Rank(top) <= Rank(x)
  BY <1>1, OnlyRulesFire, TopRanksFirst
<1>3. Level[top] <= Level[x]
  BY <1>2, LevelsRankFirst
<1>4. Level[x] = 1
  BY <1>1 DEF Level
<1>5. \A y \in Rule : Level[y] <= 1 => y \in Hard
  BY DEF Rule, Level
<1>6. top \in Hard
  BY <1>2, <1>3, <1>4, <1>5
<1>7. Level[top] # HumanApproval /\ top \notin Requires
  BY <1>6 DEF Level, HumanApproval, Requires
<1> QED
  BY <1>1, <1>7 DEF Verdict, OutcomeOf

LEMMA VerdictType ==
  ASSUME NEW r \in Request
  PROVE  Verdict(r) \in Outcome
BY ApprovalProblems DEF Verdict, OutcomeOf, Outcome

\* What got worse was not better before.
LEMMA WorseIsNotClearer ==
  ASSUME NEW r \in Request, NEW s \in Request, Worse(r, s), Clear(s)
  PROVE  Clear(r)
<1>1. r.payment \in {"FAILED", "PENDING"} /\ SoundEvent(r) /\ r.faults = {}
  BY DEF Worse, Clear, Recoverable, SoundEvent
<1>2. r.action # NoAction => ~ r.reused
  BY DEF Worse, Clear
<1>3. ASSUME IsActive(r) PROVE WithinLimits(r)
  <2>1. WithinLimits(s)
    BY <1>3 DEF Worse, Clear, IsActive
  <2>2. /\ s.action = r.action /\ s.last = r.last /\ s.now = r.now
        /\ r.retriedAt \subseteq s.retriedAt /\ s.retries >= r.retries
        /\ s.repeats >= r.repeats /\ s.interventions >= r.interventions /\ s.links >= r.links
    BY Zenon DEF Worse
  <2>3. s.retries \in Nat /\ s.repeats \in Nat /\ s.interventions \in Nat /\ s.links \in Nat
    BY Numbers
  <2> QED
    BY <2>1, <2>2, <2>3, Numbers DEF WithinLimits
<1>4. ASSUME IsActive(r) PROVE Pays(r)
  <2>1. Pays(s)
    BY <1>4 DEF Worse, Clear, IsActive
  <2>2. (\A v \in r.value : \E u \in s.value : u <= v) /\ (s.confident => r.confident)
    BY Zenon DEF Worse
  <2>3. r.confident
    BY <2>1, <2>2, Zenon DEF Pays
  <2>4. \A u \in s.value : u > 0 /\ u >= MinExpectedValue /\ u \in Int
    BY <2>1, Numbers, Zenon DEF Pays
  <2>5. \A v \in r.value : v > 0 /\ v >= MinExpectedValue
    BY <2>2, <2>4, Numbers
  <2> QED
    BY <2>3, <2>5, Zenon DEF Pays
<1>5. ASSUME ApprovalProblem(r) # "none"
      PROVE  s.approved = r.approved /\ r.flaws \subseteq s.flaws
  BY <1>5 DEF Worse
<1>6. r.approved => r.flaws = {} /\ r.action # NoAction
  <2>1. CASE ApprovalProblem(r) = "none"
    BY <2>1, ApprovalProblems
  <2>2. CASE ApprovalProblem(r) # "none"
    BY <1>5, <2>2 DEF Clear, Worse
  <2> QED
    BY <2>1, <2>2
<1>7. ASSUME IsActive(r), r.amount >= HighValue PROVE r.approved
  <2>1. CASE ApprovalProblem(r) = "none"
    BY <2>1, ApprovalProblems
  <2>2. CASE ApprovalProblem(r) # "none"
    <3>1. s.amount >= HighValue
      <4>1. s.amount \in Nat /\ r.amount \in Nat /\ HighValue \in Nat
        BY PolicyAssumption DEF Request
      <4>2. s.amount >= r.amount
        BY Zenon DEF Worse
      <4> QED
        BY <1>7, <4>1, <4>2
    <3>2. IsActive(s)
      BY <1>7 DEF IsActive, Worse
    <3> QED
      BY <1>5, <2>2, <3>1, <3>2 DEF Clear
  <2> QED
    BY <2>1, <2>2
<1> QED
  BY <1>1, <1>2, <1>3, <1>4, <1>6, <1>7 DEF Clear, Recoverable

-----------------------------------------------------------------------------
\* The verdict in force is the one for the request in force.
VerdictOfRequest ==
  /\ request \in Request
  /\ verdict = NotYet \/ verdict = Verdict(request)

LEMMA ApprovedIsRequest ==
  ASSUME NEW r \in Request
  PROVE  Approved(r) \in Request
BY DEF Request, Approved

LEMMA VerdictInvariant == Spec => []VerdictOfRequest
<1>1. Init => VerdictOfRequest
  BY RequestsAssumption DEF Init, VerdictOfRequest
<1>2. VerdictOfRequest /\ [Next]_vars => VerdictOfRequest'
  <2> SUFFICES ASSUME VerdictOfRequest, [Next]_vars PROVE VerdictOfRequest'
    OBVIOUS
  <2>1. CASE Evaluate
    BY <2>1 DEF Evaluate, Ask, VerdictOfRequest
  <2>2. CASE EvaluateWhenWorse
    BY <2>2, RequestsAssumption DEF EvaluateWhenWorse, Ask, VerdictOfRequest
  <2>3. CASE EvaluateWhenApproved
    BY <2>3, ApprovedIsRequest DEF EvaluateWhenApproved, Ask, VerdictOfRequest
  <2>4. CASE UNCHANGED vars
    BY <2>4 DEF vars, VerdictOfRequest
  <2> QED
    BY <2>1, <2>2, <2>3, <2>4 DEF Next
<1> QED
  BY <1>1, <1>2, PTL DEF Spec

\* Requests and verdicts have their types (policy/engine.py:90-361).
THEOREM PolicyTypes == Spec => []PolicyTypeOK
<1>1. VerdictOfRequest => PolicyTypeOK
  BY VerdictType DEF VerdictOfRequest, PolicyTypeOK
<1> QED
  BY <1>1, VerdictInvariant, PTL

\* An action is allowed exactly when nothing that the rules look at speaks against it,
\* or only its value and a human approved it (policy/engine.py:157-246).
THEOREM ClearActionsAreAllowed == Spec => []AllowedExactlyWhenClear
<1>1. VerdictOfRequest => AllowedExactlyWhenClear
  BY VerdictAllows DEF VerdictOfRequest, AllowedExactlyWhenClear
<1> QED
  BY <1>1, VerdictInvariant, PTL

\* What is unsafe is blocked, whatever else fires (policy/engine.py:168-172).
THEOREM UnsafeActionsAreBlocked == Spec => []UnsafeIsBlocked
<1>1. VerdictOfRequest => UnsafeIsBlocked
  BY VerdictBlocks DEF VerdictOfRequest, UnsafeIsBlocked
<1> QED
  BY <1>1, VerdictInvariant, PTL

\* A fact that gets worse never turns a refusal into a permission.
THEOREM RefusalsStand == Spec => RefusedStaysRefused
<1> DEFINE Stands == Refused /\ Worse(request, request') => verdict' # "ALLOW"
<1>1. VerdictOfRequest /\ VerdictOfRequest' => Stands
  <2> SUFFICES ASSUME VerdictOfRequest, VerdictOfRequest', Refused,
                      Worse(request, request'), verdict' = "ALLOW"
               PROVE  FALSE
    OBVIOUS
  <2>1. verdict = Verdict(request) /\ Verdict(request) # "ALLOW"
    BY DEF VerdictOfRequest, Refused, Outcome, NotYet
  <2>2. Verdict(request') = "ALLOW"
    BY DEF VerdictOfRequest, NotYet
  <2>3. Clear(request')
    BY <2>2, VerdictAllows DEF VerdictOfRequest
  <2>4. Clear(request)
    BY <2>3, WorseIsNotClearer DEF VerdictOfRequest
  <2> QED
    BY <2>1, <2>4, VerdictAllows DEF VerdictOfRequest
<1>2. []VerdictOfRequest => [][Stands]_vars
  BY <1>1, PTL
<1> QED
  BY <1>2, VerdictInvariant DEF RefusedStaysRefused

\* An approval turns a refusal into a permission only where the value was what spoke
\* against the action (policy/engine.py:174-198).
THEOREM ApprovalsLiftValue == Spec => ApprovalLiftsValueOnly
<1> DEFINE Lifts == Refused /\ verdict' = "ALLOW" =>
                      /\ request.amount >= HighValue /\ IsActive(request)
                      /\ WithinLimits(request) /\ Pays(request)
<1>1. VerdictOfRequest /\ VerdictOfRequest' /\ [Next]_vars => Lifts
  <2> SUFFICES ASSUME VerdictOfRequest, VerdictOfRequest', [Next]_vars, Refused, verdict' = "ALLOW"
               PROVE  /\ request.amount >= HighValue /\ IsActive(request)
                      /\ WithinLimits(request) /\ Pays(request)
    OBVIOUS
  <2>1. verdict = Verdict(request) /\ ~ Clear(request)
    BY VerdictAllows DEF VerdictOfRequest, Refused, Outcome, NotYet
  <2>2. Clear(request')
    BY VerdictAllows DEF VerdictOfRequest, NotYet
  <2>3. ~ Evaluate
    BY <2>1 DEF Evaluate, Refused, Outcome, NotYet
  <2>4. ~ EvaluateWhenWorse
    <3> SUFFICES ASSUME NEW s \in Requests, Worse(request, s), Ask(s) PROVE FALSE
      BY DEF EvaluateWhenWorse
    <3>1. request' = s
      BY DEF Ask
    <3> QED
      BY <2>1, <2>2, <3>1, WorseIsNotClearer DEF VerdictOfRequest
  <2>5. ~ UNCHANGED vars
    BY DEF vars, Refused
  <2>6. ~ request.approved /\ request' = Approved(request)
    BY <2>3, <2>4, <2>5 DEF Next, EvaluateWhenApproved, Ask
  <2>7. /\ request'.action = request.action /\ request'.payment = request.payment
        /\ request'.trusted = request.trusted /\ request'.duplicate = request.duplicate
        /\ request'.stale = request.stale /\ request'.reused = request.reused
        /\ request'.faults = request.faults /\ request'.amount = request.amount
    BY <2>6 DEF Approved, Request, VerdictOfRequest
  <2>8. /\ request'.now = request.now /\ request'.retriedAt = request.retriedAt
        /\ request'.retries = request.retries /\ request'.last = request.last
        /\ request'.repeats = request.repeats /\ request'.links = request.links
        /\ request'.interventions = request.interventions
        /\ request'.confident = request.confident /\ request'.value = request.value
    BY <2>6 DEF Approved, Request, VerdictOfRequest
  <2>9. /\ WithinLimits(request') <=> WithinLimits(request)
        /\ Pays(request') <=> Pays(request)
        /\ IsActive(request') <=> IsActive(request)
    BY <2>7, <2>8 DEF WithinLimits, Pays, IsActive
  <2>10. IsActive(request) /\ request.amount >= HighValue
    BY <2>1, <2>2, <2>6, <2>7, <2>9 DEF Clear, Recoverable, SoundEvent
  <2> QED
    BY <2>2, <2>9, <2>10 DEF Clear
<1>2. []VerdictOfRequest /\ [][Next]_vars => [][Lifts]_vars
  BY <1>1, PTL
<1> QED
  BY <1>2, VerdictInvariant DEF ApprovalLiftsValueOnly, Spec
=============================================================================
