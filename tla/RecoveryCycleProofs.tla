------------------------ MODULE RecoveryCycleProofs ------------------------
(***************************************************************************)
(* Theorems about the adaptive loop, for any workers, forecasts, costs,    *)
(* limits and numbers of calls: CycleInv is inductive, and the properties  *)
(* of RecoveryCycle follow from it and from the steps.                     *)
(***************************************************************************)
EXTENDS RecoveryCycle, FiniteSetTheorems, SequenceTheorems, TLAPS

-----------------------------------------------------------------------------
(***************************************************************************)
(* The inductive invariant.                                                *)
(***************************************************************************)
\* One call at most is dispatching, and what runs is the last dispatch.
LockIsExclusive ==
  \A w, x \in Worker : pc[w] = "dispatching" /\ pc[x] = "dispatching" => w = x
OnlyTheLastRuns ==
  /\ executions # <<>>
  /\ \A i \in DOMAIN executions : executions[i].status = "RUNNING" => i = Len(executions)
  /\ (\E w \in Worker : pc[w] = "dispatching")
       <=> executions[Len(executions)].status = "RUNNING"

\* What is reported, and what is judged a failure, is so.
CallsAreReported == \A w \in Worker : pc[w] # "idle" => IsReported(call[w].report)
IsFailure(r) ==
  \/ r.as \in {"failed", "failed, unattributed"}
  \/ r.as = "result" /\ executions[r.of].status = "FAILED"
OutcomesAreReported ==
  \A r \in Report : /\ outcomes[r] # Nothing => IsReported(r)
                    /\ outcomes[r] = "FAILED" => IsFailure(r)

CausesAreReported ==
  \A i \in DOMAIN executions :
    executions[i].cause # NoReport => IsReported(executions[i].cause)

\* A payment in recovery has failed, is pending, or is captured.
Standing == {"FAILED", "PENDING", "CAPTURED"}
PaymentsStand ==
  /\ held.payment \in Standing
  /\ \A w \in Worker : pc[w] # "idle" => call[w].case.payment \in Standing

CoreInv ==
  /\ CycleTypeOK
  /\ LockIsExclusive
  /\ OnlyTheLastRuns
  /\ CallsAreReported
  /\ OutcomesAreReported
  /\ CausesAreReported
  /\ PaymentsStand
  /\ KeysDispatchedOnce
  /\ OnlyFailuresLeadOn
  /\ RetriesEndInTime

-----------------------------------------------------------------------------
(***************************************************************************)
(* What a report is judged to be.                                          *)
(***************************************************************************)
LEMMA ReportedFacts ==
  ASSUME CycleTypeOK, NEW r \in Report, IsReported(r)
  PROVE  /\ r.of \in DOMAIN executions /\ r.as \in Saying
         /\ executions[r.of] \in Dispatched
         /\ executions[r.of].cycle \in Nat
         /\ Passes(r) => executions[r.of].status \in Answered
<1>1. r.of \in DOMAIN executions /\ r.as \in Saying
  BY DEF IsReported, Report
<1>2. executions \in Seq(Dispatched)
  BY DEF CycleTypeOK
<1>3. executions[r.of] \in Dispatched
  BY <1>1, <1>2
<1>4. executions[r.of].cycle \in Nat
  BY <1>3 DEF Dispatched
<1> QED
  BY <1>1, <1>3, <1>4 DEF IsReported

LEMMA CallFacts ==
  ASSUME CycleTypeOK, CallsAreReported, NEW w \in Worker, pc[w] # "idle"
  PROVE  /\ call[w].report \in Report /\ IsReported(call[w].report)
         /\ call[w].case \in Copies
         /\ FactsAt(w).cycle = executions[call[w].report.of].cycle
         /\ FactsAt(w).cycle \in Nat
<1>1. call[w] \in Call
  BY DEF CycleTypeOK
<1>2. call[w].report \in Report /\ call[w].case \in Copies /\ IsReported(call[w].report)
  BY <1>1 DEF Call, CallsAreReported
<1>3. FactsAt(w).cycle = executions[call[w].report.of].cycle
  BY DEF FactsAt
<1> QED
  BY <1>2, <1>3, ReportedFacts

\* The outcome of a report, by what it says.
LEMMA OutcomesOfReports ==
  ASSUME CycleTypeOK, CallsAreReported, OutcomesAreReported,
         NEW w \in Worker, pc[w] # "idle"
  PROVE  /\ OutcomeAt(w) \in OutcomeType
         /\ OutcomeAt(w) = "FAILED" => IsFailure(call[w].report)
         /\ OutcomeAt(w) = "FAILED" /\ ~ IsDuplicate(w) => call[w].case.payment # "CAPTURED"
<1> DEFINE r == call[w].report
           f == FactsAt(w)
<1>1. r \in Report /\ IsReported(r)
  BY CallFacts
<1>2. /\ r.as \in Saying
      /\ Passes(r) => executions[r.of].status \in Answered
  BY <1>1, ReportedFacts
<1>3. CASE IsDuplicate(w)
  <2>1. OutcomeAt(w) = outcomes[r] /\ outcomes[r] # Nothing
    BY <1>3 DEF OutcomeAt, IsDuplicate
  <2>2. outcomes[r] \in OutcomeType \cup {Nothing}
    BY <1>1 DEF CycleTypeOK
  <2> HIDE DEF r
  <2> QED
    BY <1>1, <1>3, <2>1, <2>2 DEF OutcomesAreReported, r
<1>4. CASE ~ IsDuplicate(w)
  <2>1. OutcomeAt(w) = Classify(f, call[w].case.payment)
    BY <1>4 DEF OutcomeAt
  <2>2. /\ f.type = IF r.as = "result" THEN "EXECUTION_RESULT" ELSE "PAYMENT_EVENT"
        /\ f.payment = IF r.as = "result" THEN "none"
                       ELSE IF r.as = "captured" THEN "CAPTURED" ELSE "FAILED"
        /\ f.raw = "none"
        /\ f.execution = IF Passes(r) THEN executions[r.of].status ELSE "none"
    BY DEF FactsAt
  <2> HIDE DEF r, f
  <2>3. CASE "CAPTURED" \in {call[w].case.payment, f.payment}
    BY <2>1, <2>3 DEF Classify, OutcomeType
  <2>4. CASE "CAPTURED" \notin {call[w].case.payment, f.payment} /\ r.as = "result"
    <3>1. f.execution = executions[r.of].status /\ f.execution \in Answered
      BY <1>2, <2>2, <2>4 DEF Passes
    <3>2. OutcomeAt(w) = OutcomeOfExecution[f.execution]
      BY <2>1, <2>2, <2>4, <3>1 DEF Classify, Answered
    <3> QED
      BY <2>4, <3>1, <3>2 DEF Answered, OutcomeOfExecution, OutcomeType, IsFailure, r
  <2>5. CASE "CAPTURED" \notin {call[w].case.payment, f.payment} /\ r.as # "result"
    <3>1. OutcomeAt(w) = "FAILED" /\ r.as \in {"failed", "failed, unattributed"}
      BY <1>2, <2>1, <2>2, <2>5 DEF Classify, Saying
    <3> QED
      BY <2>5, <3>1 DEF OutcomeType, IsFailure, r
  <2> QED
    BY <2>3, <2>4, <2>5
<1> QED
  BY <1>3, <1>4

\* What follows from an outcome, and what it makes of the case and the payment.
LEMMA JudgedFacts ==
  ASSUME CycleTypeOK, CallsAreReported, OutcomesAreReported, PaymentsStand,
         NEW w \in Worker, pc[w] # "idle", ~ RefusesOutcome(w)
  PROVE  /\ ThenAt(w) \in Disposition
         /\ Judged(w) \in Copies
         /\ Judged(w).payment \in Standing
         /\ Judged(w).attempts = IF IsDuplicate(w) THEN call[w].case.attempts
                                 ELSE AttemptsAfter(call[w].case, FactsAt(w).cycle)
         /\ Judged(w).payment = IF ~ IsDuplicate(w) /\ OutcomeAt(w) = "RECOVERED"
                                  THEN "CAPTURED" ELSE call[w].case.payment
<1> DEFINE c == call[w].case
<1>1. /\ c \in Copies /\ c.payment \in Standing
      /\ c.status \in CaseStatus /\ c.payment \in PaymentStatus /\ c.attempts \in Nat
      /\ FactsAt(w).cycle \in Nat
  BY CallFacts DEF Copies, PaymentsStand
<1>2. OutcomeAt(w) \in OutcomeType
  BY OutcomesOfReports
<1>3. ThenAt(w) \in Disposition \cup {Raises}
  BY <1>2 DEF ThenAt, Resolve, AfterFailure, Disposition, OutcomeType
<1>4. ThenAt(w) \in Disposition
  BY <1>3 DEF RefusesOutcome
<1>5. CASE IsDuplicate(w)
  BY <1>1, <1>4, <1>5 DEF Judged
<1>6. CASE ~ IsDuplicate(w)
  <2>1. Judged(w) = [status |-> Target[ThenAt(w)],
                     payment |-> IF Pays(OutcomeAt(w), c.payment) THEN "CAPTURED" ELSE c.payment,
                     attempts |-> AttemptsAfter(c, FactsAt(w).cycle)]
    BY <1>6 DEF Judged
  <2>2. Target[ThenAt(w)] \in CaseStatus
    BY <1>4 DEF Target, Disposition, CaseStatus, ActiveCase, TerminalCase
  <2>3. AttemptsAfter(c, FactsAt(w).cycle) \in Nat
    BY <1>1 DEF AttemptsAfter
  <2>4. "CAPTURED" \in PaymentStatus
    BY DEF PaymentStatus
  <2> HIDE DEF c
  <2> QED
    BY <1>1, <1>4, <1>6, <2>1, <2>2, <2>3, <2>4 DEF Copies, Standing, Pays, c
<1> QED
  BY <1>5, <1>6

\* What a call learns is reported, and its history holds dispatches.
LEMMA LearnedFacts ==
  ASSUME CycleTypeOK, CallsAreReported, OutcomesAreReported,
         NEW w \in Worker, pc[w] # "idle", Learns(w)
  PROVE  /\ outcomes' \in [Report -> OutcomeType \cup {Nothing}]
         /\ history' \in Seq(DOMAIN executions)
         /\ \A r \in Report : outcomes'[r] = IF r = call[w].report THEN OutcomeAt(w) ELSE outcomes[r]
         /\ \A r \in Report : /\ outcomes'[r] # Nothing => IsReported(r)
                              /\ outcomes'[r] = "FAILED" => IsFailure(r)
<1>1. /\ call[w].report \in Report /\ IsReported(call[w].report)
      /\ call[w].report.of \in DOMAIN executions
  BY CallFacts, ReportedFacts
<1>2. OutcomeAt(w) \in OutcomeType /\ (OutcomeAt(w) = "FAILED" => IsFailure(call[w].report))
  BY OutcomesOfReports
<1>3. outcomes \in [Report -> OutcomeType \cup {Nothing}] /\ history \in Seq(DOMAIN executions)
  BY DEF CycleTypeOK
<1>4. outcomes' = [outcomes EXCEPT ![call[w].report] = OutcomeAt(w)]
  BY DEF Learns
<1>5. history' \in Seq(DOMAIN executions)
  <2>1. Append(history, call[w].report.of) \in Seq(DOMAIN executions)
    BY <1>1, <1>3
  <2>2. history' \in {history, Append(history, call[w].report.of)}
    BY DEF Learns, HistoryAt
  <2> QED
    BY <1>3, <2>1, <2>2
<1> QED
  BY <1>1, <1>2, <1>3, <1>4, <1>5 DEF OutcomesAreReported

-----------------------------------------------------------------------------
(***************************************************************************)
(* Steps that dispatch nothing: a call begins, or ends while it waits.     *)
(***************************************************************************)
LEMMA CallIsNotNoCall == NoCall \notin Call
<1> SUFFICES ASSUME NoCall \in Call PROVE FALSE
  OBVIOUS
<1>1. NoCall.report \in Report
  BY DEF Call
<1>2. NoCall.report.of = 0
  BY DEF NoCall, NoReport
<1> QED
  BY <1>1, <1>2 DEF Report

LEMMA BeginStep ==
  ASSUME CoreInv, NEW w \in Worker, NEW r \in Report, Submit(w, r)
  PROVE  CoreInv'
<1>0. CycleTypeOK
  BY DEF CoreInv
<1>1. /\ pc[w] = "idle" /\ IsReported(r) /\ calls < MaxCalls /\ calls' = calls + 1
      /\ pc' = [pc EXCEPT ![w] = "waiting"]
      /\ call' = [call EXCEPT ![w] = [report |-> r, case |-> held]]
      /\ UNCHANGED <<held, executions, history, outcomes, cancels>>
      /\ overlapped' \in BOOLEAN
  BY <1>0 DEF Submit, CycleTypeOK
<1>2. [report |-> r, case |-> held] \in Call
  BY <1>0 DEF CycleTypeOK, Call
<1>3. /\ pc'[w] = "waiting"
      /\ \A x \in Worker \ {w} : pc'[x] = pc[x] /\ call'[x] = call[x]
  BY <1>0, <1>1 DEF CycleTypeOK
<1>4. /\ call'[w] = [report |-> r, case |-> held]
      /\ \A x \in Worker : pc'[x] \in Position
  BY <1>0, <1>1, <1>3 DEF CycleTypeOK, Position
<1>5. CycleTypeOK'
  <2>1. calls' \in 0..MaxCalls
    BY <1>0, <1>1, CycleAssumption DEF CycleTypeOK
  <2>2. \A x \in Worker : pc'[x] = "idle" <=> call'[x] = NoCall
    BY <1>0, <1>2, <1>3, <1>4, CallIsNotNoCall DEF CycleTypeOK
  <2> QED
    BY <1>0, <1>1, <1>2, <2>1, <2>2 DEF CycleTypeOK, Position
<1>6. LockIsExclusive' /\ OnlyTheLastRuns'
  BY <1>1, <1>3 DEF CoreInv, LockIsExclusive, OnlyTheLastRuns
<1>7. CallsAreReported' /\ OutcomesAreReported' /\ CausesAreReported'
  <2>1. OutcomesAreReported' /\ CausesAreReported'
    BY <1>1
       DEF CoreInv, OutcomesAreReported, CausesAreReported, IsReported, IsFailure, Passes
  <2>2. call'[w].report = r
    BY <1>4
  <2>3. CallsAreReported'
    BY <1>1, <1>3, <2>2 DEF CoreInv, CallsAreReported, IsReported, Passes
  <2> QED
    BY <2>1, <2>3
<1>8. PaymentsStand'
  BY <1>1, <1>3, <1>4 DEF CoreInv, PaymentsStand
<1>9. KeysDispatchedOnce' /\ OnlyFailuresLeadOn' /\ RetriesEndInTime'
  BY <1>1 DEF CoreInv, KeysDispatchedOnce, OnlyFailuresLeadOn, RetriesEndInTime, Key
<1> QED
  BY <1>5, <1>6, <1>7, <1>8, <1>9 DEF CoreInv

\* A call ends while it waits, with what it has learned or without.
LEMMA EndStep ==
  ASSUME CoreInv, NEW w \in Worker, pc[w] = "waiting", Ends(w), executions' = executions,
         held' \in Copies, held'.payment \in Standing,
         Learns(w) \/ UNCHANGED <<history, outcomes>>,
         cancels' \in 0..MaxCancels
  PROVE  CoreInv'
<1>0. CycleTypeOK /\ CallsAreReported /\ OutcomesAreReported
  BY DEF CoreInv
<1>1. /\ pc' = [pc EXCEPT ![w] = "idle"] /\ call' = [call EXCEPT ![w] = NoCall]
      /\ UNCHANGED <<executions, overlapped, calls>>
  BY DEF Ends
<1>2. /\ pc'[w] = "idle" /\ call'[w] = NoCall
      /\ \A x \in Worker \ {w} : pc'[x] = pc[x] /\ call'[x] = call[x]
  BY <1>0, <1>1 DEF CycleTypeOK
<1>3. /\ outcomes' \in [Report -> OutcomeType \cup {Nothing}]
      /\ history' \in Seq(DOMAIN executions)
      /\ \A r \in Report : /\ outcomes'[r] # Nothing => IsReported(r)
                           /\ outcomes'[r] = "FAILED" => IsFailure(r)
  <2>1. CASE UNCHANGED <<history, outcomes>>
    BY <1>0, <2>1 DEF CycleTypeOK, OutcomesAreReported
  <2>2. CASE Learns(w)
    BY <1>0, <2>2, LearnedFacts
  <2> QED
    BY <2>1, <2>2
<1>4. CycleTypeOK'
  <2>1. pc' \in [Worker -> Position] /\ call' \in [Worker -> Call \cup {NoCall}]
    BY <1>0, <1>1 DEF CycleTypeOK, Position
  <2> QED
    BY <1>0, <1>1, <1>2, <1>3, <2>1 DEF CycleTypeOK
<1>5. LockIsExclusive' /\ OnlyTheLastRuns'
  BY <1>1, <1>2 DEF CoreInv, LockIsExclusive, OnlyTheLastRuns
<1>6. CallsAreReported' /\ CausesAreReported'
  BY <1>1, <1>2 DEF CoreInv, CallsAreReported, CausesAreReported, IsReported, Passes
<1>7. OutcomesAreReported'
  BY <1>1, <1>3 DEF OutcomesAreReported, IsReported, IsFailure, Passes
<1>8. PaymentsStand'
  BY <1>1, <1>2 DEF CoreInv, PaymentsStand
<1>9. KeysDispatchedOnce' /\ OnlyFailuresLeadOn' /\ RetriesEndInTime'
  BY <1>1 DEF CoreInv, KeysDispatchedOnce, OnlyFailuresLeadOn, RetriesEndInTime, Key
<1> QED
  BY <1>4, <1>5, <1>6, <1>7, <1>8, <1>9 DEF CoreInv

-----------------------------------------------------------------------------
(***************************************************************************)
(* Steps that dispatch, or settle what was dispatched.                     *)
(***************************************************************************)
\* What the decision engine chooses is eligible.
LEMMA BestExists ==
  ASSUME NEW x \in Features, NEW forecast \in Forecast
  PROVE  \E a \in Action : Eligible(x, a) /\ Value(forecast, a) = Best(x, forecast)
<1> DEFINE E == {a \in Action : Eligible(x, a)}
           V(a) == Value(forecast, a)
<1>1. \A a \in Action : V(a) \in Int
  BY DecisionAssumption DEF Value, Forecast
<1>2. Action = {"RETRY", "PAYMENT_LINK", "OUTREACH", "STOP", "ESCALATE"}
  BY DEF Action, ActiveAction
<1>3. "STOP" \in E
  BY DEF Eligible, Action, ActiveAction
<1>4. \E a \in E : \A b \in E : V(b) <= V(a)
  <2> HIDE DEF V
  <2> QED
    BY <1>1, <1>2, <1>3
<1>5. PICK a \in E : \A b \in E : V(b) <= V(a)
  BY <1>4
<1>6. Best(x, forecast) \in {V(b) : b \in E} 
  BY <1>5 DEF Best
<1> QED
  BY <1>6

LEMMA WinnerIsEligible ==
  ASSUME NEW x \in Features, NEW forecast \in Forecast
  PROVE  /\ Winner(x, forecast) \in Action /\ Eligible(x, Winner(x, forecast))
         /\ Best(x, forecast) - Value(forecast, Winner(x, forecast)) <= Tolerance
<1> DEFINE tied == {a \in Action : /\ Eligible(x, a)
                                   /\ Best(x, forecast) - Value(forecast, a) <= Tolerance}
<1>1. PICK a \in Action : Eligible(x, a) /\ Value(forecast, a) = Best(x, forecast)
  BY BestExists
<1>2. Value(forecast, a) \in Int /\ Tolerance \in Nat
  BY DecisionAssumption DEF Value, Forecast
<1>3. a \in tied
  BY <1>1, <1>2
<1>4. \A b \in Action : TieRank[b] \in Nat
  BY DEF Action, ActiveAction, TieRank
<1>5. Action = {"RETRY", "PAYMENT_LINK", "OUTREACH", "STOP", "ESCALATE"}
  BY DEF Action, ActiveAction
<1>6. \E c \in tied : \A b \in tied : TieRank[c] <= TieRank[b]
  <2> HIDE DEF tied
  <2>1. tied \subseteq Action
    BY DEF tied
  <2> QED
    BY <1>3, <1>4, <1>5, <2>1
<1>7. Winner(x, forecast) \in tied
  BY <1>6 DEF Winner
<1> QED
  BY <1>7

LEMMA BestIsGreatest ==
  ASSUME NEW x \in Features, NEW forecast \in Forecast
  PROVE  \A a \in Action : Eligible(x, a) => Value(forecast, a) <= Best(x, forecast)
<1> DEFINE E == {a \in Action : Eligible(x, a)}
           V(a) == Value(forecast, a)
<1>1. \A a \in Action : V(a) \in Int
  BY DecisionAssumption DEF Value, Forecast
<1>2. Action = {"RETRY", "PAYMENT_LINK", "OUTREACH", "STOP", "ESCALATE"}
  BY DEF Action, ActiveAction
<1>3. "STOP" \in E
  BY DEF Eligible, Action, ActiveAction
<1>4. \E a \in E : \A b \in E : V(b) <= V(a)
  <2> HIDE DEF V
  <2> QED
    BY <1>1, <1>2, <1>3
<1>5. \E v \in {V(a) : a \in E} : \A a \in E : V(a) <= v
  BY <1>4
<1>6. \A a \in E : V(a) <= Best(x, forecast)
  BY <1>5 DEF Best
<1> QED
  BY <1>6

(***************************************************************************)
(* An action that is decided on is eligible, worth no less than any other  *)
(* that is by more than the tolerance, and so no less than the threshold   *)
(* by more than that; and no action is decided on only if none of the      *)
(* eligible ones reaches the threshold (decision/engine.py,                *)
(* decision/eligibility.py).                                               *)
(***************************************************************************)
THEOREM DecisionsAreNearlyBest ==
  ASSUME NEW x \in Features, NEW forecast \in Forecast, NEW d, d = Decide(x, forecast)
  PROVE  /\ d.action = NoAction =>
              \A a \in Action : Eligible(x, a) => Value(forecast, a) < MinValue
         /\ d.action # NoAction =>
              /\ d.action \in Action /\ Eligible(x, d.action)
              /\ d.value = Value(forecast, d.action)
              /\ d.value >= MinValue - Tolerance
              /\ \A a \in Action : Eligible(x, a) => Value(forecast, a) - d.value <= Tolerance
<1> DEFINE best == Best(x, forecast)
           w == Winner(x, forecast)
<1>1. /\ MinValue \in Int /\ Tolerance \in Nat
      /\ \A a \in Action : Value(forecast, a) \in Int
  BY DecisionAssumption DEF Value, Forecast
<1>2. best \in Int
  BY <1>1, BestExists
<1>3. \A a \in Action : Eligible(x, a) => Value(forecast, a) <= best
  BY BestIsGreatest
<1>4. w \in Action /\ Eligible(x, w) /\ best - Value(forecast, w) <= Tolerance
  BY WinnerIsEligible
<1>5. w # NoAction
  BY <1>4 DEF NoAction, Action, ActiveAction
<1> HIDE DEF best, w
<1>6. CASE best < MinValue
  <2>1. d.action = NoAction
    BY <1>6 DEF Decide, best
  <2>2. ASSUME NEW a \in Action, Eligible(x, a)
        PROVE  Value(forecast, a) < MinValue
    BY <1>1, <1>2, <1>3, <1>6, <2>2
  <2> QED
    BY <2>1, <2>2
<1>7. CASE ~ (best < MinValue)
  <2>1. d.action = w /\ d.value = Value(forecast, w)
    BY <1>7 DEF Decide, best, w
  <2>2. Value(forecast, w) \in Int
    BY <1>1, <1>4
  <2>3. Value(forecast, w) >= MinValue - Tolerance
    BY <1>1, <1>2, <1>4, <1>7, <2>2
  <2>4. ASSUME NEW a \in Action, Eligible(x, a)
        PROVE  Value(forecast, a) - Value(forecast, w) <= Tolerance
    <3>1. Value(forecast, a) \in Int /\ Value(forecast, a) <= best
      BY <1>1, <1>3, <2>4
    <3> QED
      BY <1>1, <1>2, <1>4, <2>2, <3>1
  <2> QED
    BY <1>4, <1>5, <2>1, <2>3, <2>4
<1> QED
  BY <1>6, <1>7

\* The decision that leads to a dispatch.
LEMMA DecidedFacts ==
  ASSUME NEW x \in Features, NEW forecast \in Forecast,
         Decide(x, forecast).action # NoAction
  PROVE  /\ Decide(x, forecast).action \in Action
         /\ Decide(x, forecast).action = "RETRY" => x.attempts < RetryLimit
  BY WinnerIsEligible DEF Decide, Eligible

FailsNow(r) ==
  \/ r.as \in {"failed", "failed, unattributed"}
  \/ r.as = "result" /\ executions'[r.of].status = "FAILED"

\* Reports of what has ended stand, whatever runs is told to be.
ReportsHold ==
  \A i \in DOMAIN executions :
    /\ i \in DOMAIN executions'
    /\ executions[i].status \in Answered => executions'[i] = executions[i]
    /\ executions'[i].cause = executions[i].cause

LEMMA ReportsStand ==
  ASSUME CoreInv, ReportsHold
  PROVE  \A r : IsReported(r) => /\ IsReported(r)'
                                 /\ IsFailure(r) => IsFailure(r)'
                                 /\ r.of \in DOMAIN executions'
                                 /\ Passes(r) => executions'[r.of].status \in Answered
  BY DEF ReportsHold, IsReported, IsFailure, Passes, Answered

\* The work that is under way: one step dispatches it, one settles it.
LEMMA DispatchStep ==
  ASSUME CoreInv, NEW w \in Worker, MayRun(w), ~ RefusesOutcome(w),
         OutcomeAt(w) = "FAILED", Learns(w), NEW case \in Copies,
         case.payment \in Standing,
         NEW action \in Action, NEW attempt \in Nat, Dispatch(w, case, <<action, attempt>>),
         action = "RETRY" => FactsAt(w).cycle + 1 < RetryLimit,
         UNCHANGED cancels
  PROVE  CoreInv'
<1> DEFINE x == [action |-> action, attempt |-> attempt, cycle |-> FactsAt(w).cycle + 1,
                 cause |-> call[w].report, status |-> "RUNNING"]
           n == Len(executions)
<1>0. CycleTypeOK /\ CallsAreReported /\ OutcomesAreReported /\ pc[w] = "waiting"
  BY DEF CoreInv, MayRun
<1>1. /\ call[w].report \in Report /\ IsReported(call[w].report) /\ IsFailure(call[w].report)
      /\ FactsAt(w).cycle \in Nat
  BY <1>0, CallFacts, OutcomesOfReports
<1>2. /\ executions' = Append(executions, x)
      /\ pc' = [pc EXCEPT ![w] = "dispatching"]
      /\ call' = [call EXCEPT ![w].case = case]
      /\ UNCHANGED <<held, overlapped, calls, cancels>>
  BY DEF Dispatch
<1>3. x \in Dispatched
  BY <1>1 DEF Dispatched
<1>4. executions \in Seq(Dispatched) /\ n \in Nat /\ DOMAIN executions = 1..n
  BY <1>0 DEF CycleTypeOK
<1> HIDE DEF n
<1>5. /\ executions' \in Seq(Dispatched) /\ DOMAIN executions' = 1..(n + 1)
      /\ Len(executions') = n + 1 /\ executions'[n + 1] = x
      /\ \A i \in 1..n : executions'[i] = executions[i]
  BY <1>2, <1>3, <1>4 DEF n
<1>6. /\ pc'[w] = "dispatching"
      /\ \A y \in Worker \ {w} : pc'[y] = pc[y] /\ call'[y] = call[y] /\ pc[y] # "dispatching"
  BY <1>0, <1>2 DEF CycleTypeOK, MayRun
<1>7. call'[w] = [report |-> call[w].report, case |-> case] /\ call'[w] \in Call
  <2>1. call[w] \in Call
    BY <1>0 DEF CycleTypeOK
  <2> QED
    BY <1>0, <1>2, <2>1 DEF CycleTypeOK, Call
<1>8. /\ outcomes' \in [Report -> OutcomeType \cup {Nothing}]
      /\ history' \in Seq(DOMAIN executions)
      /\ \A r \in Report : /\ outcomes'[r] # Nothing => IsReported(r)
                           /\ outcomes'[r] = "FAILED" => IsFailure(r)
  BY <1>0, LearnedFacts
<1>9. CycleTypeOK'
  <2>1. pc' \in [Worker -> Position] /\ call' \in [Worker -> Call \cup {NoCall}]
    BY <1>0, <1>2, <1>6, <1>7 DEF CycleTypeOK, Position
  <2>2. history' \in Seq(DOMAIN executions')
    BY <1>4, <1>5, <1>8
  <2>3. \A y \in Worker : pc'[y] = "idle" <=> call'[y] = NoCall
    BY <1>0, <1>6, <1>7, CallIsNotNoCall DEF CycleTypeOK
  <2> QED
    BY <1>0, <1>2, <1>5, <1>8, <2>1, <2>2, <2>3 DEF CycleTypeOK
<1>10. \A i \in 1..n : executions[i].status # "RUNNING"
  BY <1>0, <1>4, <1>6 DEF CoreInv, OnlyTheLastRuns, n
<1>11. LockIsExclusive' /\ OnlyTheLastRuns'
  <2>1. executions' # <<>>
    BY <1>4, <1>5
  <2> QED
    BY <1>4, <1>5, <1>6, <1>10, <2>1 DEF LockIsExclusive, OnlyTheLastRuns
<1>12. ReportsHold
  BY <1>4, <1>5 DEF ReportsHold
<1>13. \A r : IsReported(r) => /\ IsReported(r)'
                               /\ IsFailure(r) => IsFailure(r)'
                               /\ r.of \in DOMAIN executions'
                               /\ Passes(r) => executions'[r.of].status \in Answered
  BY <1>12, ReportsStand
<1>14. CallsAreReported' /\ OutcomesAreReported' /\ CausesAreReported'
  <2>1. call'[w].report = call[w].report
    BY <1>7
  <2>2. CallsAreReported'
    BY <1>0, <1>1, <1>6, <1>13, <2>1 DEF CallsAreReported, IsReported, Passes
  <2>3. OutcomesAreReported'
    BY <1>8, <1>13 DEF OutcomesAreReported, Nothing
  <2>4. CausesAreReported'
    BY <1>1, <1>4, <1>5, <1>13 DEF CoreInv, CausesAreReported, IsReported, Passes
  <2> QED
    BY <2>2, <2>3, <2>4
<1>15. PaymentsStand'
  <2>1. call'[w].case = case
    BY <1>7
  <2> QED
    BY <1>2, <1>6, <2>1 DEF CoreInv, PaymentsStand
<1>16. KeysDispatchedOnce'
  <2>1. \A i \in 1..n : Key(executions[i]) = <<action, attempt>> => executions[i].status = "LOST"
    <3>1. ASSUME NEW i \in 1..n, Key(executions[i]) = <<action, attempt>>
          PROVE  executions[i].status = "LOST"
      <4>1. executions[i].status \notin Answered
        BY <1>4, <3>1 DEF Dispatch, Kept
      <4>2. executions[i] \in Dispatched
        BY <1>4
      <4> QED
        BY <1>10, <4>1, <4>2 DEF Dispatched
    <3> QED
      BY <3>1
  <2>2. Key(x) = <<action, attempt>>
    BY DEF Key
  <2>3. \A i \in 1..n, j \in 1..n : i < j /\ Key(executions[i]) = Key(executions[j])
          => executions[i].status = "LOST"
    BY <1>4 DEF CoreInv, KeysDispatchedOnce
  <2> HIDE DEF x
  <2> QED
    BY <1>4, <1>5, <2>1, <2>2, <2>3 DEF KeysDispatchedOnce, Key
<1>17. OnlyFailuresLeadOn'
  <2>1. executions'[n + 1].cause = call[w].report
    BY <1>5
  <2>2. PICK r : r = call[w].report
    OBVIOUS
  <2>3. IsFailure(r)'
    BY <1>1, <1>13, <2>2
  <2>4. ASSUME NEW i \in 1..n
        PROVE  executions'[i].cause = NoReport \/ FailsNow(executions'[i].cause)
    <3>1. PICK q : q = executions[i].cause
      OBVIOUS
    <3>2. q = NoReport \/ (IsReported(q) /\ IsFailure(q))
      BY <1>4, <3>1 DEF CoreInv, CausesAreReported, OnlyFailuresLeadOn, IsFailure
    <3> QED
      BY <1>5, <1>13, <3>1, <3>2 DEF IsFailure, FailsNow
  <2>5. FailsNow(executions'[n + 1].cause)
    BY <2>1, <2>2, <2>3 DEF IsFailure, FailsNow
  <2>6. \A i \in 1..(n + 1) : executions'[i].cause = NoReport \/ FailsNow(executions'[i].cause)
    BY <1>4, <2>4, <2>5
  <2> QED
    BY <1>5, <2>6 DEF OnlyFailuresLeadOn, FailsNow
<1>18. RetriesEndInTime'
  BY <1>4, <1>5 DEF CoreInv, RetriesEndInTime
<1> QED
  BY <1>9, <1>11, <1>14, <1>15, <1>16, <1>17, <1>18 DEF CoreInv

\* What was dispatched is settled: it is answered, or its result is lost.
LEMMA SettleStep ==
  ASSUME CoreInv, NEW w \in Worker, pc[w] = "dispatching",
         NEW status \in Answered \cup {"LOST"},
         executions' = [executions EXCEPT ![Running].status = status],
         Ends(w), held' \in Copies, held'.payment \in Standing,
         UNCHANGED <<history, outcomes>>, cancels' \in 0..MaxCancels
  PROVE  CoreInv'
<1> DEFINE n == Len(executions)
<1>0. CycleTypeOK
  BY DEF CoreInv
<1>1. executions \in Seq(Dispatched) /\ n \in Nat /\ DOMAIN executions = 1..n
  BY <1>0 DEF CycleTypeOK
<1>2. n \in 1..n /\ executions[n].status = "RUNNING"
  BY <1>1 DEF CoreInv, OnlyTheLastRuns
<1>3. Running = n
  BY <1>1, <1>2 DEF Running, CoreInv, OnlyTheLastRuns
<1> HIDE DEF n
<1>4. /\ executions' = [executions EXCEPT ![n].status = status]
      /\ DOMAIN executions' = 1..n
      /\ \A i \in 1..n : i # n => executions'[i] = executions[i]
      /\ executions'[n] = [executions[n] EXCEPT !.status = status]
  BY <1>1, <1>2, <1>3
<1>5. executions[n] \in Dispatched
  BY <1>1, <1>2
<1>6. /\ executions'[n] \in Dispatched /\ executions'[n].status = status
      /\ \A i \in 1..n : /\ executions'[i].action = executions[i].action
                         /\ executions'[i].attempt = executions[i].attempt
                         /\ executions'[i].cycle = executions[i].cycle
                         /\ executions'[i].cause = executions[i].cause
  BY <1>4, <1>5 DEF Dispatched
<1>7. executions' \in Seq(Dispatched) /\ Len(executions') = n
  <2>1. PICK e \in Dispatched : e = executions'[n]
    BY <1>6
  <2>2. executions' = [executions EXCEPT ![n] = e]
    BY <1>1, <1>2, <1>4, <2>1
  <2>3. n \in 1..Len(executions)
    BY <1>2 DEF n
  <2>4. /\ [executions EXCEPT ![n] = e] \in Seq(Dispatched)
        /\ Len([executions EXCEPT ![n] = e]) = Len(executions)
    BY <1>1, <2>3, ExceptSeq
  <2> QED
    BY <2>2, <2>4 DEF n
<1>8. /\ pc' = [pc EXCEPT ![w] = "idle"] /\ call' = [call EXCEPT ![w] = NoCall]
      /\ UNCHANGED <<overlapped, calls>>
  BY DEF Ends
<1>9. /\ pc'[w] = "idle" /\ call'[w] = NoCall
      /\ \A x \in Worker \ {w} : pc'[x] = pc[x] /\ call'[x] = call[x] /\ pc[x] # "dispatching"
  BY <1>0, <1>8 DEF CycleTypeOK, CoreInv, LockIsExclusive
<1>10. CycleTypeOK'
  <2>1. pc' \in [Worker -> Position] /\ call' \in [Worker -> Call \cup {NoCall}]
    BY <1>0, <1>8 DEF CycleTypeOK, Position
  <2>2. history' \in Seq(DOMAIN executions')
    BY <1>0, <1>1, <1>4 DEF CycleTypeOK
  <2> QED
    BY <1>0, <1>7, <1>8, <1>9, <2>1, <2>2 DEF CycleTypeOK
<1>11. LockIsExclusive' /\ OnlyTheLastRuns'
  <2>1. executions' # <<>> /\ status # "RUNNING"
    BY <1>1, <1>2, <1>7 DEF Answered
  <2>2. \A i \in 1..n : executions'[i].status # "RUNNING"
    BY <1>1, <1>4, <1>6, <2>1 DEF CoreInv, OnlyTheLastRuns, n
  <2> QED
    BY <1>2, <1>4, <1>7, <1>9, <2>1, <2>2 DEF LockIsExclusive, OnlyTheLastRuns
<1>12. ReportsHold
  BY <1>1, <1>2, <1>4, <1>6 DEF ReportsHold, Answered
<1>13. \A r : IsReported(r) => /\ IsReported(r)'
                               /\ IsFailure(r) => IsFailure(r)'
                               /\ r.of \in DOMAIN executions'
                               /\ Passes(r) => executions'[r.of].status \in Answered
  BY <1>12, ReportsStand
<1>14. CallsAreReported' /\ OutcomesAreReported' /\ CausesAreReported'
  <2>1. CallsAreReported'
    BY <1>9, <1>13 DEF CoreInv, CallsAreReported, IsReported, Passes
  <2>2. OutcomesAreReported'
    BY <1>13 DEF CoreInv, OutcomesAreReported, Nothing
  <2>3. CausesAreReported'
    BY <1>1, <1>4, <1>6, <1>13 DEF CoreInv, CausesAreReported, IsReported, Passes
  <2> QED
    BY <2>1, <2>2, <2>3
<1>15. PaymentsStand'
  BY <1>9 DEF CoreInv, PaymentsStand
<1>16. KeysDispatchedOnce'
  <2>1. \A i \in 1..n, j \in 1..n : i < j => executions'[i] = executions[i]
    <3>1. n \in Nat
      BY <1>1
    <3> QED
      BY <1>4, <3>1
  <2>2. \A i \in 1..n : Key(executions'[i]) = Key(executions[i])
    BY <1>6 DEF Key
  <2>3. \A i \in 1..n, j \in 1..n :
          i < j /\ Key(executions[i]) = Key(executions[j]) => executions[i].status = "LOST"
    BY <1>1 DEF CoreInv, KeysDispatchedOnce
  <2>4. \A i \in 1..n, j \in 1..n :
          i < j /\ Key(executions'[i]) = Key(executions'[j]) => executions'[i].status = "LOST"
    BY <2>1, <2>2, <2>3
  <2> QED
    BY <1>4, <2>4 DEF KeysDispatchedOnce, Key
<1>17. OnlyFailuresLeadOn'
  <2>1. ASSUME NEW i \in 1..n
        PROVE  executions'[i].cause = NoReport \/ FailsNow(executions'[i].cause)
    <3>1. PICK q : q = executions[i].cause
      OBVIOUS
    <3>2. q = NoReport \/ (IsReported(q) /\ IsFailure(q))
      BY <1>1, <3>1 DEF CoreInv, CausesAreReported, OnlyFailuresLeadOn, IsFailure
    <3>3. executions'[i].cause = q
      BY <1>6, <3>1
    <3>4. q = NoReport \/ IsFailure(q)'
      BY <1>13, <3>2
    <3> QED
      BY <3>3, <3>4 DEF IsFailure, FailsNow
  <2> QED
    BY <1>4, <2>1 DEF OnlyFailuresLeadOn, FailsNow
<1>18. RetriesEndInTime'
  BY <1>1, <1>4, <1>6 DEF CoreInv, RetriesEndInTime
<1> QED
  BY <1>10, <1>11, <1>14, <1>15, <1>16, <1>17, <1>18 DEF CoreInv

-----------------------------------------------------------------------------
(***************************************************************************)
(* A call that evaluates its case again.                                   *)
(***************************************************************************)
LEMMA ReevaluationFacts ==
  ASSUME CoreInv, NEW w \in Worker, pc[w] # "idle", ~ RefusesOutcome(w),
         ThenAt(w) = "RE_EVALUATE"
  PROVE  /\ OutcomeAt(w) = "FAILED"
         /\ call[w].case.payment \in {"FAILED", "PENDING"}
         /\ call[w].case.attempts < MaxAttempts
         /\ Judged(w).payment = call[w].case.payment
         /\ ~ IsDuplicate(w) => Judged(w).status = "EVALUATING"
<1>0. CycleTypeOK /\ CallsAreReported /\ OutcomesAreReported /\ PaymentsStand
  BY DEF CoreInv
<1>1. /\ call[w].case \in Copies /\ call[w].case.attempts \in Nat /\ MaxAttempts \in Nat
      /\ call[w].case.payment \in Standing
  BY <1>0, CallFacts, BoundAssumption DEF Copies, PaymentsStand
<1>2. OutcomeAt(w) \in OutcomeType
  BY <1>0, OutcomesOfReports
<1>3. /\ OutcomeAt(w) = "FAILED"
      /\ call[w].case.payment # "CAPTURED"
      /\ AfterFailure(call[w].case, 0) = "RE_EVALUATE"
  BY <1>2 DEF ThenAt, Resolve, Raises, OutcomeType
<1>4. call[w].case.attempts < MaxAttempts
  BY <1>1, <1>3 DEF AfterFailure
<1>5. Judged(w).payment = call[w].case.payment
  BY <1>0, <1>3, JudgedFacts
<1>6. ~ IsDuplicate(w) => Judged(w).status = "EVALUATING"
  BY DEF Judged, Target
<1> QED
  BY <1>1, <1>3, <1>4, <1>5, <1>6 DEF Standing

\* Where policy and guard leave the case.
LEMMA MovedFacts ==
  ASSUME NEW w \in Worker, Judged(w) \in Copies, NEW status \in CaseStatus
  PROVE  /\ AtPolicyCheck(w) \in Copies /\ MovedTo(w, status) \in Copies
         /\ AtPolicyCheck(w).payment = Judged(w).payment
         /\ AtPolicyCheck(w).attempts = Judged(w).attempts
         /\ MovedTo(w, status).payment = Judged(w).payment
         /\ MovedTo(w, status).attempts = Judged(w).attempts
         /\ Judged(w).status = "EVALUATING" => MovedTo(w, status).status = status
<1>1. "POLICY_CHECK" \in CaseStatus
  BY DEF CaseStatus, ActiveCase
<1> QED
  BY <1>1 DEF AtPolicyCheck, MovedTo, Copies

LEMMA HaltedFacts ==
  ASSUME NEW w \in Worker, Judged(w) \in Copies, NEW d, NEW now
  PROVE  /\ Halted(w, d, now) \in Copies
         /\ Halted(w, d, now).payment = Judged(w).payment
         /\ Halted(w, d, now).attempts = Judged(w).attempts
<1>1. "ESCALATED" \in CaseStatus /\ "STOPPED" \in CaseStatus
  BY DEF CaseStatus, TerminalCase
<1> QED
  BY <1>1, MovedFacts DEF Halted

LEMMA FeaturesType ==
  ASSUME NEW w \in Worker, FactsAt(w).cycle \in Nat, NEW forecast \in Forecasts
  PROVE  /\ forecast \in Forecast
         /\ FeaturesAt(w, forecast) \in Features
         /\ FeaturesAt(w, forecast).attempts = FactsAt(w).cycle + 1
<1>1. forecast \in Forecast /\ Amount \in Nat /\ Recoveries \in Nat
  BY CycleAssumption
<1>2. forecast.retryable \in BOOLEAN
  BY <1>1 DEF Forecast
<1> QED
  BY <1>1, <1>2 DEF FeaturesAt, Features

\* The result of a call: an error leaves the caller with what it had.
LEMMA ResultFacts ==
  ASSUME NEW w \in Worker, NEW case \in Copies, NEW status, ReturnsResult(w, case, status)
  PROVE  /\ Ends(w)
         /\ \/ held' = held
            \/ held' \in Copies /\ held'.payment = case.payment /\ held'.attempts = case.attempts
<1>1. "OBSERVING" \in CaseStatus
  BY DEF CaseStatus, ActiveCase
<1> QED
  BY <1>1 DEF ReturnsResult, Returns, RaisesError, Copies

\* What a call does that evaluates its case again: it ends, or dispatches.
LEMMA ReevaluateEffect ==
  ASSUME CoreInv, NEW w \in Worker, Reevaluate(w)
  PROVE  /\ MayRun(w) /\ ~ RefusesOutcome(w) /\ ThenAt(w) = "RE_EVALUATE" /\ Learns(w)
         /\ Judged(w) \in Copies /\ Judged(w).payment \in Standing
         /\ UNCHANGED cancels
         /\ \/ /\ Ends(w) /\ executions' = executions
               /\ held' \in Copies
               /\ \/ held' = held /\ IsDuplicate(w)
                  \/ held'.payment = Judged(w).payment /\ held'.attempts = Judged(w).attempts
            \/ \E case \in Copies, action \in Action :
                 /\ case.payment = Judged(w).payment /\ case.attempts = Judged(w).attempts
                 /\ ~ IsDuplicate(w) => case.status = "ACTION_APPROVED"
                 /\ action = "RETRY" => FactsAt(w).cycle + 1 < RetryLimit
                 /\ MayRepeat(HistoryAt(w), action)
                 /\ Dispatch(w, case, <<action, Judged(w).attempts + 1>>)
<1>0. CycleTypeOK /\ CallsAreReported /\ OutcomesAreReported /\ PaymentsStand
  BY DEF CoreInv
<1>1. /\ MayRun(w) /\ ~ RefusesOutcome(w) /\ ThenAt(w) = "RE_EVALUATE" /\ Learns(w)
      /\ pc[w] # "idle" /\ UNCHANGED cancels
  BY DEF Reevaluate, MayRun
<1>2. PICK forecast \in Forecasts, now \in {0, Cooldown} :
        LET d == Decide(FeaturesAt(w, forecast), forecast) IN
        IF Passed(w, d, now)
          THEN Execute(w, MovedTo(w, "ACTION_APPROVED"), KeyAt(w, d))
          ELSE Halt(w, d, now)
  BY DEF Reevaluate
<1>3. PICK d : d = Decide(FeaturesAt(w, forecast), forecast)
  OBVIOUS
<1>4. PICK case : case = MovedTo(w, "ACTION_APPROVED")
  OBVIOUS
<1>5. /\ Judged(w) \in Copies /\ Judged(w).payment \in Standing
      /\ FactsAt(w).cycle \in Nat /\ held \in Copies
  BY <1>0, <1>1, JudgedFacts, CallFacts DEF CycleTypeOK
<1>6. /\ ~ IsDuplicate(w) => Judged(w).status = "EVALUATING"
      /\ Judged(w).payment \in {"FAILED", "PENDING"}
  BY <1>1, ReevaluationFacts
<1>7. "ACTION_APPROVED" \in CaseStatus
  BY DEF CaseStatus, ActiveCase
<1>8. /\ case \in Copies
      /\ case.payment = Judged(w).payment /\ case.attempts = Judged(w).attempts
      /\ ~ IsDuplicate(w) => case.status = "ACTION_APPROVED"
  BY <1>4, <1>5, <1>6, <1>7, MovedFacts
<1>9. CASE ~ Passed(w, d, now)
  <2>1. held' = Halted(w, d, now) /\ Ends(w) /\ executions' = executions
    BY <1>2, <1>3, <1>9 DEF Halt, Returns
  <2> QED
    BY <1>1, <1>5, <2>1, HaltedFacts
<1>10. CASE Passed(w, d, now)
  <2>1. Execute(w, case, KeyAt(w, d)) /\ d.action # NoAction /\ MayRepeat(HistoryAt(w), d.action)
    BY <1>2, <1>3, <1>4, <1>10 DEF Passed
  <2>2. d.action \in Action /\ (d.action = "RETRY" => FactsAt(w).cycle + 1 < RetryLimit)
    BY <1>3, <1>5, <2>1, DecidedFacts, FeaturesType
  <2>3. CASE Reject(w, case)
    <3>1. held' = held /\ Ends(w) /\ executions' = executions
      BY <2>3 DEF Reject, RaisesError
    <3>2. IsDuplicate(w)
      BY <1>6, <1>8, <2>3 DEF Reject, Executable
    <3> QED
      BY <1>1, <1>5, <3>1, <3>2
  <2>4. CASE Reuse(w, case, KeyAt(w, d))
    <3>1. PICK i \in Kept(KeyAt(w, d)) : ReturnsResult(w, case, executions[i].status)
      BY <2>4 DEF Reuse
    <3>2. \/ held' = held /\ IsDuplicate(w)
          \/ held'.payment = case.payment /\ held'.attempts = case.attempts
      <4>1. ~ IsDuplicate(w) => MayMoveCase(case.payment, case.status, "EXECUTING")
        BY <1>6, <1>8
           DEF MayMoveCase, CaseMoves, CaseStatus, ActiveCase, TerminalCase, Progress
      <4> QED
        BY <1>8, <3>1, <4>1 DEF ReturnsResult, Returns, RaisesError, Copies
    <3> QED
      BY <1>1, <1>5, <1>8, <2>4, <3>1, <3>2, ResultFacts DEF Reuse
  <2>5. CASE Dispatch(w, case, KeyAt(w, d))
    <3>1. Dispatch(w, case, <<d.action, Judged(w).attempts + 1>>)
      BY <2>5 DEF KeyAt
    <3> QED
      BY <1>1, <1>5, <1>8, <2>1, <2>2, <3>1
  <2> QED
    BY <2>1, <2>3, <2>4, <2>5 DEF Execute
<1> QED
  BY <1>9, <1>10

-----------------------------------------------------------------------------
(***************************************************************************)
(* The inductive step of what holds however calls overlap.                 *)
(***************************************************************************)
\* A call ends while it waits, in each of the ways it may.
LEMMA RefuseStep ==
  ASSUME CoreInv, NEW w \in Worker, Refuse(w)
  PROVE  CoreInv'
<1>1. /\ pc[w] = "waiting" /\ Ends(w) /\ held' = held
      /\ UNCHANGED <<executions, history, outcomes, cancels>>
  BY DEF Refuse, MayRun, RaisesError
<1>2. held \in Copies /\ held.payment \in Standing /\ cancels \in 0..MaxCancels
  BY DEF CoreInv, CycleTypeOK, PaymentsStand
<1> QED
  BY <1>1, <1>2, EndStep

LEMMA ConcludeStep ==
  ASSUME CoreInv, NEW w \in Worker, Conclude(w)
  PROVE  CoreInv'
<1>1. /\ pc[w] = "waiting" /\ ~ RefusesOutcome(w) /\ Learns(w) /\ Ends(w)
      /\ held' = Judged(w) /\ UNCHANGED <<executions, cancels>>
  BY DEF Conclude, MayRun, Returns
<1>2. Judged(w) \in Copies /\ Judged(w).payment \in Standing /\ cancels \in 0..MaxCancels
  BY <1>1, JudgedFacts DEF CoreInv, CycleTypeOK
<1> QED
  BY <1>1, <1>2, EndStep

LEMMA ReevaluateStep ==
  ASSUME CoreInv, NEW w \in Worker, Reevaluate(w)
  PROVE  CoreInv'
<1>1. /\ MayRun(w) /\ pc[w] = "waiting" /\ ~ RefusesOutcome(w) /\ ThenAt(w) = "RE_EVALUATE"
      /\ Learns(w) /\ UNCHANGED cancels
      /\ Judged(w) \in Copies /\ Judged(w).payment \in Standing
  BY ReevaluateEffect DEF MayRun
<1>2. /\ held \in Copies /\ held.payment \in Standing /\ cancels \in 0..MaxCancels
  BY DEF CoreInv, CycleTypeOK, PaymentsStand
<1>3. CASE /\ Ends(w) /\ executions' = executions /\ held' \in Copies
           /\ \/ held' = held /\ IsDuplicate(w)
              \/ held'.payment = Judged(w).payment /\ held'.attempts = Judged(w).attempts
  <2>1. held'.payment \in Standing /\ cancels' \in 0..MaxCancels
    BY <1>1, <1>2, <1>3
  <2> QED
    BY <1>1, <1>3, <2>1, EndStep
<1>4. ASSUME NEW case \in Copies, NEW action \in Action,
             case.payment = Judged(w).payment,
             action = "RETRY" => FactsAt(w).cycle + 1 < RetryLimit,
             Dispatch(w, case, <<action, Judged(w).attempts + 1>>)
      PROVE  CoreInv'
  <2>1. OutcomeAt(w) = "FAILED"
    BY <1>1, ReevaluationFacts
  <2>2. Judged(w).attempts + 1 \in Nat /\ case.payment \in Standing
    BY <1>1, <1>4 DEF Copies
  <2> QED
    BY <1>1, <1>4, <2>1, <2>2, DispatchStep
<1> QED
  BY <1>3, <1>4, ReevaluateEffect

LEMMA AnswerStep ==
  ASSUME CoreInv, NEW w \in Worker, NEW status \in Answered, Answer(w, status)
  PROVE  CoreInv'
<1>1. /\ pc[w] = "dispatching" /\ ReturnsResult(w, call[w].case, status)
      /\ executions' = [executions EXCEPT ![Running].status = status]
      /\ UNCHANGED <<history, outcomes, cancels>>
  BY DEF Answer
<1>2. /\ held \in Copies /\ held.payment \in Standing /\ cancels \in 0..MaxCancels
      /\ call[w].case \in Copies /\ call[w].case.payment \in Standing
  BY <1>1, CallFacts DEF CoreInv, CycleTypeOK, PaymentsStand
<1>3. Ends(w) /\ held' \in Copies /\ held'.payment \in Standing
  BY <1>1, <1>2, ResultFacts
<1> QED
  BY <1>1, <1>2, <1>3, SettleStep

LEMMA CancelStep ==
  ASSUME CoreInv, NEW w \in Worker, Cancel(w)
  PROVE  CoreInv'
<1>1. /\ pc[w] # "idle" /\ cancels < MaxCancels /\ cancels' = cancels + 1
      /\ Ends(w) /\ held' = held /\ UNCHANGED <<history, outcomes>>
      /\ pc[w] = "dispatching" => executions' = [executions EXCEPT ![Running].status = "LOST"]
      /\ pc[w] # "dispatching" => executions' = executions
  BY DEF Cancel, RaisesError
<1>2. /\ held \in Copies /\ held.payment \in Standing /\ cancels \in 0..MaxCancels
      /\ pc[w] \in Position
  BY DEF CoreInv, CycleTypeOK, PaymentsStand
<1>3. cancels' \in 0..MaxCancels
  BY <1>1, <1>2, CycleAssumption
<1>4. CASE pc[w] = "dispatching"
  BY <1>1, <1>2, <1>3, <1>4, SettleStep
<1>5. CASE pc[w] = "waiting"
  BY <1>1, <1>2, <1>3, <1>5, EndStep
<1> QED
  BY <1>1, <1>2, <1>4, <1>5 DEF Position

LEMMA CoreStep == CoreInv /\ [Next]_vars => CoreInv'
<1> SUFFICES ASSUME CoreInv, [Next]_vars PROVE CoreInv'
  OBVIOUS
<1>1. CASE UNCHANGED vars
  BY <1>1
     DEF vars, CoreInv, CycleTypeOK, LockIsExclusive, OnlyTheLastRuns, CallsAreReported,
         OutcomesAreReported, CausesAreReported, PaymentsStand, KeysDispatchedOnce, Key,
         OnlyFailuresLeadOn, RetriesEndInTime, IsReported, IsFailure, Passes
<1> QED
  BY <1>1, BeginStep, RefuseStep, ConcludeStep, ReevaluateStep, AnswerStep, CancelStep DEF Next

LEMMA CoreInit == Init => CoreInv
<1> SUFFICES ASSUME Init PROVE CoreInv
  OBVIOUS
<1>1. PICK status \in Answered :
        executions = <<[action |-> FirstAction, attempt |-> 1, cycle |-> 1,
                        cause |-> NoReport, status |-> status]>>
  BY DEF Init
<1> DEFINE x == [action |-> FirstAction, attempt |-> 1, cycle |-> 1,
                 cause |-> NoReport, status |-> status]
<1>2. x \in Dispatched
  BY CycleAssumption DEF Dispatched, Action
<1>3. /\ executions \in Seq(Dispatched) /\ DOMAIN executions = {1} /\ Len(executions) = 1
      /\ executions # <<>> /\ executions[1] = x /\ executions[1].status = status
      /\ executions[1].cause = NoReport
  BY <1>1, <1>2
<1>4. /\ held \in Copies /\ held.payment \in Standing
  BY DEF Init, Copies, CaseStatus, ActiveCase, PaymentStatus, Standing
<1>5. CycleTypeOK
  <2>1. /\ history \in Seq(DOMAIN executions)
        /\ outcomes \in [Report -> OutcomeType \cup {Nothing}]
        /\ pc \in [Worker -> Position] /\ call \in [Worker -> Call \cup {NoCall}]
        /\ \A w \in Worker : pc[w] = "idle" <=> call[w] = NoCall
    BY DEF Init, Position
  <2>2. /\ overlapped \in BOOLEAN /\ calls \in 0..MaxCalls /\ cancels \in 0..MaxCancels
    <3>1. MaxCalls \in Nat /\ MaxCancels \in Nat
      BY CycleAssumption
    <3>2. overlapped = FALSE /\ calls = 0 /\ cancels = 0
      BY DEF Init
    <3>3. overlapped \in BOOLEAN
      BY <3>2
    <3>4. calls \in 0..MaxCalls /\ cancels \in 0..MaxCancels
      BY <3>1, <3>2
    <3> QED
      BY <3>3, <3>4
  <2> QED
    BY <1>3, <1>4, <2>1, <2>2 DEF CycleTypeOK
<1>6. LockIsExclusive /\ OnlyTheLastRuns
  BY <1>3 DEF Init, LockIsExclusive, OnlyTheLastRuns, Answered
<1>7. CallsAreReported /\ OutcomesAreReported /\ CausesAreReported /\ PaymentsStand
  BY <1>3, <1>4
     DEF Init, CallsAreReported, OutcomesAreReported, CausesAreReported, PaymentsStand, Nothing
<1>8. KeysDispatchedOnce /\ OnlyFailuresLeadOn /\ RetriesEndInTime
  <2>1. KeysDispatchedOnce
    BY <1>3 DEF KeysDispatchedOnce
  <2>2. OnlyFailuresLeadOn /\ RetriesEndInTime
    <3> HIDE DEF x
    <3> QED
      BY <1>3 DEF OnlyFailuresLeadOn, RetriesEndInTime
  <2> QED
    BY <2>1, <2>2
<1> QED
  BY <1>5, <1>6, <1>7, <1>8 DEF CoreInv

-----------------------------------------------------------------------------
(***************************************************************************)
(* What holds however calls overlap, are cancelled, or repeat a report.    *)
(***************************************************************************)
\* The inductive invariant of the loop, for any number of overlapping calls.
THEOREM CycleInvariant == Spec => []CoreInv
  BY CoreInit, CoreStep, PTL DEF Spec

\* Dispatches, memories and calls keep their types (recovery_loop/controller.py).
THEOREM CycleTypes == Spec => []CycleTypeOK
<1>1. CoreInv => CycleTypeOK
  BY DEF CoreInv
<1> QED
  BY <1>1, CycleInvariant, PTL

\* A key is dispatched again only when its last dispatch was lost
\* (execution/orchestrator.py:154-170).
THEOREM KeysAreDispatchedOnce == Spec => []KeysDispatchedOnce
<1>1. CoreInv => KeysDispatchedOnce
  BY DEF CoreInv
<1> QED
  BY <1>1, CycleInvariant, PTL

\* No attempt follows a capture, a success, or a result that is unknown
\* (recovery_loop/outcomes.py:120-148).
THEOREM OnlyFailuresAreFollowed == Spec => []OnlyFailuresLeadOn
<1>1. CoreInv => OnlyFailuresLeadOn
  BY DEF CoreInv
<1> QED
  BY <1>1, CycleInvariant, PTL

\* The decision engine's limit ends the retries of a case, whatever the models say
\* (decision/eligibility.py:107-117).
THEOREM RetriesAreLimited == Spec => []RetriesEndInTime
<1>1. CoreInv => RetriesEndInTime
  BY DEF CoreInv
<1> QED
  BY <1>1, CycleInvariant, PTL

\* Where fewer than n are counted in a row, the last n are not all the same.
LEMMA FewerAreInARow ==
  ASSUME NEW h \in Seq(DOMAIN executions), NEW action, NEW n \in Nat, InARow(h, action) < n
  PROVE  \/ Len(h) < n
         \/ \E i \in DOMAIN h : i > Len(h) - n /\ Actions(h)[i] # action
<1> DEFINE S == {i \in DOMAIN h : \A j \in i..Len(h) : Actions(h)[j] = action}
           T == (Len(h) - n + 1)..Len(h)
<1>1. Len(h) \in Nat /\ DOMAIN h = 1..Len(h)
  OBVIOUS
<1>2. SUFFICES ASSUME Len(h) >= n,
                      \A i \in DOMAIN h : i > Len(h) - n => Actions(h)[i] = action
               PROVE  FALSE
  BY <1>1
<1>3. IsFiniteSet(S) /\ Cardinality(S) \in Nat
  <2>1. IsFiniteSet(1..Len(h))
    BY <1>1, FS_Interval
  <2>2. IsFiniteSet(S)
    BY <1>1, <2>1, FS_Subset
  <2> QED
    BY <2>2, FS_CardinalityType
<1>4. T \subseteq S
  BY <1>1, <1>2
<1>5. IsFiniteSet(T) /\ Cardinality(T) = n
  <2>1. Len(h) - n + 1 \in Int /\ Len(h) \in Int
    BY <1>1
  <2>2. /\ IsFiniteSet(T)
        /\ Cardinality(T) = IF Len(h) - n + 1 > Len(h) THEN 0
                            ELSE Len(h) - (Len(h) - n + 1) + 1
    BY <2>1, FS_Interval
  <2> QED
    BY <1>1, <2>2
<1>6. Cardinality(T) <= Cardinality(S)
  BY <1>3, <1>4, FS_Subset
<1>7. Cardinality(S) < n
  BY DEF InARow
<1> QED
  BY <1>3, <1>5, <1>6, <1>7

\* What is dispatched is not what the last of the reported attempts all were.
LEMMA DispatchIsNoRepetition ==
  ASSUME CoreInv, NEW w \in Worker, Reevaluate(w), Len(executions') > Len(executions)
  PROVE  \/ history' = <<>> \/ Len(history') < MaxConsecutive
         \/ \E i \in DOMAIN history' :
              /\ i > Len(history') - MaxConsecutive
              /\ Actions(history')[i] # executions'[Len(executions')].action
<1>0. CycleTypeOK /\ CallsAreReported /\ OutcomesAreReported /\ pc[w] # "idle" /\ Learns(w)
  BY DEF CoreInv, Reevaluate, MayRun
<1>1. PICK case \in Copies, action \in Action :
        /\ MayRepeat(HistoryAt(w), action)
        /\ Dispatch(w, case, <<action, Judged(w).attempts + 1>>)
  <2>1. executions' # executions
    BY <1>0 DEF CycleTypeOK
  <2> QED
    BY <2>1, ReevaluateEffect
<1>2. PICK x : x = [action |-> action, attempt |-> Judged(w).attempts + 1,
                    cycle |-> FactsAt(w).cycle + 1, cause |-> call[w].report,
                    status |-> "RUNNING"]
  OBVIOUS
<1>3. executions' = Append(executions, x) /\ x.action = action
  BY <1>1, <1>2 DEF Dispatch
<1>4. executions \in Seq(Dispatched)
  BY <1>0 DEF CycleTypeOK
<1>5. executions'[Len(executions')] = x
  BY <1>3, <1>4
<1>6. PICK h : h = HistoryAt(w)
  OBVIOUS
<1>7. history' = h /\ h \in Seq(DOMAIN executions)
  BY <1>0, <1>6, LearnedFacts DEF Learns
<1>8. \/ h = <<>> \/ Len(h) < MaxConsecutive
      \/ \E i \in DOMAIN h : i > Len(h) - MaxConsecutive /\ Actions(h)[i] # action
  <2>1. h = <<>> \/ InARow(h, action) < MaxConsecutive
    BY <1>1, <1>6 DEF MayRepeat
  <2>2. MaxConsecutive \in Nat
    BY CycleAssumption
  <2> QED
    BY <1>7, <2>1, <2>2, FewerAreInARow
<1> QED
  BY <1>3, <1>5, <1>7, <1>8

\* No attempt repeats what the last MaxConsecutive reported attempts all were, however
\* large the limit (recovery_loop/guards.py:121-142).
THEOREM NothingIsRepeatedBlindly == Spec => NoBlindRepetition
<1>1. CoreInv /\ [Next]_vars =>
        [Len(executions') > Len(executions) =>
           \/ history' = <<>> \/ Len(history') < MaxConsecutive
           \/ \E i \in DOMAIN history' :
                /\ i > Len(history') - MaxConsecutive
                /\ Actions(history')[i] # executions'[Len(executions')].action]_vars
  <2> SUFFICES ASSUME CoreInv, Next, Len(executions') > Len(executions)
               PROVE  \/ history' = <<>> \/ Len(history') < MaxConsecutive
                      \/ \E i \in DOMAIN history' :
                           /\ i > Len(history') - MaxConsecutive
                           /\ Actions(history')[i] # executions'[Len(executions')].action
    OBVIOUS
  <2>0. executions \in Seq(Dispatched)
    BY DEF CoreInv, CycleTypeOK
  <2>1. executions' # executions
    BY <2>0
  <2>2. ASSUME NEW w \in Worker,
               (\E r \in Report : Submit(w, r)) \/ Refuse(w) \/ Conclude(w)
        PROVE  FALSE
    BY <2>1, <2>2 DEF Submit, Refuse, Conclude
  <2>3. ASSUME NEW w \in Worker, (\E status \in Answered : Answer(w, status)) \/ Cancel(w)
        PROVE  FALSE
    <3>1. Len(executions') = Len(executions)
      BY <2>0, <2>1, <2>3 DEF Answer, Cancel
    <3> QED
      BY <2>0, <3>1
  <2> QED
    BY <2>2, <2>3, DispatchIsNoRepetition DEF Next
<1> QED
  BY <1>1, CycleInvariant, PTL DEF Spec, NoBlindRepetition

-----------------------------------------------------------------------------
(***************************************************************************)
(* One call at a time.  The copies that the caller holds then tell how far *)
(* the case has come, except for what a cancelled call had learned.        *)
(***************************************************************************)
\* n attempts are counted, and slack more were made, or judged, unknown to the caller.
Tells(n, slack) ==
  /\ \A i \in DOMAIN executions : executions[i].cycle <= n + 1 + slack
  /\ \A r \in Report : outcomes[r] # Nothing => executions[r.of].cycle <= n + slack

AloneInv ==
  /\ \A w, x \in Worker : pc[w] # "idle" /\ pc[x] # "idle" => w = x
  /\ \A w \in Worker : pc[w] # "idle" => call[w].case.payment = held.payment
  /\ \A w \in Worker : pc[w] = "waiting" => call[w].case.attempts = held.attempts
  /\ \A w \in Worker : pc[w] = "dispatching" =>
       /\ Tells(call[w].case.attempts, cancels)
       /\ Tells(held.attempts, cancels + 1)
       /\ call[w].case.payment # "CAPTURED"
       /\ call[w].case.status = "ACTION_APPROVED" \/ call[w].case.attempts = held.attempts
  /\ (\A w \in Worker : pc[w] # "dispatching") => Tells(held.attempts, cancels)
  /\ \A r \in Report : outcomes[r] = "RECOVERED" => held.payment = "CAPTURED"
  /\ \A i \in DOMAIN executions : executions[i].cycle <= MaxAttempts + 1 + cancels

CycleInv == CoreInv /\ (overlapped \/ AloneInv)

LEMMA CountsAreNumbers ==
  ASSUME CoreInv
  PROVE  /\ \A i \in DOMAIN executions : executions[i].cycle \in Nat
         /\ \A r \in Report : IsReported(r) => executions[r.of].cycle \in Nat
         /\ held.attempts \in Nat /\ cancels \in Nat /\ MaxAttempts \in Nat
         /\ \A w \in Worker : pc[w] # "idle" => call[w].case.attempts \in Nat
<1>0. CycleTypeOK /\ CallsAreReported
  BY DEF CoreInv
<1>1. \A i \in DOMAIN executions : executions[i] \in Dispatched
  BY <1>0 DEF CycleTypeOK
<1>2. held.attempts \in Nat /\ cancels \in 0..MaxCancels
  BY <1>0 DEF CycleTypeOK, Copies
<1>3. \A w \in Worker : pc[w] # "idle" => call[w].case.attempts \in Nat
  BY <1>0, CallFacts DEF Copies
<1>4. \A r \in Report : IsReported(r) => executions[r.of].cycle \in Nat
  BY <1>0, ReportedFacts
<1> QED
  BY <1>1, <1>2, <1>3, <1>4, BoundAssumption DEF Dispatched

\* The call that is under way ends.
LEMMA AloneEnds ==
  ASSUME CoreInv, AloneInv, NEW w \in Worker, pc[w] # "idle", Ends(w),
         cancels' \in {cancels, cancels + 1},
         DOMAIN executions' = DOMAIN executions,
         \A i \in DOMAIN executions : executions'[i].cycle = executions[i].cycle,
         \A r \in Report : outcomes'[r] = "RECOVERED" => held'.payment = "CAPTURED",
         Tells(held.attempts, cancels)'
  PROVE  AloneInv'
<1>1. \A x \in Worker : pc'[x] = "idle"
  BY DEF CoreInv, CycleTypeOK, AloneInv, Ends
<1>2. \A i \in DOMAIN executions' : executions'[i].cycle <= MaxAttempts + 1 + cancels'
  <2>1. ASSUME NEW i \in DOMAIN executions
        PROVE  executions[i].cycle <= MaxAttempts + 1 + cancels'
    <3>1. /\ executions[i].cycle \in Nat /\ MaxAttempts \in Nat /\ cancels \in Nat
          /\ executions[i].cycle <= MaxAttempts + 1 + cancels
      BY CountsAreNumbers DEF AloneInv
    <3> QED
      BY <3>1
  <2> QED
    BY <2>1
<1> QED
  BY <1>1, <1>2 DEF AloneInv

\* What a call that waits for the lock makes of the counts, once it has judged.
LEMMA LearnedCounts ==
  ASSUME CoreInv, AloneInv, NEW w \in Worker, pc[w] = "waiting", ~ RefusesOutcome(w),
         Learns(w)
  PROVE  /\ IsDuplicate(w) => Judged(w).attempts = held.attempts
         /\ Judged(w).attempts \in Nat
         /\ FactsAt(w).cycle <= Judged(w).attempts + cancels
         /\ FactsAt(w).cycle <= held.attempts + 1 + cancels
         /\ held.attempts <= Judged(w).attempts
         /\ \A i \in DOMAIN executions : executions[i].cycle <= held.attempts + 1 + cancels
         /\ \A r \in Report : outcomes'[r] # Nothing =>
              /\ executions[r.of].cycle <= Judged(w).attempts + cancels
              /\ executions[r.of].cycle <= held.attempts + 1 + cancels
<1> DEFINE h == held.attempts
           c == FactsAt(w).cycle
           a == Judged(w).attempts
           k == cancels
<1>0. CycleTypeOK /\ CallsAreReported /\ OutcomesAreReported /\ PaymentsStand
  BY DEF CoreInv
<1>1. /\ call[w].report \in Report /\ IsReported(call[w].report)
      /\ call[w].report.of \in DOMAIN executions
      /\ c = executions[call[w].report.of].cycle /\ c \in Nat
  BY <1>0, CallFacts, ReportedFacts
<1>2. h \in Nat /\ k \in Nat /\ \A i \in DOMAIN executions : executions[i].cycle \in Nat
  BY CountsAreNumbers
<1>3. call[w].case.attempts = h
  BY DEF AloneInv
<1>4. Tells(h, k)
  <2>1. \A x \in Worker : pc[x] # "dispatching"
    BY DEF AloneInv
  <2> QED
    BY <2>1 DEF AloneInv
<1>5. c <= h + 1 + k
  BY <1>1, <1>4 DEF Tells
<1>6. \A r \in Report : outcomes'[r] = IF r = call[w].report THEN OutcomeAt(w) ELSE outcomes[r]
  BY <1>0, LearnedFacts
<1>7. IsDuplicate(w) => a = h /\ c <= h + k
  BY <1>0, <1>1, <1>3, <1>4, JudgedFacts DEF Tells, IsDuplicate
<1>8. ~ IsDuplicate(w) => a = IF c > h THEN c ELSE h
  BY <1>0, <1>3, JudgedFacts DEF AttemptsAfter
<1> HIDE DEF h, c, a, k
<1>9. a \in Nat /\ h <= a /\ c <= a + k
  BY <1>1, <1>2, <1>5, <1>7, <1>8
<1>10. ASSUME NEW r \in Report, outcomes'[r] # Nothing
       PROVE  executions[r.of].cycle <= a + k /\ executions[r.of].cycle <= h + 1 + k
  <2>1. CASE r = call[w].report
    BY <1>1, <1>5, <1>9, <2>1
  <2>2. CASE r # call[w].report
    <3>1. outcomes[r] # Nothing
      BY <1>6, <1>10, <2>2
    <3>2. executions[r.of].cycle <= h + k /\ executions[r.of].cycle \in Nat
      BY <1>0, <1>4, <3>1, CountsAreNumbers DEF Tells, OutcomesAreReported
    <3> QED
      BY <1>2, <1>9, <3>2
  <2> QED
    BY <2>1, <2>2
<1> QED
  BY <1>4, <1>5, <1>7, <1>9, <1>10 DEF Tells, h, c, a, k

\* A call that has learned nothing new, or whose caller gets what it counts.
LEMMA LearnedEnds ==
  ASSUME CoreInv, AloneInv, NEW w \in Worker, pc[w] = "waiting", ~ RefusesOutcome(w),
         Learns(w), Ends(w), UNCHANGED <<executions, cancels>>, held' \in Copies,
         OutcomeAt(w) = "RECOVERED" /\ ~ IsDuplicate(w) => held'.payment = "CAPTURED",
         \/ held' = held /\ IsDuplicate(w)
         \/ held'.payment = Judged(w).payment /\ held'.attempts = Judged(w).attempts
  PROVE  AloneInv'
<1>0. CycleTypeOK /\ CallsAreReported /\ OutcomesAreReported /\ PaymentsStand
  BY DEF CoreInv
<1>1. /\ \A i \in DOMAIN executions : executions[i].cycle \in Nat
      /\ held.attempts \in Nat /\ cancels \in Nat
  BY CountsAreNumbers
<1>2. /\ Judged(w).attempts \in Nat /\ held.attempts <= Judged(w).attempts
      /\ IsDuplicate(w) => Judged(w).attempts = held.attempts
      /\ \A i \in DOMAIN executions : executions[i].cycle <= held.attempts + 1 + cancels
      /\ \A r \in Report : outcomes'[r] # Nothing =>
           executions[r.of].cycle <= Judged(w).attempts + cancels
  BY LearnedCounts
<1>3. held'.attempts = Judged(w).attempts
  BY <1>2
<1>4. \A i \in DOMAIN executions : executions[i].cycle <= held'.attempts + 1 + cancels
  BY <1>1, <1>2, <1>3
<1>5. Tells(held.attempts, cancels)'
  BY <1>2, <1>3, <1>4 DEF Tells
<1>6. \A r \in Report : outcomes'[r] = IF r = call[w].report THEN OutcomeAt(w) ELSE outcomes[r]
  BY <1>0, LearnedFacts
<1>7. call[w].case.payment = held.payment
  BY DEF AloneInv
<1>8. held.payment = "CAPTURED" => held'.payment = "CAPTURED"
  BY <1>0, <1>7, JudgedFacts
<1>9. \A r \in Report : outcomes'[r] = "RECOVERED" => held'.payment = "CAPTURED"
  <2>1. ASSUME NEW r \in Report, outcomes'[r] = "RECOVERED"
        PROVE  outcomes[r] = "RECOVERED" \/ (OutcomeAt(w) = "RECOVERED" /\ ~ IsDuplicate(w))
    BY <1>6, <2>1 DEF OutcomeAt, IsDuplicate
  <2> QED
    BY <1>8, <2>1 DEF AloneInv
<1> QED
  BY <1>5, <1>9, AloneEnds

\* The next attempt is dispatched.
LEMMA AloneDispatches ==
  ASSUME CoreInv, AloneInv, NEW w \in Worker, MayRun(w), ~ RefusesOutcome(w),
         ThenAt(w) = "RE_EVALUATE", Learns(w), NEW case \in Copies, NEW action, NEW attempt,
         case.payment = Judged(w).payment, case.attempts = Judged(w).attempts,
         ~ IsDuplicate(w) => case.status = "ACTION_APPROVED",
         Dispatch(w, case, <<action, attempt>>), UNCHANGED cancels
  PROVE  AloneInv'
<1> DEFINE n == Len(executions)
           c == FactsAt(w).cycle
           x == [action |-> action, attempt |-> attempt, cycle |-> c + 1,
                 cause |-> call[w].report, status |-> "RUNNING"]
<1>0. CycleTypeOK /\ CallsAreReported /\ OutcomesAreReported /\ PaymentsStand
      /\ pc[w] = "waiting"
  BY DEF CoreInv, MayRun
<1>1. /\ OutcomeAt(w) = "FAILED"
      /\ call[w].case.payment \in {"FAILED", "PENDING"}
      /\ call[w].case.attempts < MaxAttempts
      /\ Judged(w).payment = call[w].case.payment
  BY <1>0, ReevaluationFacts
<1>2. /\ executions' = Append(executions, x)
      /\ pc' = [pc EXCEPT ![w] = "dispatching"]
      /\ call' = [call EXCEPT ![w].case = case]
      /\ held' = held
  BY DEF Dispatch
<1>3. /\ executions \in Seq(Dispatched) /\ n \in Nat /\ DOMAIN executions = 1..n
      /\ DOMAIN executions' = 1..(n + 1) /\ x.cycle = c + 1 /\ executions'[n + 1] = x
      /\ \A i \in 1..n : executions'[i] = executions[i]
  BY <1>0, <1>2 DEF CycleTypeOK
<1>4. /\ held.attempts \in Nat /\ cancels \in Nat /\ MaxAttempts \in Nat /\ c \in Nat
      /\ \A i \in DOMAIN executions : executions[i].cycle \in Nat
      /\ \A r \in Report : IsReported(r) => executions[r.of].cycle \in Nat
  BY <1>0, CallFacts, CountsAreNumbers
<1>5. /\ pc'[w] = "dispatching"
      /\ \A y \in Worker \ {w} : pc'[y] = "idle"
  BY <1>0, <1>2 DEF CycleTypeOK, AloneInv
<1>6. call'[w].case = case
  <2>1. call[w] \in Call
    BY <1>0 DEF CycleTypeOK
  <2> QED
    BY <1>0, <1>2, <2>1 DEF CycleTypeOK, Call
<1>7. call[w].case.payment = held.payment /\ call[w].case.attempts = held.attempts
  BY <1>0 DEF AloneInv
<1>8. /\ IsDuplicate(w) => case.attempts = held.attempts
      /\ case.attempts \in Nat
      /\ c <= case.attempts + cancels
      /\ c <= held.attempts + 1 + cancels
      /\ held.attempts <= case.attempts
      /\ \A i \in DOMAIN executions : executions[i].cycle <= held.attempts + 1 + cancels
      /\ \A r \in Report : outcomes'[r] # Nothing =>
           /\ executions[r.of].cycle <= case.attempts + cancels
           /\ executions[r.of].cycle <= held.attempts + 1 + cancels
  BY <1>0, LearnedCounts
<1>9. \A r \in Report : outcomes'[r] # Nothing => executions'[r.of] = executions[r.of]
  <2>1. \A r \in Report : outcomes'[r] # Nothing => IsReported(r)
    BY <1>0, LearnedFacts
  <2> QED
    BY <1>3, <2>1 DEF IsReported
<1> HIDE DEF x, c, n
<1>10. ASSUME NEW i \in 1..(n + 1)
       PROVE  /\ executions'[i].cycle \in Nat
              /\ executions'[i].cycle <= held.attempts + 1 + cancels
                   \/ executions'[i].cycle = c + 1
  <2>1. CASE i \in 1..n
    BY <1>3, <1>4, <1>8, <2>1
  <2>2. CASE i = n + 1
    BY <1>3, <1>4, <2>2
  <2> QED
    BY <1>3, <2>1, <2>2
<1>11. Tells(case.attempts, cancels)'
  <2>1. \A i \in 1..(n + 1) : executions'[i].cycle <= case.attempts + 1 + cancels
    BY <1>4, <1>8, <1>10
  <2> QED
    BY <1>3, <1>8, <1>9, <2>1 DEF Tells
<1>12. Tells(held.attempts, cancels + 1)'
  <2>1. \A i \in 1..(n + 1) : executions'[i].cycle <= held.attempts + 1 + (cancels + 1)
    BY <1>4, <1>8, <1>10
  <2>2. \A r \in Report : outcomes'[r] # Nothing =>
          executions'[r.of].cycle <= held.attempts + (cancels + 1)
    <3>1. held.attempts + (cancels + 1) = held.attempts + 1 + cancels
      BY <1>4
    <3> QED
      BY <1>8, <1>9, <3>1
  <2> QED
    BY <1>2, <1>3, <2>1, <2>2 DEF Tells
<1>13. \A i \in DOMAIN executions' : executions'[i].cycle <= MaxAttempts + 1 + cancels
  <2>1. held.attempts < MaxAttempts
    BY <1>1, <1>7
  <2>2. held.attempts + 1 + cancels <= MaxAttempts + cancels
    BY <1>4, <2>1
  <2>3. ASSUME NEW i \in 1..(n + 1)
        PROVE  executions'[i].cycle <= MaxAttempts + 1 + cancels
    <3>1. CASE executions'[i].cycle <= held.attempts + 1 + cancels
      BY <1>4, <1>10, <2>2, <3>1
    <3>2. CASE executions'[i].cycle = c + 1
      BY <1>4, <1>8, <2>2, <3>2
    <3> QED
      BY <1>10, <3>1, <3>2
  <2> QED
    BY <1>3, <2>3
<1>14. \A r \in Report : outcomes'[r] # "RECOVERED"
  <2>1. \A r \in Report : outcomes[r] # "RECOVERED"
    BY <1>1, <1>7 DEF AloneInv
  <2> QED
    BY <1>0, <1>1, <2>1, LearnedFacts
<1>15. case.payment # "CAPTURED" /\ case.payment = held.payment
  BY <1>1, <1>7
<1> QED
  BY <1>2, <1>5, <1>6, <1>8, <1>11, <1>12, <1>13, <1>14, <1>15 DEF AloneInv, Tells

LEMMA AloneStep ==
  ASSUME CoreInv, AloneInv, Next, ~ overlapped'
  PROVE  AloneInv'
<1>0. CycleTypeOK
  BY DEF CoreInv
<1>1. ASSUME NEW w \in Worker, NEW r \in Report, Submit(w, r)
      PROVE  AloneInv'
  <2>1. /\ \A x \in Worker : pc[x] = "idle"
        /\ pc'[w] = "waiting" /\ \A x \in Worker \ {w} : pc'[x] = "idle"
        /\ call'[w].case = held
        /\ UNCHANGED <<held, executions, outcomes, cancels>>
    BY <1>0, <1>1 DEF Submit, CycleTypeOK
  <2>2. Tells(held.attempts, cancels)'
    BY <2>1 DEF AloneInv, Tells
  <2> QED
    BY <2>1, <2>2 DEF AloneInv
<1>2. ASSUME NEW w \in Worker, pc[w] = "waiting",
             UNCHANGED <<held, executions, outcomes>>, Ends(w), cancels' \in {cancels, cancels + 1}
      PROVE  AloneInv'
  <2>1. Tells(held.attempts, cancels)
    BY <1>2 DEF AloneInv
  <2>2. Tells(held.attempts, cancels)'
    <3>1. \A i \in DOMAIN executions : executions[i].cycle <= held.attempts + 1 + cancels'
      BY <1>2, <2>1, CountsAreNumbers DEF Tells
    <3>2. \A r \in Report : outcomes[r] # Nothing => executions[r.of].cycle <= held.attempts + cancels'
      BY <1>2, <2>1, CountsAreNumbers DEF Tells, CoreInv, OutcomesAreReported
    <3> QED
      BY <1>2, <3>1, <3>2 DEF Tells
  <2>3. \A r \in Report : outcomes'[r] = "RECOVERED" => held'.payment = "CAPTURED"
    BY <1>2 DEF AloneInv
  <2> QED
    BY <1>2, <2>2, <2>3, AloneEnds
<1>3. ASSUME NEW w \in Worker, Refuse(w)
      PROVE  AloneInv'
  BY <1>2, <1>3 DEF Refuse, MayRun, RaisesError
<1>4. ASSUME NEW w \in Worker, Conclude(w)
      PROVE  AloneInv'
  <2>1. /\ pc[w] = "waiting" /\ ~ RefusesOutcome(w) /\ Learns(w) /\ Ends(w)
        /\ held' = Judged(w) /\ UNCHANGED <<executions, cancels>>
    BY <1>4 DEF Conclude, MayRun, Returns
  <2>2. /\ Judged(w) \in Copies
        /\ OutcomeAt(w) = "RECOVERED" /\ ~ IsDuplicate(w) => Judged(w).payment = "CAPTURED"
    BY <2>1, JudgedFacts DEF CoreInv
  <2> QED
    BY <2>1, <2>2, LearnedEnds
<1>5. ASSUME NEW w \in Worker, Reevaluate(w)
      PROVE  AloneInv'
  <2>1. /\ MayRun(w) /\ pc[w] = "waiting" /\ ~ RefusesOutcome(w)
        /\ ThenAt(w) = "RE_EVALUATE" /\ Learns(w) /\ UNCHANGED cancels
    BY <1>5, ReevaluateEffect DEF MayRun
  <2>2. OutcomeAt(w) = "FAILED"
    BY <2>1, ReevaluationFacts
  <2>3. CASE /\ Ends(w) /\ executions' = executions /\ held' \in Copies
             /\ \/ held' = held /\ IsDuplicate(w)
                \/ held'.payment = Judged(w).payment /\ held'.attempts = Judged(w).attempts
    BY <2>1, <2>2, <2>3, LearnedEnds
  <2>4. ASSUME NEW case \in Copies, NEW action \in Action,
               case.payment = Judged(w).payment, case.attempts = Judged(w).attempts,
               ~ IsDuplicate(w) => case.status = "ACTION_APPROVED",
               Dispatch(w, case, <<action, Judged(w).attempts + 1>>)
        PROVE  AloneInv'
    BY <2>1, <2>4, AloneDispatches
  <2> QED
    BY <1>5, <2>3, <2>4, ReevaluateEffect
<1>6. ASSUME NEW w \in Worker, pc[w] = "dispatching", NEW status \in Answered \cup {"LOST"},
             executions' = [executions EXCEPT ![Running].status = status],
             Ends(w), UNCHANGED outcomes, held'.payment = held.payment,
             \/ held'.attempts = call[w].case.attempts /\ cancels' = cancels
             \/ held'.attempts = held.attempts /\ cancels' = cancels + 1
      PROVE  AloneInv'
  <2>1. /\ executions \in Seq(Dispatched)
        /\ DOMAIN executions' = DOMAIN executions
        /\ \A i \in DOMAIN executions : executions'[i].cycle = executions[i].cycle
    <3>1. executions \in Seq(Dispatched)
      BY <1>0 DEF CycleTypeOK
    <3>2. \A i \in DOMAIN executions : executions[i] \in Dispatched
      BY <3>1
    <3> QED
      BY <1>6, <3>1, <3>2 DEF Dispatched
  <2>2. Tells(call[w].case.attempts, cancels) /\ Tells(held.attempts, cancels + 1)
    BY <1>6 DEF AloneInv
  <2>3. \A i \in DOMAIN executions : executions[i].cycle <= held'.attempts + 1 + cancels'
    BY <1>6, <2>2 DEF Tells
  <2>4. \A r \in Report : outcomes[r] # Nothing =>
          /\ executions[r.of].cycle <= held'.attempts + cancels'
          /\ r.of \in DOMAIN executions
    BY <1>6, <2>2 DEF Tells, CoreInv, OutcomesAreReported, IsReported
  <2>5. Tells(held.attempts, cancels)'
    BY <1>6, <2>1, <2>3, <2>4 DEF Tells
  <2>6. \A r \in Report : outcomes'[r] = "RECOVERED" => held'.payment = "CAPTURED"
    BY <1>6 DEF AloneInv
  <2>7. cancels' \in {cancels, cancels + 1}
    BY <1>6
  <2> QED
    BY <1>6, <2>1, <2>5, <2>6, <2>7, AloneEnds
<1>7. ASSUME NEW w \in Worker, NEW status \in Answered, Answer(w, status)
      PROVE  AloneInv'
  <2>1. /\ pc[w] = "dispatching" /\ ReturnsResult(w, call[w].case, status)
        /\ executions' = [executions EXCEPT ![Running].status = status]
        /\ UNCHANGED <<history, outcomes, cancels>>
    BY <1>7 DEF Answer
  <2>2. /\ call[w].case \in Copies /\ call[w].case.payment = held.payment
        /\ call[w].case.payment # "CAPTURED"
        /\ call[w].case.status = "ACTION_APPROVED" \/ call[w].case.attempts = held.attempts
    BY <2>1, CallFacts DEF CoreInv, AloneInv
  <2>3. Ends(w)
    BY <2>1, <2>2, ResultFacts
  <2>4. held'.payment = held.payment /\ held'.attempts = call[w].case.attempts
    <3>1. CASE call[w].case.status = "ACTION_APPROVED"
      <4>1. MayMoveCase(call[w].case.payment, call[w].case.status, "EXECUTING")
        BY <2>2, <3>1
           DEF MayMoveCase, CaseMoves, CaseStatus, ActiveCase, TerminalCase, Progress
      <4> QED
        BY <2>1, <2>2, <4>1 DEF ReturnsResult, Returns, Copies
    <3>2. CASE call[w].case.attempts = held.attempts
      BY <2>1, <2>2, <3>2, ResultFacts
    <3> QED
      BY <2>2, <3>1, <3>2
  <2> QED
    BY <1>6, <2>1, <2>3, <2>4
<1>8. ASSUME NEW w \in Worker, Cancel(w)
      PROVE  AloneInv'
  <2>1. /\ pc[w] \in {"waiting", "dispatching"} /\ cancels' = cancels + 1
        /\ Ends(w) /\ held' = held /\ UNCHANGED <<history, outcomes>>
        /\ pc[w] = "dispatching" => executions' = [executions EXCEPT ![Running].status = "LOST"]
        /\ pc[w] # "dispatching" => executions' = executions
    BY <1>0, <1>8 DEF Cancel, RaisesError, CycleTypeOK, Position
  <2>2. CASE pc[w] = "waiting"
    BY <1>2, <2>1, <2>2
  <2>3. CASE pc[w] = "dispatching"
    BY <1>6, <2>1, <2>3
  <2> QED
    BY <2>1, <2>2, <2>3
<1> QED
  BY <1>1, <1>3, <1>4, <1>5, <1>7, <1>8 DEF Next

LEMMA CycleInit == Init => CycleInv
<1> SUFFICES ASSUME Init
             PROVE  AloneInv
  BY CoreInit DEF CycleInv
<1>1. /\ \A w \in Worker : pc[w] = "idle"
      /\ \A r \in Report : outcomes[r] = Nothing
      /\ held.attempts = 0 /\ cancels = 0
  BY DEF Init
<1>2. \A i \in DOMAIN executions : executions[i].cycle = 1
  BY DEF Init
<1>3. Tells(held.attempts, cancels)
  BY <1>1, <1>2 DEF Tells
<1>4. \A i \in DOMAIN executions : executions[i].cycle <= MaxAttempts + 1 + cancels
  BY <1>1, <1>2, BoundAssumption
<1> QED
  BY <1>1, <1>3, <1>4 DEF AloneInv, Nothing

LEMMA CycleStep == CycleInv /\ [Next]_vars => CycleInv'
<1> SUFFICES ASSUME CycleInv, [Next]_vars
             PROVE  CycleInv'
  OBVIOUS
<1>1. CoreInv /\ CoreInv'
  BY CoreStep DEF CycleInv
<1>2. ASSUME overlapped, Next
      PROVE  overlapped'
  <2>1. ASSUME NEW w \in Worker, NEW r \in Report, Submit(w, r)
        PROVE  overlapped'
    BY <1>2, <2>1 DEF Submit
  <2>2. ASSUME NEW w \in Worker, Refuse(w) \/ Conclude(w) \/ Cancel(w)
        PROVE  UNCHANGED overlapped
    BY <2>2 DEF Refuse, Conclude, Cancel, Returns, RaisesError, Ends
  <2>3. ASSUME NEW w \in Worker, Reevaluate(w)
        PROVE  UNCHANGED overlapped
    BY <1>1, <2>3, ReevaluateEffect DEF Dispatch, Ends
  <2>4. ASSUME NEW w \in Worker, NEW status \in Answered, Answer(w, status)
        PROVE  UNCHANGED overlapped
    BY <2>4 DEF Answer, ReturnsResult, Returns, RaisesError, Ends
  <2> QED
    BY <1>2, <2>1, <2>2, <2>3, <2>4 DEF Next
<1>3. ASSUME Next, ~ overlapped'
      PROVE  AloneInv'
  BY <1>1, <1>2, <1>3, AloneStep DEF CycleInv
<1>4. ASSUME UNCHANGED vars
      PROVE  CycleInv'
  <2>1. AloneInv => AloneInv'
    BY <1>4 DEF vars, AloneInv, Tells
  <2>2. overlapped => overlapped'
    BY <1>4 DEF vars
  <2> QED
    BY <1>1, <2>1, <2>2 DEF CycleInv
<1> QED
  BY <1>1, <1>3, <1>4 DEF CycleInv

(***************************************************************************)
(* One call at a time: no attempt is made past the cycle after the limit,  *)
(* or as many later as calls were cancelled: the copies that the caller    *)
(* holds miss at most what those had learned (guards.py:93-101).           *)
(***************************************************************************)
THEOREM CyclesAreBounded == Spec => []CyclesBounded
<1>1. CycleInv => CyclesBounded
  BY DEF CycleInv, AloneInv, CyclesBounded
<1> QED
  BY <1>1, CycleInit, CycleStep, PTL DEF Spec

(***************************************************************************)
(* One call at a time: nothing is dispatched once an outcome is RECOVERED: *)
(* the caller holds the captured payment (outcomes.py:120-148, 326-341).   *)
(***************************************************************************)
THEOREM RecoveryEndsDispatching == Spec => RecoveryEndsDispatch
<1>1. CycleInv /\ [Next]_vars =>
        [Len(executions') > Len(executions) /\ ~ overlapped =>
           \A r \in Report : outcomes[r] # "RECOVERED"]_vars
  <2> SUFFICES ASSUME CoreInv, AloneInv, Next, Len(executions') > Len(executions)
               PROVE  \A r \in Report : outcomes[r] # "RECOVERED"
    BY DEF CycleInv
  <2>0. executions \in Seq(Dispatched)
    BY DEF CoreInv, CycleTypeOK
  <2>1. executions' # executions
    BY <2>0
  <2>2. ASSUME NEW w \in Worker,
               (\E r \in Report : Submit(w, r)) \/ Refuse(w) \/ Conclude(w)
        PROVE  FALSE
    BY <2>1, <2>2 DEF Submit, Refuse, Conclude
  <2>3. ASSUME NEW w \in Worker, (\E status \in Answered : Answer(w, status)) \/ Cancel(w)
        PROVE  FALSE
    <3>1. Len(executions') = Len(executions)
      BY <2>0, <2>1, <2>3 DEF Answer, Cancel
    <3> QED
      BY <2>0, <3>1
  <2>4. ASSUME NEW w \in Worker, Reevaluate(w)
        PROVE  held.payment \in {"FAILED", "PENDING"}
    BY <2>4, ReevaluationFacts DEF Reevaluate, MayRun, AloneInv
  <2> QED
    BY <2>2, <2>3, <2>4 DEF Next, AloneInv
<1> QED
  BY <1>1, CycleInit, CycleStep, PTL DEF Spec, RecoveryEndsDispatch

-----------------------------------------------------------------------------
(***************************************************************************)
(* The loop ends, however calls overlap, are cancelled or repeat a report: *)
(* a cycle that is past the hard ceiling is not followed, an attempt is    *)
(* numbered below a limit, and an idempotency key is dispatched once for   *)
(* itself and once more for each dispatch that was lost.                   *)
(***************************************************************************)
\* The greatest number that an attempt may have.
Limit == IF MaxAttempts > HardCeiling THEN MaxAttempts ELSE HardCeiling + 1

Lost == {i \in DOMAIN executions : executions[i].status = "LOST"}

\* No dispatch is numbered past the ceiling and the limit (recovery_loop/guards.py:93-101,
\* dispositions.py: UnboundedLoopError).
WithinTheCeiling ==
  \A i \in DOMAIN executions : /\ executions[i].cycle <= HardCeiling + 1
                               /\ executions[i].attempt \in 1..Limit
\* A dispatch is lost only to a cancelled call.
LossesAreCancels == Cardinality(Lost) <= cancels

\* The case is dispatched for at most so often, in all its life: each of the five
\* actions once for each number of an attempt, and once more for each call cancelled.
LoopIsBounded == Len(executions) <= 5 * Limit + cancels

LimitInv == CoreInv /\ WithinTheCeiling /\ LossesAreCancels

LEMMA LimitsAreNumbers ==
  /\ Limit \in Nat /\ MaxAttempts \in Nat /\ HardCeiling \in Nat
  /\ 1 <= Limit /\ MaxAttempts <= Limit /\ HardCeiling + 1 <= Limit
<1>1. MaxAttempts \in Nat /\ HardCeiling \in Nat
  BY BoundAssumption
<1> QED
  BY <1>1 DEF Limit

LEMMA LostAreFinite ==
  ASSUME executions \in Seq(Dispatched)
  PROVE  IsFiniteSet(Lost) /\ Cardinality(Lost) \in Nat
<1>1. Len(executions) \in Nat /\ DOMAIN executions = 1..Len(executions)
  OBVIOUS
<1>2. IsFiniteSet(1..Len(executions))
  BY <1>1, FS_Interval
<1>3. IsFiniteSet(Lost)
  BY <1>1, <1>2, FS_Subset DEF Lost
<1> QED
  BY <1>3, FS_CardinalityType

\* What follows a failure is within the limits: past the ceiling, resolve raises.
LEMMA NumbersThatFollow ==
  ASSUME CoreInv, WithinTheCeiling, NEW w \in Worker, pc[w] # "idle",
         ~ RefusesOutcome(w), ThenAt(w) = "RE_EVALUATE"
  PROVE  /\ FactsAt(w).cycle \in Nat /\ FactsAt(w).cycle <= HardCeiling
         /\ Judged(w).attempts \in Nat /\ Judged(w).attempts + 1 \in 1..Limit
<1>0. CycleTypeOK /\ CallsAreReported /\ OutcomesAreReported /\ PaymentsStand
  BY DEF CoreInv
<1>1. /\ OutcomeAt(w) = "FAILED" /\ call[w].case.payment # "CAPTURED"
      /\ call[w].case.attempts < MaxAttempts
  BY ReevaluationFacts
<1>2. /\ FactsAt(w).cycle \in Nat /\ call[w].case.attempts \in Nat
      /\ Judged(w).attempts = IF IsDuplicate(w) THEN call[w].case.attempts
                              ELSE AttemptsAfter(call[w].case, FactsAt(w).cycle)
  BY <1>0, CallFacts, JudgedFacts DEF Copies
<1>3. ~ (FactsAt(w).cycle > HardCeiling)
  BY <1>1 DEF ThenAt, Resolve, Raises
<1>4. /\ Judged(w).attempts \in Nat
      /\ \/ Judged(w).attempts = FactsAt(w).cycle
         \/ Judged(w).attempts = call[w].case.attempts
  BY <1>2 DEF AttemptsAfter
<1> QED
  BY <1>1, <1>2, <1>3, <1>4, LimitsAreNumbers

\* A dispatch is numbered within the limits, and loses nothing.
LEMMA LimitDispatches ==
  ASSUME LimitInv, NEW w \in Worker, Reevaluate(w), executions' # executions
  PROVE  WithinTheCeiling' /\ LossesAreCancels'
<1>1. PICK case \in Copies, action \in Action :
        Dispatch(w, case, <<action, Judged(w).attempts + 1>>)
  BY ReevaluateEffect DEF LimitInv
<1>2. /\ pc[w] # "idle" /\ ~ RefusesOutcome(w) /\ ThenAt(w) = "RE_EVALUATE"
      /\ UNCHANGED cancels
  BY DEF Reevaluate, MayRun
<1>3. /\ FactsAt(w).cycle \in Nat /\ FactsAt(w).cycle <= HardCeiling
      /\ Judged(w).attempts \in Nat /\ Judged(w).attempts + 1 \in 1..Limit
  BY <1>2, NumbersThatFollow DEF LimitInv
<1>4. PICK x : x = [action |-> action, attempt |-> Judged(w).attempts + 1,
                    cycle |-> FactsAt(w).cycle + 1, cause |-> call[w].report,
                    status |-> "RUNNING"]
  OBVIOUS
<1>5. /\ executions' = Append(executions, x)
      /\ x.cycle = FactsAt(w).cycle + 1 /\ x.attempt = Judged(w).attempts + 1
      /\ x.status = "RUNNING"
  BY <1>1, <1>4 DEF Dispatch
<1>6. executions \in Seq(Dispatched)
  BY DEF LimitInv, CoreInv, CycleTypeOK
<1>7. /\ DOMAIN executions' = DOMAIN executions \cup {Len(executions) + 1}
      /\ \A i \in DOMAIN executions : executions'[i] = executions[i]
      /\ executions'[Len(executions) + 1] = x
  BY <1>5, <1>6
<1>8. x.cycle <= HardCeiling + 1 /\ x.attempt \in 1..Limit
  BY <1>3, <1>5, LimitsAreNumbers
<1>9. WithinTheCeiling'
  BY <1>7, <1>8 DEF LimitInv, WithinTheCeiling, Limit
<1>10. Lost' = Lost
  BY <1>5, <1>7 DEF Lost
<1> QED
  BY <1>2, <1>9, <1>10 DEF LimitInv, LossesAreCancels

\* Where a dispatch ends, its numbers stand; only a cancelled one is lost.
LEMMA LimitSettles ==
  ASSUME LimitInv, NEW w \in Worker, pc[w] = "dispatching",
         NEW status \in Answered \cup {"LOST"},
         executions' = [executions EXCEPT ![Running].status = status],
         cancels' \in Nat, cancels' = cancels + IF status = "LOST" THEN 1 ELSE 0
  PROVE  WithinTheCeiling' /\ LossesAreCancels'
<1>1. executions \in Seq(Dispatched) /\ cancels \in Nat
  BY DEF LimitInv, CoreInv, CycleTypeOK
<1>2. PICK n \in DOMAIN executions : executions' = [executions EXCEPT ![n].status = status]
  <2>1. \E i \in DOMAIN executions : executions[i].status = "RUNNING"
    BY <1>1 DEF LimitInv, CoreInv, OnlyTheLastRuns
  <2>2. Running \in DOMAIN executions
    BY <2>1 DEF Running
  <2> QED
    BY <2>2
<1>3. /\ DOMAIN executions' = DOMAIN executions
      /\ \A i \in DOMAIN executions : executions[i] \in Dispatched
      /\ \A i \in DOMAIN executions : i # n => executions'[i] = executions[i]
      /\ executions'[n] = [executions[n] EXCEPT !.status = status]
  BY <1>1, <1>2
<1>4. /\ executions'[n].cycle = executions[n].cycle
      /\ executions'[n].attempt = executions[n].attempt
      /\ executions'[n].status = status
  <2>1. executions[n] \in Dispatched
    BY <1>3
  <2> QED
    BY <1>3, <2>1 DEF Dispatched
<1>5. WithinTheCeiling'
  <2> SUFFICES ASSUME NEW i \in DOMAIN executions
               PROVE  /\ executions'[i].cycle <= HardCeiling + 1
                      /\ executions'[i].attempt \in 1..Limit
    BY <1>3 DEF WithinTheCeiling, Limit
  <2> QED
    BY <1>3, <1>4 DEF LimitInv, WithinTheCeiling
<1>6. Lost' \subseteq IF status = "LOST" THEN Lost \cup {n} ELSE Lost
  BY <1>3, <1>4 DEF Lost, Answered
<1>7. IsFiniteSet(Lost) /\ Cardinality(Lost) \in Nat
  BY <1>1, LostAreFinite
<1>8. IsFiniteSet(Lost \cup {n}) /\ Cardinality(Lost \cup {n}) <= Cardinality(Lost) + 1
  <2>1. /\ IsFiniteSet(Lost \cup {n})
        /\ \/ Cardinality(Lost \cup {n}) = Cardinality(Lost)
           \/ Cardinality(Lost \cup {n}) = Cardinality(Lost) + 1
    BY <1>7, FS_AddElement
  <2> QED
    BY <1>7, <2>1
<1>9. IsFiniteSet(Lost') /\ Cardinality(Lost') \in Nat
  <2>1. IsFiniteSet(Lost')
    BY <1>6, <1>7, <1>8, FS_Subset
  <2> QED
    BY <2>1, FS_CardinalityType
<1>10. Cardinality(Lost \cup {n}) \in Nat
  BY <1>8, FS_CardinalityType
<1>11. CASE status = "LOST"
  <2>1. Cardinality(Lost') <= Cardinality(Lost \cup {n})
    BY <1>6, <1>8, <1>11, FS_Subset
  <2> QED
    BY <1>1, <1>5, <1>7, <1>8, <1>9, <1>10, <1>11, <2>1 DEF LimitInv, LossesAreCancels
<1>12. CASE status # "LOST"
  <2>1. Cardinality(Lost') <= Cardinality(Lost)
    BY <1>6, <1>7, <1>12, FS_Subset
  <2> QED
    BY <1>1, <1>5, <1>7, <1>9, <1>12, <2>1 DEF LimitInv, LossesAreCancels
<1> QED
  BY <1>11, <1>12

LEMMA LimitStep == LimitInv /\ [Next]_vars => LimitInv'
<1> SUFFICES ASSUME LimitInv, [Next]_vars
             PROVE  WithinTheCeiling' /\ LossesAreCancels'
  BY CoreStep DEF LimitInv
<1>0. cancels \in Nat /\ MaxCancels \in Nat
  BY CycleAssumption DEF LimitInv, CoreInv, CycleTypeOK
<1>1. ASSUME executions' = executions, cancels' \in Nat, cancels <= cancels'
      PROVE  WithinTheCeiling' /\ LossesAreCancels'
  <2>1. Lost' = Lost /\ Cardinality(Lost) \in Nat
    BY <1>1, LostAreFinite DEF Lost, LimitInv, CoreInv, CycleTypeOK
  <2> QED
    BY <1>0, <1>1, <2>1 DEF LimitInv, WithinTheCeiling, LossesAreCancels, Limit
<1>2. CASE UNCHANGED vars
  BY <1>0, <1>1, <1>2 DEF vars
<1>3. ASSUME NEW w \in Worker, (\E r \in Report : Submit(w, r)) \/ Refuse(w) \/ Conclude(w)
      PROVE  executions' = executions /\ cancels' = cancels
  BY <1>3 DEF Submit, Refuse, Conclude
<1>4. ASSUME NEW w \in Worker, Reevaluate(w)
      PROVE  WithinTheCeiling' /\ LossesAreCancels'
  <2>1. cancels' = cancels
    BY <1>4 DEF Reevaluate
  <2> QED
    BY <1>0, <1>1, <1>4, <2>1, LimitDispatches
<1>5. ASSUME NEW w \in Worker, NEW status \in Answered, Answer(w, status)
      PROVE  WithinTheCeiling' /\ LossesAreCancels'
  <2>1. /\ pc[w] = "dispatching" /\ cancels' = cancels
        /\ executions' = [executions EXCEPT ![Running].status = status]
    BY <1>5 DEF Answer
  <2>2. status # "LOST" /\ status \in Answered \cup {"LOST"}
    BY DEF Answered
  <2>3. cancels' \in Nat /\ cancels' = cancels + IF status = "LOST" THEN 1 ELSE 0
    BY <1>0, <2>1, <2>2
  <2> QED
    BY <2>1, <2>2, <2>3, LimitSettles
<1>6. ASSUME NEW w \in Worker, Cancel(w)
      PROVE  WithinTheCeiling' /\ LossesAreCancels'
  <2>1. cancels' = cancels + 1 /\ cancels' \in Nat
    BY <1>0, <1>6 DEF Cancel
  <2>2. CASE pc[w] = "dispatching"
    <3>1. executions' = [executions EXCEPT ![Running].status = "LOST"]
      BY <1>6, <2>2 DEF Cancel
    <3> QED
      BY <2>1, <2>2, <3>1, LimitSettles
  <2>3. CASE pc[w] # "dispatching"
    BY <1>0, <1>1, <1>6, <2>1, <2>3 DEF Cancel
  <2> QED
    BY <2>2, <2>3
<1> QED
  BY <1>0, <1>1, <1>2, <1>3, <1>4, <1>5, <1>6 DEF Next

LEMMA LimitInit == Init => LimitInv
<1> SUFFICES ASSUME Init PROVE WithinTheCeiling /\ LossesAreCancels
  BY CoreInit DEF LimitInv
<1>1. PICK status \in Answered :
        executions = <<[action |-> FirstAction, attempt |-> 1, cycle |-> 1,
                        cause |-> NoReport, status |-> status]>>
  BY DEF Init
<1>2. /\ DOMAIN executions = {1} /\ executions[1].cycle = 1 /\ executions[1].attempt = 1
      /\ executions[1].status # "LOST"
  BY <1>1 DEF Answered
<1>3. WithinTheCeiling
  BY <1>2, LimitsAreNumbers DEF WithinTheCeiling
<1>4. Lost = {}
  BY <1>2 DEF Lost
<1> QED
  BY <1>3, <1>4, FS_EmptySet DEF Init, LossesAreCancels

\* The numbers of attempts and cycles are bounded, whatever calls overlap
\* (recovery_loop/guards.py:93-101, dispositions.py).
THEOREM NumbersStayBelowTheCeiling == Spec => []WithinTheCeiling
<1>1. LimitInv => WithinTheCeiling
  BY DEF LimitInv
<1> QED
  BY <1>1, LimitInit, LimitStep, PTL DEF Spec

\* What is not lost has a key of its own, and there are only so many keys.
LEMMA KeysAreEnough ==
  ASSUME LimitInv
  PROVE  LoopIsBounded
<1> DEFINE All == 1..Len(executions)
           Own == All \ Lost
           Keys == Action \X (1..Limit)
           key == [i \in Own |-> Key(executions[i])]
<1>1. /\ Len(executions) \in Nat /\ DOMAIN executions = All /\ cancels \in Nat
      /\ \A i \in All : executions[i] \in Dispatched
  BY DEF LimitInv, CoreInv, CycleTypeOK
<1>2. IsFiniteSet(All) /\ Cardinality(All) = Len(executions)
  <2>1. IsFiniteSet(All) /\ Cardinality(All) = IF 1 > Len(executions) THEN 0
                                               ELSE Len(executions) - 1 + 1
    BY <1>1, FS_Interval
  <2> QED
    BY <1>1, <2>1
<1>3. /\ IsFiniteSet(Own)
      /\ Cardinality(Own) = Cardinality(All) - Cardinality(All \cap Lost)
  BY <1>2, FS_Difference
<1>4. All \cap Lost = Lost
  BY <1>1 DEF Lost
<1>5. Cardinality(Lost) \in Nat /\ Cardinality(Lost) <= cancels
  BY LostAreFinite DEF LimitInv, CoreInv, CycleTypeOK, LossesAreCancels
<1>6. IsFiniteSet(Keys) /\ Cardinality(Keys) = 5 * Limit
  <2>1. IsFiniteSet(Action) /\ Cardinality(Action) = 5
    <3>1. Action = {"RETRY"} \cup {"PAYMENT_LINK"} \cup {"OUTREACH"} \cup {"STOP"} \cup {"ESCALATE"}
      BY DEF Action, ActiveAction
    <3>2. IsFiniteSet({"RETRY"}) /\ Cardinality({"RETRY"}) = 1
      BY FS_Singleton
    <3>3. /\ IsFiniteSet({"RETRY"} \cup {"PAYMENT_LINK"})
          /\ Cardinality({"RETRY"} \cup {"PAYMENT_LINK"}) = 2
      BY <3>2, FS_AddElement
    <3>4. /\ IsFiniteSet({"RETRY"} \cup {"PAYMENT_LINK"} \cup {"OUTREACH"})
          /\ Cardinality({"RETRY"} \cup {"PAYMENT_LINK"} \cup {"OUTREACH"}) = 3
      BY <3>3, FS_AddElement
    <3>5. /\ IsFiniteSet({"RETRY"} \cup {"PAYMENT_LINK"} \cup {"OUTREACH"} \cup {"STOP"})
          /\ Cardinality({"RETRY"} \cup {"PAYMENT_LINK"} \cup {"OUTREACH"} \cup {"STOP"}) = 4
      BY <3>4, FS_AddElement
    <3> QED
      BY <3>1, <3>5, FS_AddElement
  <2>2. IsFiniteSet(1..Limit) /\ Cardinality(1..Limit) = Limit
    <3>1. IsFiniteSet(1..Limit) /\ Cardinality(1..Limit) = IF 1 > Limit THEN 0 ELSE Limit - 1 + 1
      BY LimitsAreNumbers, FS_Interval
    <3> QED
      BY <3>1, LimitsAreNumbers
  <2> QED
    BY <2>1, <2>2, FS_Product
<1>7. key \in Injection(Own, Keys)
  <2>1. ASSUME NEW i \in Own PROVE Key(executions[i]) \in Keys
    <3>1. executions[i] \in Dispatched /\ executions[i].attempt \in 1..Limit
      BY <1>1, <2>1 DEF LimitInv, WithinTheCeiling
    <3> QED
      BY <3>1 DEF Key, Dispatched
  <2>2. ASSUME NEW i \in Own, NEW j \in Own, i < j
        PROVE  Key(executions[i]) # Key(executions[j])
    BY <1>1, <2>2 DEF LimitInv, CoreInv, KeysDispatchedOnce, Lost
  <2>3. ASSUME NEW i \in Own, NEW j \in Own, i # j
        PROVE  Key(executions[i]) # Key(executions[j])
    <3>1. i < j \/ j < i
      BY <1>1, <2>3
    <3> QED
      BY <2>2, <3>1
  <2> QED
    BY <2>1, <2>3 DEF Injection, IsInjective
<1>8. Cardinality(Own) <= Cardinality(Keys)
  BY <1>6, <1>7, FS_Injection
<1>9. Cardinality(Own) <= 5 * Limit
  BY <1>6, <1>8
<1>10. Len(executions) - Cardinality(Lost) <= 5 * Limit
  BY <1>2, <1>3, <1>4, <1>9
<1> QED
  BY <1>1, <1>5, <1>10, LimitsAreNumbers DEF LoopIsBounded

(***************************************************************************)
(* The loop of a case ends: it dispatches each action at most once for     *)
(* each of finitely many attempts, and again for each call cancelled,      *)
(* however many calls the callers make and however these overlap           *)
(* (execution/orchestrator.py:154-170, recovery_loop/guards.py:93-101).    *)
(***************************************************************************)
THEOREM TheLoopIsBounded == Spec => []LoopIsBounded
  BY LimitInit, LimitStep, KeysAreEnough, PTL DEF Spec
=============================================================================
