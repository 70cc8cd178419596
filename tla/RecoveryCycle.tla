--------------------------- MODULE RecoveryCycle ---------------------------
(***************************************************************************)
(* The adaptive loop of one case, in process (without a database):         *)
(* RecoveryLoopController.handle_outcome_and_cycle judges a report of an   *)
(* attempt, and if the case is to be evaluated again, decides, asks the    *)
(* policy engine, and has ExecutionOrchestrator.execute dispatch the next  *)
(* attempt.                                                                *)
(*                                                                         *)
(* A Worker is a coroutine of the caller's.  It passes the case and the    *)
(* payment that the last call to return has left (held), and reports of    *)
(* attempts as they come in, late, again, or with the execution left out.  *)
(* A call suspends twice: until the lock of the case is its own, and while *)
(* the executor is at work.  Between these it is one step.                 *)
(***************************************************************************)
EXTENDS OutcomeRules, DecisionEngine, Sequences, FiniteSets

CONSTANTS
  Worker,
  Forecasts,              \* what the prediction models may say
  Amount, Recoveries,     \* the payment's amount, its past interventions
  FirstAction,            \* the attempt that the case begins with
  MaxConsecutive,         \* max_same_action_consecutive
  MaxCalls, MaxCancels    \* bounds on the calls, and on those cancelled

ASSUME CycleAssumption ==
  /\ Forecasts \subseteq Forecast
  /\ FirstAction \in ActiveAction
  /\ {Amount, Recoveries, MaxConsecutive, MaxCalls, MaxCancels} \subseteq Nat

VARIABLES
  held,        \* the case and the payment as the last call returned them
  executions,  \* every dispatch, in order
  history,     \* _in_memory_history: the executions that were reported
  outcomes,    \* _in_memory_outcomes
  pc, call,    \* each worker's position, and what it works on
  overlapped,  \* some call was made while another was under way
  calls, cancels

vars == <<held, executions, history, outcomes, pc, call, overlapped, calls, cancels>>

-----------------------------------------------------------------------------
\* The case and the payment, as a caller has them.
Copies == [status : CaseStatus, payment : PaymentStatus, attempts : Nat]

\* What is said of an execution: its own result; that the payment failed, with the
\* execution passed along or without it; that the payment was captured.
Saying == {"result", "failed", "failed, unattributed", "captured"}
Report == [of : 1..(MaxCalls + 1), as : Saying]
NoReport == [of |-> 0, as |-> "none"]

\* attempt: the number in the idempotency key; cause: the report that led here;
\* LOST: the call was cancelled while the executor was at work.
Answered == {"SUCCEEDED", "FAILED", "UNKNOWN"}
Dispatched == [action : Action, attempt : Nat, cycle : Nat,
               cause : Report \cup {NoReport}, status : Answered \cup {"RUNNING", "LOST"}]
Call == [report : Report, case : Copies]
NoCall == [report |-> NoReport]
Position == {"idle", "waiting", "dispatching"}

CycleTypeOK ==
  /\ held \in Copies
  /\ executions \in Seq(Dispatched)
  /\ history \in Seq(DOMAIN executions)
  /\ outcomes \in [Report -> OutcomeType \cup {Nothing}]
  /\ pc \in [Worker -> Position]
  /\ call \in [Worker -> Call \cup {NoCall}]
  /\ \A w \in Worker : pc[w] = "idle" <=> call[w] = NoCall
  /\ overlapped \in BOOLEAN
  /\ calls \in 0..MaxCalls /\ cancels \in 0..MaxCancels

\* The first attempt has been carried out.
Init ==
  /\ held \in [status : {"EXECUTING", "OBSERVING"}, payment : {"FAILED", "PENDING"},
               attempts : {0}]
  /\ \E status \in Answered :
       executions = <<[action |-> FirstAction, attempt |-> 1, cycle |-> 1,
                       cause |-> NoReport, status |-> status]>>
  /\ history = <<>>
  /\ outcomes = [r \in Report |-> Nothing]
  /\ pc = [w \in Worker |-> "idle"]
  /\ call = [w \in Worker |-> NoCall]
  /\ overlapped = FALSE
  /\ calls = 0 /\ cancels = 0

-----------------------------------------------------------------------------
\* The caller passes the execution once execute has returned it.
Passes(r) == r.as \in {"result", "failed"}
IsReported(r) ==
  /\ r.of \in DOMAIN executions
  /\ Passes(r) => executions[r.of].status \in Answered

Submit(w, r) ==
  /\ pc[w] = "idle"
  /\ calls < MaxCalls
  /\ IsReported(r)
  /\ calls' = calls + 1
  /\ pc' = [pc EXCEPT ![w] = "waiting"]
  /\ call' = [call EXCEPT ![w] = [report |-> r, case |-> held]]
  /\ overlapped' = (overlapped \/ \E x \in Worker \ {w} : pc[x] # "idle")
  /\ UNCHANGED <<held, executions, history, outcomes, cancels>>

\* The lock of the case is free.
MayRun(w) == pc[w] = "waiting" /\ \A x \in Worker : pc[x] # "dispatching"

-----------------------------------------------------------------------------
\* process_outcome: the facts, the outcome there is already or the one they give, and
\* what follows.  The history it consults is empty here.
FactsAt(w) ==
  LET r == call[w].report IN
  [type |-> IF r.as = "result" THEN "EXECUTION_RESULT" ELSE "PAYMENT_EVENT",
   payment |-> CASE r.as = "result"   -> "none"
                 [] r.as = "captured" -> "CAPTURED"
                 [] OTHER             -> "FAILED",
   raw |-> "none",
   execution |-> IF Passes(r) THEN executions[r.of].status ELSE "none",
   linked |-> TRUE, cycle |-> executions[r.of].cycle]

IsDuplicate(w) == outcomes[call[w].report] # Nothing
OutcomeAt(w) == IF IsDuplicate(w) THEN outcomes[call[w].report]
                ELSE Classify(FactsAt(w), call[w].case.payment)
ThenAt(w) == Resolve(OutcomeAt(w), call[w].case, call[w].case.payment, FactsAt(w).cycle, 0)

\* A cycle past the ceiling raises, whether its outcome is known or not.
RefusesOutcome(w) ==
  ThenAt(w) # Raises =>
    /\ ~ IsDuplicate(w)
    /\ \/ call[w].case.status \in TerminalCase
       \/ CannotFollow(OutcomeAt(w), ThenAt(w), call[w].case.status, call[w].case.payment)

\* The case and the payment after the outcome: a duplicate leaves them alone.
Judged(w) ==
  LET c == call[w].case IN
  IF IsDuplicate(w) THEN c
  ELSE [status |-> Target[ThenAt(w)],
        payment |-> IF Pays(OutcomeAt(w), c.payment) THEN "CAPTURED" ELSE c.payment,
        attempts |-> AttemptsAfter(c, FactsAt(w).cycle)]

\* An execution that is passed along is entered into the history once.
HistoryAt(w) ==
  LET r == call[w].report IN
  IF Passes(r) /\ \A i \in DOMAIN history : history[i] # r.of
    THEN Append(history, r.of) ELSE history

Learns(w) ==
  /\ outcomes' = [outcomes EXCEPT ![call[w].report] = OutcomeAt(w)]
  /\ history' = HistoryAt(w)

\* The caller holds what the call returns; an error leaves it with what it had.
Ends(w) ==
  /\ pc' = [pc EXCEPT ![w] = "idle"]
  /\ call' = [call EXCEPT ![w] = NoCall]
  /\ UNCHANGED <<overlapped, calls>>
ReturnsWhatWasPassed(w, case) == held' = call[w].case /\ Ends(w)
Returns(w, case) == held' = case /\ Ends(w)
RaisesError(w) == Ends(w) /\ UNCHANGED held

-----------------------------------------------------------------------------
\* What the decision and the policy engine are told: the next cycle, and the
\* history as build_policy_execution_history counts it.
FeaturesOfThisCycle(w, forecast) ==
  [amount |-> Amount, attempts |-> FactsAt(w).cycle, recoveries |-> Recoveries,
   retryable |-> forecast.retryable]
FeaturesAt(w, forecast) ==
  [amount |-> Amount, attempts |-> FactsAt(w).cycle + 1, recoveries |-> Recoveries,
   retryable |-> forecast.retryable]

Actions(h) == [i \in DOMAIN h |-> executions[h[i]].action]
Last(h) == IF h = <<>> THEN NoAction ELSE Actions(h)[Len(h)]
Count(h, S) == Cardinality({i \in DOMAIN h : Actions(h)[i] \in S})
InARow(h, action) ==
  Cardinality({i \in DOMAIN h : \A j \in i..Len(h) : Actions(h)[j] = action})

\* The clock stands at 0 when attempts are observed; later it may have moved on.
RequestAt(w, d, now) ==
  LET h == HistoryAt(w) IN
  [action |-> d.action, payment |-> Judged(w).payment, trusted |-> TRUE,
   duplicate |-> FALSE, reused |-> FALSE, stale |-> FALSE, faults |-> {},
   amount |-> Amount, confident |-> d.confident, value |-> {d.value}, now |-> now,
   retries |-> Count(h, {"RETRY"}),
   retriedAt |-> IF Count(h, {"RETRY"}) > 0 THEN {0} ELSE {},
   last |-> Last(h), repeats |-> InARow(h, Last(h)),
   interventions |-> Count(h, ActiveAction), links |-> Count(h, {"PAYMENT_LINK"}),
   approved |-> FALSE, flaws |-> {}]

\* check_same_action_repetition
MayRepeatOnceMore(h, action) == h = <<>> \/ InARow(h, action) <= MaxConsecutive
MayRepeat(h, action) == h = <<>> \/ InARow(h, action) < MaxConsecutive

\* The next attempt, as decided, if policy and guard let it pass; otherwise where the
\* case goes.  Only a case at POLICY_CHECK is moved.
AtPolicyCheck(w) == [Judged(w) EXCEPT !.status = IF @ = "EVALUATING" THEN "POLICY_CHECK" ELSE @]
MovedTo(w, status) == [AtPolicyCheck(w) EXCEPT !.status = IF @ = "POLICY_CHECK" THEN status ELSE @]

Passed(w, d, now) ==
  /\ Verdict(RequestAt(w, d, now)) = "ALLOW"
  /\ d.action # NoAction
  /\ MayRepeat(HistoryAt(w), d.action)

HaltedAsJudged(w, d, now) == MovedTo(w, Verdict(RequestAt(w, d, now)))
Halted(w, d, now) ==
  LET verdict == Verdict(RequestAt(w, d, now)) IN
  IF verdict = "REQUIRE_HUMAN_APPROVAL" THEN MovedTo(w, "ESCALATED")
  ELSE IF verdict = "ALLOW" /\ d.action = NoAction THEN AtPolicyCheck(w)
  ELSE MovedTo(w, "STOPPED")

\* execute: the states it accepts, the key, and the result it may have kept.
Key(x) == <<x.action, x.attempt>>
KeyAt(w, d) == <<d.action, Judged(w).attempts + 1>>
Executable(case) ==
  /\ case.payment \in {"FAILED", "PENDING"}
  /\ case.status \in {"POLICY_CHECK", "ACTION_APPROVED", "EXECUTING"}
KeptOnSuccess(key) ==
  {i \in DOMAIN executions : Key(executions[i]) = key /\ executions[i].status = "SUCCEEDED"}
Kept(key) ==
  {i \in DOMAIN executions : Key(executions[i]) = key /\ executions[i].status \in Answered}

\* Only a success moves the case on, from ACTION_APPROVED: a case that was EXECUTING
\* already cannot enter it again, and raises.
ReturnsResult(w, case, status) ==
  IF status # "SUCCEEDED" THEN Returns(w, case)
  ELSE IF MayMoveCase(case.payment, case.status, "EXECUTING")
    THEN Returns(w, [case EXCEPT !.status = "OBSERVING"])
    ELSE RaisesError(w)

-----------------------------------------------------------------------------
\* The outcome cannot be accepted.
Refuse(w) ==
  /\ MayRun(w)
  /\ RefusesOutcome(w)
  /\ RaisesError(w)
  /\ UNCHANGED <<executions, history, outcomes, cancels>>

\* The case is not to be evaluated again, or the caller gave no engines to do so.
Conclude(w) ==
  /\ MayRun(w)
  /\ ~ RefusesOutcome(w)
  /\ Learns(w)
  /\ Returns(w, Judged(w))
  /\ UNCHANGED <<executions, cancels>>

\* The next attempt is not to be: blocked, left to a human, none, or a repetition.
Halt(w, d, now) ==
  /\ Returns(w, Halted(w, d, now))
  /\ UNCHANGED executions

\* execute refuses the states of the case and the payment.
Reject(w, case) ==
  /\ ~ Executable(case)
  /\ RaisesError(w)
  /\ UNCHANGED executions

Reuse(w, case, key) ==
  /\ Executable(case)
  /\ \E i \in Kept(key) : ReturnsResult(w, case, executions[i].status)
  /\ UNCHANGED executions

Dispatch(w, case, key) ==
  /\ Executable(case)
  /\ Kept(key) = {}
  /\ executions' = Append(executions,
       [action |-> key[1], attempt |-> key[2], cycle |-> FactsAt(w).cycle + 1,
        cause |-> call[w].report, status |-> "RUNNING"])
  /\ pc' = [pc EXCEPT ![w] = "dispatching"]
  /\ call' = [call EXCEPT ![w].case = case]
  /\ UNCHANGED <<held, overlapped, calls>>

Execute(w, case, key) == Reject(w, case) \/ Reuse(w, case, key) \/ Dispatch(w, case, key)

\* The case is evaluated again: decision, policy, and what they let pass.
Reevaluate(w) ==
  /\ MayRun(w)
  /\ ~ RefusesOutcome(w)
  /\ ThenAt(w) = "RE_EVALUATE"
  /\ Learns(w)
  /\ \E forecast \in Forecasts, now \in {0, Cooldown} :
       LET d == Decide(FeaturesAt(w, forecast), forecast) IN
       IF Passed(w, d, now)
         THEN Execute(w, MovedTo(w, "ACTION_APPROVED"), KeyAt(w, d))
         ELSE Halt(w, d, now)
  /\ UNCHANGED cancels

\* The executor answers; STOP and ESCALATE always succeed.
Running == CHOOSE i \in DOMAIN executions : executions[i].status = "RUNNING"
Answer(w, status) ==
  /\ pc[w] = "dispatching"
  /\ executions[Running].action \in {"STOP", "ESCALATE"} => status = "SUCCEEDED"
  /\ executions' = [executions EXCEPT ![Running].status = status]
  /\ ReturnsResult(w, call[w].case, status)
  /\ UNCHANGED <<history, outcomes, cancels>>

\* The caller is cancelled, or the executor raises: the result is not kept.
Cancel(w) ==
  /\ pc[w] # "idle"
  /\ cancels < MaxCancels
  /\ cancels' = cancels + 1
  /\ executions' = IF pc[w] = "dispatching" THEN [executions EXCEPT ![Running].status = "LOST"]
                   ELSE executions
  /\ RaisesError(w)
  /\ UNCHANGED <<history, outcomes>>

Next ==
  \E w \in Worker :
    \/ \E r \in Report : Submit(w, r)
    \/ Refuse(w) \/ Conclude(w) \/ Reevaluate(w)
    \/ \E status \in Answered : Answer(w, status)
    \/ Cancel(w)

Spec == Init /\ [][Next]_vars

-----------------------------------------------------------------------------
\* An idempotency key is dispatched again only when its last dispatch was lost
\* (execution/orchestrator.py:154-170).
KeysDispatchedOnce ==
  \A i, j \in DOMAIN executions :
    i < j /\ Key(executions[i]) = Key(executions[j]) => executions[i].status = "LOST"

\* The next attempt follows a report of failure, never a capture, a success or a
\* result that is unknown (recovery_loop/outcomes.py:120-148).
OnlyFailuresLeadOn ==
  \A i \in DOMAIN executions :
    LET r == executions[i].cause IN
    \/ r = NoReport
    \/ r.as \in {"failed", "failed, unattributed"}
    \/ r.as = "result" /\ executions[r.of].status = "FAILED"

\* One call at a time: the cycles end one after the limit, or one later for each call
\* that was cancelled (recovery_loop/guards.py:93-101).
CyclesBounded ==
  overlapped \/ \A i \in DOMAIN executions : executions[i].cycle <= MaxAttempts + 1 + cancels

\* Whatever the limits of the loop let pass, no retry is made in a cycle that is past
\* the decision engine's limit: attempts are told by the number of the cycle to come
\* (recovery_loop/context.py:79, decision/eligibility.py:107-117).
RetriesEndInTime ==
  \A i \in DOMAIN executions :
    executions[i].action = "RETRY" /\ executions[i].cause # NoReport
      => executions[i].cycle < RetryLimit

\* One call at a time: nothing is dispatched once an outcome is RECOVERED.
RecoveryEndsDispatch ==
  [][Len(executions') > Len(executions) /\ ~ overlapped =>
       \A r \in Report : outcomes[r] # "RECOVERED"]_vars

\* The next attempt is not what the last MaxConsecutive of the reported attempts all
\* were (recovery_loop/guards.py:121-142).  An execution that was never reported, or
\* not yet, is not in the history and does not count.
NoBlindRepetition ==
  [][Len(executions') > Len(executions) =>
       \/ history' = <<>> \/ Len(history') < MaxConsecutive
       \/ \E i \in DOMAIN history' :
            /\ i > Len(history') - MaxConsecutive
            /\ Actions(history')[i] # executions'[Len(executions')].action]_vars
=============================================================================
