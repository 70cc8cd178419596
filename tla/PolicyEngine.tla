---------------------------- MODULE PolicyEngine ----------------------------
(***************************************************************************)
(* PolicyEngine.evaluate (policy/engine.py) asked about one decision again *)
(* and again: while things get worse for it, and when a human approves it. *)
(***************************************************************************)
EXTENDS PolicyRules

CONSTANT Requests     \* the requests that are made

ASSUME RequestsAssumption == Requests \subseteq Request

VARIABLES request, verdict
vars == <<request, verdict>>

Outcome == {"ALLOW", "BLOCK", "REQUIRE_HUMAN_APPROVAL"}
NotYet == "not yet"
PolicyTypeOK == request \in Request /\ verdict \in Outcome \cup {NotYet}

Init == request \in Requests /\ verdict = NotYet

Ask(r) ==
  /\ request' = r
  /\ verdict' = Verdict(r)

Evaluate == verdict = NotYet /\ Ask(request)

-----------------------------------------------------------------------------
\* s asks for what r asks for, and every fact about it is as good or worse.
Worse(r, s) ==
  /\ s.action = r.action /\ s.last = r.last
  /\ s.payment = r.payment \/ s.payment \notin {"FAILED", "PENDING"}
  /\ s.trusted => r.trusted
  /\ r.duplicate => s.duplicate
  /\ r.reused => s.reused
  /\ r.stale => s.stale
  /\ r.faults \subseteq s.faults
  /\ s.amount >= r.amount
  /\ s.confident => r.confident
  /\ \A v \in r.value : \E u \in s.value : u <= v
  /\ s.now = r.now /\ r.retriedAt \subseteq s.retriedAt
  /\ s.retries >= r.retries /\ s.repeats >= r.repeats
  /\ s.interventions >= r.interventions /\ s.links >= r.links
  /\ \/ ApprovalProblem(r) = "none"
     \/ s.approved = r.approved /\ r.flaws \subseteq s.flaws

\* A decision that was refused is judged again when its facts have got worse.
EvaluateWhenWorse ==
  \E s \in Requests :
    /\ verdict # NotYet
    /\ Worse(request, s)
    /\ Ask(s)

\* An approval without a flaw is given to a decision that has none.
Approved(r) == [r EXCEPT !.approved = TRUE, !.flaws = {}]
EvaluateWhenApproved ==
  /\ verdict # NotYet
  /\ ~ request.approved
  /\ Ask(Approved(request))

Next == Evaluate \/ EvaluateWhenWorse \/ EvaluateWhenApproved

Spec == Init /\ [][Next]_vars

-----------------------------------------------------------------------------
\* What the rules are to see to, whichever of them does: an action is clear when the
\* payment can be recovered, the event is trusted and new, the models have worked,
\* limits are not reached and it pays, as far as is known; and a high value is approved by a human.
Recoverable(r) == r.payment \in {"FAILED", "PENDING"}
SoundEvent(r) == r.trusted /\ ~ r.duplicate /\ ~ r.stale
WithinLimits(r) ==
  /\ r.action = "RETRY" => /\ r.retries < MaxRetries
                           /\ \A t \in r.retriedAt : t + Cooldown <= r.now
  /\ r.action = "PAYMENT_LINK" => r.links < MaxLinks
  /\ r.last = r.action => r.repeats < MaxRepetitions
  /\ r.interventions < MaxInterventions
Pays(r) == r.confident /\ \A v \in r.value : v > 0 /\ v >= MinExpectedValue
Clear(r) ==
  /\ Recoverable(r) /\ SoundEvent(r) /\ r.faults = {}
  /\ r.action # NoAction => ~ r.reused
  /\ IsActive(r) => WithinLimits(r) /\ Pays(r)
  /\ IsActive(r) /\ r.amount >= HighValue => r.approved
  /\ r.approved => r.flaws = {} /\ r.action # NoAction

\* An action is allowed exactly when it is clear: no rule that has fired is lost in
\* the ranking of the others, with or without an approval (policy/engine.py:157-246).
AllowedExactlyWhenClear ==
  verdict # NotYet => (verdict = "ALLOW" <=> Clear(request))

\* What is unsafe is blocked and never put to a human instead, whatever else has
\* fired (policy/engine.py:168-172, policy/rules.py:567-590).
Unsafe(r) ==
  \/ r.payment = "CAPTURED" \/ ~ r.trusted \/ r.duplicate
  \/ r.reused /\ r.action # NoAction
  \/ r.approved /\ r.flaws # {}
UnsafeIsBlocked == verdict # NotYet /\ Unsafe(request) => verdict = "BLOCK"

Refused == verdict \in Outcome \ {"ALLOW"}

\* A refusal is never turned into a permission by a fact that gets worse: one more
\* rule that fires hides none of the others (policy/engine.py:168-246).
RefusedStaysRefused ==
  [][Refused /\ Worse(request, request') => verdict' # "ALLOW"]_vars

\* A human's approval allows an action whose only problem is its value: it lifts
\* neither a limit nor a low confidence (policy/engine.py:174-198).
ApprovalLiftsValueOnly ==
  [][Refused /\ verdict' = "ALLOW" =>
       /\ request.amount >= HighValue /\ IsActive(request)
       /\ WithinLimits(request) /\ Pays(request)]_vars
=============================================================================
