# A TLA+ model of APRO

APRO recovers failed payments: it takes in the payment provider's webhooks,
opens a *recovery case* for a payment that failed, works out what to do about
it, checks that against policy, executes it, and observes what comes of it.
This directory models the parts of it in which several actors touch the same
rows or objects, and the rules they follow: webhook intake, the transitions of
a case, durable execution, the processing of outcomes, the adaptive cycle that
follows from them, and the decision and policy engines. Paths below are
relative to `src/src/apro/`.

## The system

| Component | State it keeps | Operations | Talks to | What makes it correct |
|---|---|---|---|---|
| domain (`domain/`) | none: pure functions | `transition_payment`, `transition_recovery_case`, `transition_recovery_action`, `transition_execution` | everyone | a move is one of the tables' moves, and nothing leaves a terminal status |
| webhooks (`webhooks/`) | without a database, a set of seen event ids | `POST /webhooks/razorpay` | events | every request is answered, and is answered 2xx only if it took effect |
| events (`events/`) | `raw_events`, `payment_events`, `payments.status` | `process_webhook` | recovery, persistence | each event takes effect once, the latest event decides, a capture is final |
| recovery (`recovery/`) | `recovery_cases`, `audit_events` | `handle_payment_event`, `transition_case` | persistence | one active case of a payment; the case follows the payment |
| persistence (`persistence/`) | the PostgreSQL tables | unit of work, repositories | PostgreSQL | all or nothing; unique indexes and row locks serialise |
| execution (`execution/`) | `executions`, `recovery_actions.status`; without a database a lock and a result for each key | `execute`, `cancel_execution` | policy's state guard, executors | one dispatch for one authorisation; rows that agree |
| policy (`policy/`) | none: pure rules | `evaluate` | execution, recovery loop | no rule that fires is hidden by another; an approval lifts only what it is for |
| decision (`decision/`) | none: pure functions | `decide` | recovery loop | the best eligible action, or none |
| recovery loop (`recovery_loop/`) | processed outcomes, histories and a lock for each case, in memory; `outcomes` in the database | `process_outcome`, `handle_outcome_and_cycle` | execution, policy, decision, persistence, audit | an outcome counts once; cycles end; nothing follows a recovery |
| audit (`audit/`) | `audit_events`; the ids it has seen, in memory | `record_event` | recovery loop, persistence | the trail tells of exactly what is on record |
| providers (`providers/razorpay/`) | none | one HTTP request for each call | Razorpay | its answer is mapped to success, failure or unknown |
| diagnosis, recovery prediction, evaluation, dataset, simulation, adversarial, dashboard, frontend | models, reports | pure functions or read-only queries | | |

The hard parts: two deliveries of one event, or events of one payment, handled
at once; events out of order; a handler that dies in the middle of its
transaction; rows read without a lock and written later; an executor called
inside a transaction that may still be lost; a memory that a rollback does not
undo and a restart forgets; reports of an attempt that come late, twice or
contradict each other; callers whose copies of the case are out of date; some
twenty rules of which one decides. `PROJECT.json` lists each of them
at its line, with the properties that would catch it.

## The modules

| Module | Models |
|---|---|
| `AproDomain` | the lifecycle tables of `domain/`; a transition function is the predicate that says when it returns |
| `RecoveryLedger` | the abstract specification of intake: each event takes effect at most once, in one step |
| `EventPipeline` | `process_webhook` with the orchestration it calls, one action for each stretch between two waits for the database; extends `AproDomain` |
| `EventPipelineProofs`, `EventLedgerProofs` | the proofs about intake: its invariants; order of events and refinement |
| `CaseTransitions` | `transition_case`, called by workers while webhooks are handled; extends `EventPipeline` and interleaves with it |
| `CaseTrailProofs` | the proofs about the audit trail of a case, under handlers and workers |
| `CaseWorkersProofs` | what intake's proofs leave standing while workers write cases; extends the proofs of both |
| `ExecutionOrchestrator` | `execute` with a unit of work, its gate, the executor, crashes, and the webhooks of the payment; extends `AproDomain` |
| `ExecutionLedger` | the abstract specification of execution: an approved action has its effect, is recorded and moves its case on in one step |
| `ExecutionProofs` | the proofs about execution: its invariants, and that it implements the ledger |
| `OutcomeRules` | what one piece of evidence leads to: classification, disposition, bounds, the moves that follow; extends `AproDomain` |
| `OutcomeLoop` | `process_outcome` and the controller against the database, its memory and audit event, restarts, and the webhook of a capture; extends `OutcomeRules` |
| `OutcomeProofs` | its proofs |
| `PolicyRules` | the policy rules, their ranking, and the validation of an approval, as operators; extends `AproDomain` |
| `PolicyEngine` | a decision judged, judged again when its facts get worse, and when a human approves it; extends `PolicyRules` |
| `PolicyProofs` | its proofs |
| `DecisionEngine` | the decision engine as an operator; extends `PolicyRules` |
| `RecoveryCycle` | the whole cycle in process: outcome, decision, policy, guard, execution; composes `OutcomeRules` and `DecisionEngine` |
| `RecoveryCycleProofs` | its proofs |
| `MC...` | the instances TLC checks |

### How state and actions correspond to the code

*Intake.* A `Delivery` is one HTTP delivery and the coroutine that handles it,
in a transaction of its own. A handler writes at most one row to each table, so
rows are named by the delivery that wrote them: `rawEvents` and `paymentEvents`
are sets of deliveries, `caseStatus[d]` is the case that `d` opened. A step ends
where the handler waits for PostgreSQL: `FindRaw` (the deduplication read),
`InsertRaw` (the insert, which waits for an uncommitted row of the same event),
`LockPayment` (`SELECT ... FOR UPDATE`), `FindActiveCase`, and `Commit`, which
makes everything visible at once: the state application, the case, the audit
event. `CloseCase`, `OpenCase` and `KeepCase` are the three branches of
`handle_payment_event`. Locks are not variables of their own: `HoldsPayment`
and `HoldsRawRow` say from a handler's position what it holds. An exception and
a crash are `RollBack`. Bodies are records of the fields control depends on:
payment, type, provider time, and `form`, which says where, if anywhere, the
body is refused. The transaction runs at READ COMMITTED, as the code configures
nothing else. Under the payment's lock the steps up to `Commit` could be one;
they are kept apart because what a handler has read is used later.

*Case transitions.* A worker's transaction reads a case (`ReadCase`), reads the
payment and checks the move (`CheckMove`), finds the row again (`FindAgain`) and
writes it (`SaveCase`), each of which another transaction may come between. The
last two are `RecoveryCaseRepository.save`: the update is of what differs from
the row as it was found, so that a status is written only if it was found to be
another, and the audit event in any case. `SaveCase` waits for a webhook that
holds the row and then overwrites it.

*Execution.* A `Worker` is a coroutine inside `_execute_durable_uow`: `Call`
(the checks of `validation.py` on the objects passed in), `FindKey`, `Claim`
(the insert under the unique index), `PassGate` or `FailGate`, `Start` or
`RefuseStart`, `Dispatch` (the executor, whose effect is outside the
transaction), `Commit`. `executions[k]` is the committed row of key `k`; a row
that is not committed is seen by others only as contention (`HoldsKey`).
`dispatched` counts the calls of the executor, `lost` those whose transaction
was rolled back; both are history variables that no guard reads. The foreign
key of the claim shares the case row (`SharesCase`), which a webhook's
`FOR UPDATE` waits for and another worker's update does not. The webhooks are
`EventPipeline`'s commits as single steps, which `ImplementsLedger` justifies:
intake acts on payment and case as if each event were one step. A case changes
in the model only by `Commit` and by webhooks; the calls between
`POLICY_CHECK` and execution belong to the recovery loop. The case is found once
more after the executor has answered (`call[w].found`, read with `Dispatch`): a
row that the transaction has not written yet gets a status only if it was found
with another (`FoundInPlace`, `CaseAfter`).

*Outcomes.* A `Worker` of `OutcomeLoop` is a coroutine in a `Process`: it reads
case and payment (`Load`), calls the controller in the same transaction, and
commits. `call[w]` holds the copies it passed in and what the code has computed
from them. A step ends where the code awaits: the lock of the case and the
lookup of an earlier outcome (`AnswerDuplicate`, `RefuseTerminal`, `Accept`),
the history (`ClassifyAndRemember`, with which the process also remembers the
outcome and the id of its audit event), the flush of that event (`RecordAudit`), the
outcome (`Append`, `AppendConflicts`, `AppendBreaksReference`), the case, read
and then written column by column (`ReadCase`, `SaveCase`, `Written`), and the
payment (`SavePayment`). `known` and `seen` are what each process has in memory
(`_in_memory_outcomes`, `_seen_event_ids`), which a rollback does not undo;
`undone` is a history variable that says for which evidence this happened. With
a database the cycle ends at `SaveNextAction`: `act_<case>_<cycle>` is refused
by the `uuid` column of `recovery_actions`, and the transaction is rolled back.
`hook` is the webhook of a capture with its two row locks, in the order that
`EventPipeline` has them. `NextAttempt` stands for the commits of
`CaseTransitions` and `ExecutionOrchestrator` in between. The audit events that
the controller writes of its re-evaluation (`recovery_loop/controller.py:201-255`)
decide nothing and are left out: if one is refused, the transaction is rolled
back, as `SaveNextAction` does of the same position.

*Policy.* `Verdict` is a function of one request, whose fields are the facts
the rules look at. The rules keep the level and the place they have in
`ALL_RULES`, since `sorted` is stable and the first of the lowest level
decides. An approval is consulted only where a rule of level 7 decides, so that
a low confidence (S2, level 6) stays with a human although one has approved.
Level 3 and rule H4 never apply: no rule has the former, and the enumeration
holds supported actions only. What is expected of an action may be missing:
`value` holds what is known of it, and S3 and S4 do not fire on nothing.

*Decision.* `Decide` takes the predictions as input. STOP and ESCALATE are
always eligible, so that the code's `NO_ELIGIBLE_ACTION` cannot be reached; the
threshold is that of the best value, while the winner of a tie may be worth
less. Its limits are configured apart from those of the policy engine. No action
is decided with a confidence of 0.50, which is the policy engine's threshold and
so counts as confident.

*Recovery cycle.* Without a database a call suspends twice, for the lock of the
case and while the executor is at work; between these it is one step
(`Conclude`, `Reevaluate`, `Answer`). Cancellation may come at either. `held`
is what the caller holds: the copies that the last call to return gave it, and
`call[w].case` those that a call works on. `executions` is every dispatch in
order, a history variable but for the results that `execute` keeps by key
(`Kept`); `history` names those that were reported with their execution. A
report is of any attempt, at any time, and again; it may come without its
execution (`failed, unattributed`). The loop gives the policy engine no
approval and no used key (`recovery_loop/history.py` fills neither).

Some definitions stand next to a faulty variant (`PaymentNeverContended` next
to `PaymentContended`) which no action uses. `PROJECT.json` pairs each property
with the variant that must break it.

## What the runs check

| Run | Question | Size |
|---|---|---|
| `pipeline_intake` | Is intake safe, and does it implement the ledger? | 3 handlers, 3 events, 1 payment, 9 bodies, 1 crash; 1.1 million states |
| `pipeline_live` | Is every sound delivery answered in the end? | 3 handlers, 2 events, 3 bodies, 1 crash; 26 thousand states |
| `case_workers` | What survives lost updates of a case? | 2 workers, 4 transitions, 2 further events; 727 thousand states |
| `case_lost_update` | Is there still one active case? **No.** | as above |
| `execution` | Do dispatches, rows and answers agree, is an execution as good as one step, and does every call end? | 2 workers, 3 calls, 3 actions of 2 keys, 1 crash; 91 thousand states |
| `execution_crash` | Is a key dispatched at most once? **No.** | as above |
| `execution_captured` | Does the gate see a capture? **No.** | as above |
| `execution_conflict` | Does a key conflict always fail? **No.** | as above |
| `outcome_loop` | Do outcomes, audit trail, case, payment and answers agree, and do attempts end? | 2 workers in 1 or 2 processes, 3 reports of failure and a capture, 3 calls, 1 failure; 199 thousand states |
| `outcome_faults` | Does a case move only with an outcome, and does every call end? | as above with 2 calls, unusual evidence, and a process without audit; 44 thousand states |
| `policy_rules` | Is exactly what is clear allowed? | each action, in calm circumstances of which up to two facts are changed |
| `recovery_cycle` | What may be dispatched next, and does it end? | 2 workers, 3 calls, 1 cancelled, 5 forecasts; 195 thousand states |

Intake. `OneActiveCase`: a payment has one active case at most, which no table
constraint enforces. `RecoveryTracksPayment`: it has one exactly when a failure
of it is on record and it is not captured, stale failures included.
`EventRecordedOnce` and `AcknowledgedIsRecorded`: duplicates leave one row, and
a 2xx is never sent for what could still be rolled back. `LatestEventWins`:
whatever the order of delivery, the payment stands where the latest event puts
it, except that a capture is refused while the payment is `CREATED`.
`CapturedIsFinal` is an action property: nothing leaves `CAPTURED`, and no case
is opened for it. `AuditExplainsCase`: the audit trail of a case is an unbroken
path to its status. `ImplementsLedger`: every step is a step of
`RecoveryLedger` or a stutter. `SoundEventsAnswered` is liveness.

Case transitions. `PolicyBeforeExecution` and `RecoveredOnlyAfterObservation`
hold although updates are lost, because a row only ever holds a status that was
reached legally; `OneActiveCase` does not. `RevivalsAreAudited` says how far it
fails: where a payment has two active cases, or a captured one has any, the
audit trail of a case of that payment shows a move out of a terminal status.

Execution. `OneSurvivingDispatch`: a second dispatch of a key needs a lost
transaction. `ExecutionsEnd`: no committed row is `PENDING` or `RUNNING`, so a
caller is never told that an execution is under way, and `cancel_execution`
finds nothing left to cancel. `ActionsFollowExecutions`: an action has moved
exactly as its own execution ended; after `UNKNOWN` it stays `EXECUTING`.
`CasesMoveForAReason`: a case is observed, stopped or escalated only with a
recorded success or a capture to show for it. `AnswersAreOnRecord`: every
result given to a caller is the row on record. `ImplementsExecutions`: every
step is a step of `ExecutionLedger` or a stutter, where the calls of the executor
count from the end of their transaction (`Settled`); so nothing is executed
that is not approved at that moment, whatever copy the caller holds, and a crash
loses an effect and nothing else. A success moves the case to its goal, or leaves
it if it had reached the goal before and another worker has moved it on since. `CallsEnd` is liveness.

Outcomes. `RecoveredIsPaid`: an outcome or a case is RECOVERED only when the
payment is captured, although both are written from copies. `AnswersAreKept`: a
caller is given the outcome on record, unless the transaction it is of is still
open, or was rolled back and left its outcome in the memory of that process.
`AuditMatchesOutcomes`: outcomes and audit events are on record together, when
every process has the audit service: two memories that are each wrong after a
rollback are wrong together. `AttemptsBounded`: workers that judge from stale
copies pass the limit by one attempt each at most. `CaseMovesWithItsOutcome`:
nothing but a new outcome, a capture or the next attempt moves the case, so
that an answer to a duplicate does not. `CallsEnd` is liveness: the loop writes
the case before the payment and the webhook locks them the other way round;
PostgreSQL parts them.

Policy. `AllowedExactlyWhenClear` compares the ranking of the rules with a
statement of what they are to see to. `UnsafeIsBlocked`: a rule that asks for
a human never hides one that blocks on safety (it may hide a block of its own
level: S2 precedes S3 and S4). `RefusedStaysRefused`: one more fact against an
action never allows it. `ApprovalLiftsValueOnly`, which is proved but not run
(the first comes close to it): an approval lifts no limit.

Recovery cycle. `KeysDispatchedOnce`: a key is dispatched again only after a
lost dispatch, `OnlyFailuresLeadOn`: and only because of a failure.
`CyclesBounded` and `RecoveryEndsDispatch` are of callers that make one call at
a time: with overlapping calls, copies that are out of date let an attempt
follow a capture, or pass the limit. `RetriesEndInTime`: the decision engine
counts cycles, not retries. `NoBlindRepetition`: an attempt never prolongs a run
of one action that the history ends with past `MaxConsecutive`. It is the
history of what was reported: an execution that was never reported, or is
reported late, is not in it when the guard counts, and no property bounds
repetition by what was really executed.

### Findings

Four properties that the phase specifications under `docs/` state are violated
by the code; `PROJECT.json` quotes them.

1. `transition_case` loses updates: a case that a capture closed, or another
   worker stopped, becomes active again, and a payment then may have two active
   cases (and every later event of it raises in `scalar_one_or_none`).
2. A crash between the executor's call and the commit frees the idempotency
   key: the next call dispatches again.
3. The final gate looks at the payment the caller passed in, not at the row: a
   payment captured meanwhile is dispatched.
4. A claim refused by the unique index is answered with the row in its way, of
   whichever action, without the conflict check of the first lookup.

Further disagreements were met while modelling, which no run is about; the
models have the behaviour as the code does.

* Evidence that is delivered twice is evaluated again and may dispatch another
  action (`docs/PHASE_13_...:970-981` and `:1535` say it must not): with a new
  key, since the first result is kept under the old one.
* After a dispatch that failed or is unknown, the loop's copy of the case stays
  `ACTION_APPROVED`, from which later evidence, a capture included, raises. A
  copy that was `EXECUTING` already raises after a successful dispatch.
* A STOP or ESCALATE that is executed leaves the loop's copy `OBSERVING`
  (`recovery_loop/controller.py:434-446`), while the execution orchestrator
  has stopped or escalated its own.
* A call that raises after its outcome is recorded makes its retry a duplicate,
  judged from the copies from before.
* A late report of an earlier retry moves the time of the last retry backwards
  (`recovery_loop/history.py:98-101`), and an execution that was never reported
  counts towards no limit.
* In process the bounds are evaluated with an empty history, which allows one
  attempt more than with a database.
* With a database every next action fails on its id
  (`recovery_loop/controller.py:409`).

### Bounds, and why they are enough

Every interaction of intake is between handlers of one payment, since locks,
cases and histories are those of a payment; so one payment, and three handlers:
one that holds a lock, one that waits for it, and one whose transaction has
ended or has a third event in order between two others. The nine bodies hold
two failures and two captures at two times, an authorisation and each refusal.
One crash suffices to lose a transaction; its redelivery is one more pass of
the same handler. The runs use symmetry between handlers and between events,
except the liveness runs. In `case_workers` the case starts at its policy check
with the trail that leads there, because the interleavings with approval,
execution and observation need four transitions after it. The execution run
has one case; two actions of one key (the key is case, action type and attempt,
so that two rows of `recovery_actions` may share it) and one of another kind;
three calls, so that one can come after two that raced. The initial statuses
are representatives of those that the code treats alike: `CREATED` and
`AUTHORIZED` are refused alike by the gate, `PENDING` passes like `FAILED`,
`ACTION_APPROVED` moves like `POLICY_CHECK`.

In the outcome runs two processes and two workers give each of: two workers
that share a memory and a lock, two that share neither, and a restart. Three
reports of failure can bring the attempts past a limit of two, which one worker
alone cannot; three calls let a duplicate follow two calls that raced. One
failure is a rollback, or a restart. The second run replaces the reports by an
execution's own result, a capture that names no execution, and a cycle above
the ceiling, which interfere with nothing but themselves, so that two calls
suffice. The policy run has every threshold's both sides and, since two rules
never need a third to hide one another, every pair of facts. In the cycle run
three calls lead to an attempt, its report and a further attempt, with a second
call in between; thresholds are small numbers on both sides of which the
amounts and forecasts lie; the limit of one attempt and the ceiling of two cycles lie
low enough for both to be passed. It also holds with one worker and five calls. The
theorems drop all the bounds.

### Fairness

`SoundEventsAnswered` and `CallsEnd` need fairness of the handlers only. The
event loop runs every coroutine that can run, hence weak fairness of a
handler's steps. A handler that waits for a row or an index entry is woken in
the order of PostgreSQL's lock queue, so it is not passed over for ever
although the lock is taken again and again: strong fairness of `InsertRaw` and
`LockPayment`, and of a worker's steps. `Retry` is weakly fair: Razorpay
redelivers what was not answered with a 2xx. Of the outcome
loop, weak fairness of a worker's steps, of the webhook's commit and of
PostgreSQL's search for deadlocks suffices: nothing but a bounded number of
other calls can take a lock from a worker that waits. Nothing is assumed of
deliveries, crashes, registrations, restarts or calls.

## What is proved

TLAPS checks, for every value of the constants:

* of intake (`EventPipelineProofs`, `EventLedgerProofs`, `CaseTrailProofs`):
  `TypeOK`, `OneActiveCase`, `RecoveryTracksPayment`, `EventRecordedOnce`,
  `AcknowledgedIsRecorded`, `CapturedIsFinal`, `LatestEventWins`,
  `AuditExplainsCase`, and that intake implements the ledger,
  `ImplementsLedger`;
* of case transitions (`CaseTrailProofs`, `CaseWorkersProofs`):
  `WorkersTypeOK`, `PolicyBeforeExecution`, `RecoveredOnlyAfterObservation`,
  `RevivalsAreAudited`; and that workers leave standing `EventRecordedOnce`,
  `AcknowledgedIsRecorded`, `CapturedIsFinal` and `LatestEventWins`;
* of execution (`ExecutionProofs`): `ExecutionTypeOK`, `OneSurvivingDispatch`,
  `ExecutionsEnd`, `ActionsFollowExecutions`, `CasesMoveForAReason`,
  `AnswersAreOnRecord`, and that execution implements its ledger,
  `ImplementsExecutions`;
* of outcomes (`OutcomeProofs`): `OutcomeTypeOK`, `RecoveredIsPaid`,
  `AnswersAreKept`, `AuditMatchesOutcomes`, `AttemptsBounded`,
  `CaseMovesWithItsOutcome`;
* of policy (`PolicyProofs`): all four properties of the run, and
  `ApprovalLiftsValueOnly`;
* of the cycle (`RecoveryCycleProofs`): all seven properties of the run, for
  every `MaxConsecutive`; what a decision is worth (`DecisionsAreNearlyBest`);
  and two bounds that hold however calls overlap, of an attempt's number
  (`WithinTheCeiling`) and of all executions (`LoopIsBounded`).

The assumptions are those the modules state: bodies are records of the given
fields with a natural-number time, bounds and thresholds are natural numbers,
the markers `NoEvent` and `NoCase` are not events or deliveries, two actions of
one key are of one case and kind (which `policy/idempotency.py` makes so), the
workers are finitely many where they are counted, and the case's first action
is not STOP or ESCALATE.

*Intake.* `OneActiveCase` is not inductive: nothing in it says why a second
handler cannot have looked for an active case before the first one opened it.
`IntakeInv` adds what the locks protect, in two parts. The account of events and
payments (`AccountInv`) asks nothing of a case but that it exists: two open
transactions never hold the same payment row or raw-event key
(`LocksAreExclusive`); rows come from handlers that have ended, and the key of an
open one is not recorded (`RowsAreSettled`); only known payments have a history
(`HistoryIsKnown`); and what a handler has read of the payment under its lock is
still so (`ReadsAreCurrent`). The order of a payment's cases (`CasesInOrder`)
says that it has one active case at most, none once captured, and that a handler
which is about to open or close one has found the one there is. Both are about
what was read steps before: `Commit` acts on it. `CapturedIsFinal` follows from
the account, step by step.

*Order and refinement.* `LatestEventWins` needs to know of a handler that
whether its event is late was decided on the history that is still there
(`LatenessIsCurrent`). For the ledger, a step that commits nothing is a stutter
(`QuietIsStutter`), a commit absorbs one event that was not absorbed before,
with its payment and its recovery (`EventIsAbsorbed`, `CommitIsPromised`), and
an event of an unknown payment is noted (`RawOnlyIsNoted`).

*Audit trails.* `PolicyBeforeExecution` holds in spite of lost updates, which
the status of a case alone cannot explain. `TrailInv` says that a case's
status occurs on its trail (`StatusIsOnTrail`; it need not be the last, since an
update that found the row in place leaves another's status), that what must precede a status precedes
it wherever it occurs (`TrailsAreLegal`), and that the status a worker has read,
stale or not, occurs on the trail (`JobsReadTheTrail`): so whatever it
overwrites, it goes on from somewhere the case has been.

*Workers beside intake.* `OneActiveCase` fails once workers write cases, and with
it the invariant of intake; its two parts show what is left of it. A worker's
write is to a case that exists and that no handler holds (`SaveWrites`), so
`WorkersAccount`, the account joined with `TrailInv`, is kept by every step, and
the properties that rest on the account alone stay. For the order of cases
`OrderInv` goes payment by payment: a payment none of whose cases was revived
still has its cases in order. A trail only gets longer, so that a revival stays
on it, and a write that is no revival finds its case active and leaves it active
or ends it, which makes no second one.

*Execution.* The counting of dispatches needs to know that a key has one open
claim or one committed row and never both (`ClaimsAreExclusive`), how often
exactly the executor was called for it (`DispatchesAreCounted`), and what it
may have answered (`ResultsArePossible`). As a case that was found in place is
not written, what it was found as must have its reason on record too
(`FoundForAReason`). `ExecutionInv` is these with the
properties. Steps that touch neither the tables nor the executor preserve it by
one lemma (`QuietStep`), those that write one row by a second (`RecordRow`),
webhooks by a third (`WebhookStep`). For the ledger one must also know that what
is executed is approved now, not only when the caller read it: a copy of an
action is as it was made as long as its key has no row (`ActionsAreCurrent`),
since nothing moves an action but an execution of its own, which leaves a row.
Then a commit is `Succeeds` or `EndsWithout`, a refusal by the gate `Withdraws`,
and a crash `Vanishes` if the executor had been called.

*Outcomes.* `OutcomeInv` relates each call to what it will commit: its position
says what it has judged (`IsJudged`), what it is to write is paid or will be
paid by itself (`IsPaid`), its process remembers its outcome (`IsRemembered`),
and has its audit event (`IsAudited`). An event that a process has seen is of
an outcome it knows (`SeenIsKnown`), and one it knows is on record, open or
undone (`MemoryIsAccounted`). `AttemptsBounded` counts, from the limit on, the
transactions that are about to leave the case `EVALUATING`
(`AttemptsAreCounted`).

*Policy.* `Verdict` allows exactly when no rule fires, or when the one that
ranks first is of level 7 and the approval has no flaw; as level 7 is the last,
then no other level has fired. The properties follow from that by cases.

*Cycle.* `CoreInv` holds whatever the callers do: one call dispatches at a time
and what runs is the last dispatch, reports are of attempts there are, an
outcome is FAILED only where the report says so, and each dispatch has its
cause. With one call at a time, `AloneInv` says how far the caller's copies are
behind: by what was dispatched or judged in calls that were cancelled, at most
(`Tells`), and never about a recovery. A step that overlaps calls ends it for
good, which `CycleInv` allows. The two bounds need no such thing. A further
attempt has the number after its cycle's, which the ceiling limits, or after the
number its caller's copy has, which the guard limits: the higher of
`MaxAttempts` and `HardCeiling + 1` (`Limit`) bounds them all. What was not lost
has a key of its own (`KeysDispatchedOnce`), there are five keys to a number, and
a dispatch is lost only to a cancelled call: together `5 * Limit + cancels`.

*Decisions.* The winner of a tie is eligible and within the tolerance of the best
value, which is at least the threshold. Hence `DecisionsAreNearlyBest`, for all
predictions: the value of the action decided on may lie below the threshold, by
the tolerance at most.

Only model-checked: liveness (`SoundEventsAnswered`, both `CallsEnd`), which is
out of the prover's reach; every safety and action property of the passing runs,
and both refinements, are proved.

## What is not modelled, and why

* The webhook handler without a database: its comment calls it a path for unit
  tests. It keeps a set of seen ids, without an await in between, and changes
  nothing else.
* The provider client: one HTTP request and a mapping of its answer, without
  retries, state or concurrency. What it may answer is the executor's choice.
* The executor registry, request building and parameter checks of `execution/`,
  the explanations, confidences and hashes of `decision/` and `policy/`,
  signature checks and JSON: they touch no shared state. Where they can refuse,
  a way to be refused stands for them.
* The mappers, and the repositories that only append or report.
* The audit events of a re-evaluation (see *Outcomes* above).
* Sanitising, hashing and reconstruction in `audit/`: pure functions of records.
* Diagnosis, recovery prediction, evaluation, dataset, simulation: numeric code
  over one record or offline batches, without shared state.
* Dashboard and frontend: read-only. The adversarial harness drives the other
  components. Migrations and scripts: schema and tools. These and the numeric
  parts are most of the repository's lines, which is why the map covers a small
  share of them.

## Plan

1. Done: intake, case transitions, durable execution, and their proofs.
2. Done: outcomes against the database, and the in-process cycle with decision,
   policy and execution; their proofs.
3. Done: the policy engine and its proofs.
4. Done: the order of events, audit trails and the refinement of the ledger,
   proved.
5. Done: what workers leave standing of intake, the bounds of the cycle, the
   refinement of the execution ledger, proved.
6. What could follow: an abstract specification of outcomes, in which evidence is
   judged in one step, implemented by `OutcomeLoop`; the time of the last retry, with a clock that lets late
   reports matter; `OutcomeLoop` composed with `EventPipeline` itself rather
   than with the one webhook it has; the loop against the database past the
   next action's save, once that can succeed.
