----------------------- MODULE ExecutionOrchestrator -----------------------
(***************************************************************************)
(* Durable execution of an authorised recovery action:                     *)
(* ExecutionOrchestrator.execute with a unit of work                       *)
(* (execution/orchestrator.py), the checks of execution/validation.py and  *)
(* policy/state_guard.py, and the unique index on                          *)
(* executions.idempotency_key.                                             *)
(*                                                                         *)
(* A Worker is a coroutine with a transaction of its own.  The executor is *)
(* called before the transaction commits: what the executor did is not     *)
(* undone when the transaction is.  The webhooks that move the payment are *)
(* the commits of EventPipeline, each one step here.                       *)
(***************************************************************************)
EXTENDS AproDomain, Naturals

CONSTANTS
  Case,        \* recovery cases, each of a payment of its own
  Action,      \* rows of recovery_actions
  Key,         \* idempotency keys
  Worker,      \* callers of execute
  CaseOf, KindOf, KeyOf,  \* each action's case, kind and key
  MaxCalls,    \* bound on the calls of execute
  MaxCrashes   \* bound on the workers that die half way

\* "attempt": RETRY, ALTERNATE_RECOVERY or OUTREACH, which may fail.
Kind == {"attempt", "STOP", "ESCALATE"}

\* A key is idem_<case>_<action type>_<attempt>: two actions of one key may exist.
ASSUME ActionAssumption ==
  /\ CaseOf \in [Action -> Case]
  /\ KindOf \in [Action -> Kind]
  /\ KeyOf \in [Action -> Key]
  /\ \A a, b \in Action :
       KeyOf[a] = KeyOf[b] => CaseOf[a] = CaseOf[b] /\ KindOf[a] = KindOf[b]
ASSUME BoundAssumption == MaxCalls \in Nat /\ MaxCrashes \in Nat

VARIABLES
  payStatus,    \* payments.status of each case's payment
  caseStatus,   \* recovery_cases.status
  actionStatus, \* recovery_actions.status
  executions,   \* the committed row of executions of each key, or NoRow
  dispatched,   \* how often the executor was called for each key
  lost,         \* how many of those calls no committed row tells of
  pc, call,     \* each worker's position, and what it was called with
  reply,        \* the result its last call returned, or NoRow
  calls, crashes

tables == <<payStatus, caseStatus, actionStatus, executions>>
effects == <<dispatched, lost>>
workers == <<pc, call, reply, calls, crashes>>
vars == <<payStatus, caseStatus, actionStatus, executions, dispatched, lost,
          pc, call, reply, calls, crashes>>

-----------------------------------------------------------------------------
Position == {"idle", "finding", "claiming", "claimed", "gated", "running",
             "dispatched"}
TerminalExecution == {"SUCCEEDED", "FAILED", "UNKNOWN", "CANCELLED"}
ExecutionStatus == {"PENDING", "RUNNING"} \cup TerminalExecution

ActionMoves ==
  [CANDIDATE   |-> {"RECOMMENDED", "BLOCKED"},
   RECOMMENDED |-> {"APPROVED", "BLOCKED"},
   APPROVED    |-> {"EXECUTING", "CANCELLED"},
   EXECUTING   |-> {"COMPLETED", "FAILED", "CANCELLED"},
   BLOCKED |-> {}, COMPLETED |-> {}, FAILED |-> {}, CANCELLED |-> {}]
ActionStatus == DOMAIN ActionMoves
TerminalAction == {"BLOCKED", "COMPLETED", "FAILED", "CANCELLED"}

Row == [action : Action, status : ExecutionStatus]
NoRow == [status |-> "no row"]
\* payment, case, moved: the statuses of the objects the caller passed in; wrote:
\* the case's row has been written by this transaction; found: the case's committed
\* status when it was last read.
CallRecord == [action : Action, payment : PaymentStatus, case : CaseStatus,
               moved : ActionStatus, wrote : BOOLEAN, result : ExecutionStatus,
               found : CaseStatus]
NoCall == [result |-> "no call"]

ExecutionTypeOK ==
  /\ payStatus \in [Case -> PaymentStatus]
  /\ caseStatus \in [Case -> CaseStatus]
  /\ actionStatus \in [Action -> ActionStatus]
  /\ executions \in [Key -> Row \cup {NoRow}]
  /\ dispatched \in [Key -> Nat]
  /\ lost \in [Key -> Nat]
  /\ pc \in [Worker -> Position]
  /\ call \in [Worker -> CallRecord \cup {NoCall}]
  /\ \A w \in Worker : pc[w] # "idle" => call[w] \in CallRecord
  /\ reply \in [Worker -> Row \cup {NoRow}]
  /\ calls \in 0 .. MaxCalls
  /\ crashes \in 0 .. MaxCrashes

EligibleCase == {"POLICY_CHECK", "ACTION_APPROVED", "EXECUTING"}

Init ==
  /\ payStatus \in [Case -> PaymentStatus \ {"CAPTURED"}]
  /\ caseStatus \in [Case -> EligibleCase]
  /\ actionStatus \in [Action -> {"RECOMMENDED", "APPROVED"}]
  /\ executions = [k \in Key |-> NoRow]
  /\ dispatched = [k \in Key |-> 0]
  /\ lost = [k \in Key |-> 0]
  /\ pc = [w \in Worker |-> "idle"]
  /\ call = [w \in Worker |-> NoCall]
  /\ reply = [w \in Worker |-> NoRow]
  /\ calls = 0
  /\ crashes = 0

-----------------------------------------------------------------------------
CaseAt(w) == CaseOf[call[w].action]
KeyAt(w) == KeyOf[call[w].action]

\* uq_executions_idempotency_key: an open claim makes a second one wait.
HoldsKey(w, k) == pc[w] \in {"claimed", "gated", "running", "dispatched"} /\ KeyAt(w) = k
KeyNeverContended(w) == FALSE
KeyContended(w) == \E x \in Worker \ {w} : HoldsKey(x, KeyAt(w))

\* The claim's foreign key holds the case row FOR KEY SHARE, its update holds it
\* against other updates.  A webhook's SELECT ... FOR UPDATE waits for both.
SharesCase(w, c) == pc[w] \in {"claimed", "gated", "running", "dispatched"} /\ CaseAt(w) = c
HoldsCase(w, c) == SharesCase(w, c) /\ call[w].wrote
CaseContendedByAnyone(w) == \E x \in Worker : SharesCase(x, CaseAt(w))
CaseContended(w) == \E x \in Worker \ {w} : HoldsCase(x, CaseAt(w))

\* execute returns this row's state, or raises: NoRow.
Ends(w, row) ==
  /\ pc' = [pc EXCEPT ![w] = "idle"]
  /\ call' = [call EXCEPT ![w] = NoCall]
  /\ reply' = [reply EXCEPT ![w] = row]
  /\ UNCHANGED calls

GoesOn(w, position) ==
  /\ pc' = [pc EXCEPT ![w] = position]
  /\ UNCHANGED <<call, reply, calls>>

-----------------------------------------------------------------------------
\* execute is called for an action the policy engine allowed, with objects the
\* caller read in an earlier transaction; it goes on when its preconditions hold
\* of them.
Call(w, a) ==
  LET c == CaseOf[a] IN
  /\ pc[w] = "idle"
  /\ calls < MaxCalls
  /\ payStatus[c] # "CAPTURED"
  /\ caseStatus[c] \in EligibleCase
  /\ actionStatus[a] \notin TerminalAction
  /\ pc' = [pc EXCEPT ![w] = "finding"]
  /\ call' = [call EXCEPT ![w] =
       [action |-> a, payment |-> payStatus[c], case |-> caseStatus[c],
        moved |-> actionStatus[a], wrote |-> FALSE, result |-> "PENDING",
        found |-> caseStatus[c]]]
  /\ reply' = [reply EXCEPT ![w] = NoRow]
  /\ calls' = calls + 1
  /\ UNCHANGED <<tables, effects, crashes>>

\* find_by_idempotency_key: an execution of this key is returned, unless it is
\* of another action, which raises.
FindKey(w) ==
  LET row == executions[KeyAt(w)] IN
  /\ pc[w] = "finding"
  /\ IF row = NoRow THEN GoesOn(w, "claiming")
     ELSE Ends(w, IF row.action = call[w].action THEN row ELSE NoRow)
  /\ UNCHANGED <<tables, effects, crashes>>

ClaimAnsweredPending(w) ==
  /\ pc[w] = "claiming"
  /\ ~ KeyContended(w)
  /\ IF executions[KeyAt(w)] = NoRow THEN GoesOn(w, "claimed")
     ELSE Ends(w, [action |-> call[w].action, status |-> "PENDING"])
  /\ UNCHANGED <<tables, effects, crashes>>

ClaimCommitted(w) ==
  LET k == KeyAt(w) IN
  /\ pc[w] = "claiming"
  /\ ~ KeyContended(w)
  /\ IF executions[k] = NoRow
       THEN /\ GoesOn(w, "claimed")
            /\ executions' = [executions EXCEPT ![k] =
                                [action |-> call[w].action, status |-> "PENDING"]]
       ELSE Ends(w, executions[k]) /\ UNCHANGED executions
  /\ UNCHANGED <<payStatus, caseStatus, actionStatus, effects, crashes>>

\* The insert of the PENDING row waits for an open claim of the key; refused, it
\* is rolled back and the row that was in its way is returned, of whichever action.
Claim(w) ==
  /\ pc[w] = "claiming"
  /\ ~ KeyContended(w)
  /\ IF executions[KeyAt(w)] = NoRow THEN GoesOn(w, "claimed")
     ELSE Ends(w, executions[KeyAt(w)])
  /\ UNCHANGED <<tables, effects, crashes>>

\* StateGuard.recheck_current_state, of the payment the caller passed in.
GateOpen(w) == call[w].payment \in {"FAILED", "PENDING"}

PassGate(w) ==
  /\ pc[w] = "claimed"
  /\ GateOpen(w)
  /\ GoesOn(w, "gated")
  /\ UNCHANGED <<tables, effects, crashes>>

\* The claim is committed as CANCELLED, and execute raises.
FailGate(w) ==
  /\ pc[w] = "claimed"
  /\ ~ GateOpen(w)
  /\ executions' = [executions EXCEPT ![KeyAt(w)] =
                      [action |-> call[w].action, status |-> "CANCELLED"]]
  /\ Ends(w, NoRow)
  /\ UNCHANGED <<payStatus, caseStatus, actionStatus, effects, crashes>>

StartUnchecked(w) ==
  /\ pc[w] = "gated"
  /\ pc' = [pc EXCEPT ![w] = "running"]
  /\ call' = [call EXCEPT ![w].wrote = TRUE]
  /\ ~ CaseContended(w)
  /\ UNCHANGED <<tables, effects, reply, calls, crashes>>

\* The action, the case and the execution are written as EXECUTING and RUNNING.
\* A case passed in and found as EXECUTING may need no update; otherwise its row
\* is written, once no other worker holds it.
Start(w) ==
  /\ pc[w] = "gated"
  /\ "EXECUTING" \in ActionMoves[call[w].moved]
  /\ \E writes \in BOOLEAN :
       /\ writes \/ (call[w].case = "EXECUTING" /\ caseStatus[CaseAt(w)] = "EXECUTING")
       /\ writes => ~ CaseContended(w)
       /\ call' = [call EXCEPT ![w].wrote = writes]
  /\ pc' = [pc EXCEPT ![w] = "running"]
  /\ UNCHANGED <<tables, effects, reply, calls, crashes>>

\* transition_recovery_action raises, and everything is rolled back.
RefuseStart(w) ==
  /\ pc[w] = "gated"
  /\ "EXECUTING" \notin ActionMoves[call[w].moved]
  /\ Ends(w, NoRow)
  /\ UNCHANGED <<tables, effects, crashes>>

\* executor.execute: the escalation and no-op executors always succeed.  With its
\* answer, the save that follows reads the case's row again.
Results(kind) == IF kind = "attempt" THEN TerminalExecution ELSE {"SUCCEEDED"}

Dispatch(w, result) ==
  LET k == KeyAt(w) IN
  /\ pc[w] = "running"
  /\ result \in Results(KindOf[call[w].action])
  /\ dispatched' = [dispatched EXCEPT ![k] = @ + 1]
  /\ pc' = [pc EXCEPT ![w] = "dispatched"]
  /\ call' = [call EXCEPT ![w].result = result, ![w].found = caseStatus[CaseAt(w)]]
  /\ UNCHANGED <<tables, lost, reply, calls, crashes>>

\* _apply_post_execution_transitions
ActionTakesStatus(result) == result
ActionAfterBlunt(result) == IF result = "SUCCEEDED" THEN "COMPLETED" ELSE "FAILED"
ActionAfter(result) ==
  [SUCCEEDED |-> "COMPLETED", FAILED |-> "FAILED", CANCELLED |-> "CANCELLED",
   UNKNOWN |-> "EXECUTING"][result]

\* Only a success moves the caller's case on from EXECUTING.
Goal == [STOP |-> "STOPPED", ESCALATE |-> "ESCALATED", attempt |-> "OBSERVING"]
CaseTarget(w) ==
  IF call[w].result = "SUCCEEDED" THEN Goal[KindOf[call[w].action]] ELSE "EXECUTING"

\* A row this transaction has not written is given a status only when it was found
\* with another one: a success touches it anyhow, to say when.
FoundInPlace(w) == ~ call[w].wrote /\ call[w].found = CaseTarget(w)
UpdatesRow(w) == ~ FoundInPlace(w) \/ call[w].result = "SUCCEEDED"
CaseAfterAnyResult(w) == Goal[KindOf[call[w].action]]
CaseAfter(w) == IF FoundInPlace(w) THEN caseStatus[CaseAt(w)] ELSE CaseTarget(w)

\* The rows are written again, over whatever they hold, and committed.
Commit(w) ==
  LET a == call[w].action
      row == [action |-> a, status |-> call[w].result] IN
  /\ pc[w] = "dispatched"
  /\ (UpdatesRow(w) /\ ~ call[w].wrote) => ~ CaseContended(w)
  /\ executions' = [executions EXCEPT ![KeyOf[a]] = row]
  /\ actionStatus' = [actionStatus EXCEPT ![a] = ActionAfter(row.status)]
  /\ caseStatus' = [caseStatus EXCEPT ![CaseOf[a]] = CaseAfter(w)]
  /\ Ends(w, row)
  /\ UNCHANGED <<payStatus, effects, crashes>>

\* The worker dies and its transaction is rolled back; the executor's work stays.
Crash(w) ==
  /\ pc[w] # "idle"
  /\ crashes < MaxCrashes
  /\ crashes' = crashes + 1
  /\ lost' = IF pc[w] = "dispatched" THEN [lost EXCEPT ![KeyAt(w)] = @ + 1] ELSE lost
  /\ Ends(w, NoRow)
  /\ UNCHANGED <<tables, dispatched>>

Execute(w) ==
  \/ FindKey(w) \/ Claim(w) \/ PassGate(w) \/ FailGate(w)
  \/ Start(w) \/ RefuseStart(w) \/ Commit(w)
  \/ \E result \in TerminalExecution : Dispatch(w, result)

-----------------------------------------------------------------------------
\* A webhook commits a capture: it locks the active case, and closes it.
WebhookCaptures(c) ==
  /\ MayMovePayment(payStatus[c], "CAPTURED")
  /\ payStatus' = [payStatus EXCEPT ![c] = "CAPTURED"]
  /\ IF caseStatus[c] \in ActiveCase
       THEN /\ \A w \in Worker : ~ SharesCase(w, c)
            /\ caseStatus' = [caseStatus EXCEPT
                 ![c] = IF @ = "OBSERVING" THEN "RECOVERED" ELSE "STOPPED"]
       ELSE UNCHANGED caseStatus
  /\ UNCHANGED <<actionStatus, executions, effects, workers>>

\* A webhook commits an authorisation, which locks no case.
WebhookAuthorizes(c) ==
  /\ MayMovePayment(payStatus[c], "AUTHORIZED")
  /\ payStatus' = [payStatus EXCEPT ![c] = "AUTHORIZED"]
  /\ UNCHANGED <<caseStatus, actionStatus, executions, effects, workers>>

Next ==
  \/ \E w \in Worker : \/ \E a \in Action : Call(w, a)
                       \/ Execute(w)
                       \/ Crash(w)
  \/ \E c \in Case : WebhookCaptures(c) \/ WebhookAuthorizes(c)

Spec == Init /\ [][Next]_vars

\* The event loop runs a coroutine that can run, and PostgreSQL grants a
\* contended key or row in the order it was asked for: a worker that waits for one
\* is not passed over for ever.
Fairness == \A w \in Worker : SF_vars(Execute(w))
FairSpec == Spec /\ Fairness

-----------------------------------------------------------------------------
\* However many workers ask for one authorisation at once, the executor is called
\* for it a second time only when the first call's transaction was lost
\* (execution/orchestrator.py:194-223, the unique index on idempotency_key).
OneSurvivingDispatch == \A k \in Key : dispatched[k] <= lost[k] + 1

\* The executor's work is never half recorded: a committed execution has ended,
\* so that nobody ever finds one PENDING or RUNNING, and one that was dispatched
\* is accounted for by its row, its worker or a crash.
ExecutionsEnd ==
  \A k \in Key :
    /\ executions[k] # NoRow => executions[k].status \in TerminalExecution
    /\ dispatched[k] > lost[k] =>
         \/ executions[k] # NoRow
         \/ \E w \in Worker : pc[w] = "dispatched" /\ HoldsKey(w, k)

\* The tables tell one story: an action has moved exactly as its own execution
\* ended; one whose key another action used up has not moved.
Executed(a, status) == executions[KeyOf[a]] = [action |-> a, status |-> status]
ActionsFollowExecutions ==
  \A a \in Action :
    /\ actionStatus[a] = "COMPLETED" <=> Executed(a, "SUCCEEDED")
    /\ actionStatus[a] = "FAILED" <=> Executed(a, "FAILED")
    /\ actionStatus[a] = "EXECUTING" <=> Executed(a, "UNKNOWN")
    /\ actionStatus[a] = "CANCELLED" => Executed(a, "CANCELLED")

SucceededOn(c, kind) ==
  \E a \in Action : CaseOf[a] = c /\ KindOf[a] = kind /\ Executed(a, "SUCCEEDED")
HasReason(c, status) ==
  LET captured == payStatus[c] = "CAPTURED" IN
  /\ status = "OBSERVING" => SucceededOn(c, "attempt")
  /\ status = "ESCALATED" => SucceededOn(c, "ESCALATE")
  /\ status = "STOPPED"   => SucceededOn(c, "STOP") \/ captured
  /\ status = "RECOVERED" => captured

\* A case has moved on for a reason that is on record: it is observed after a
\* successful attempt, and ends by an executed action or by a capture, also when
\* workers and webhooks overwrite each other's updates.
CasesMoveForAReason == \A c \in Case : HasReason(c, caseStatus[c])

\* Every caller that was given a result was given the one on record, also the
\* caller whose claim came second.
AnswersAreOnRecord ==
  \A w \in Worker :
    reply[w] # NoRow => \E k \in Key : executions[k] = reply[w]

(***************************************************************************)
(* The calls of the executor whose transaction has ended; one whose worker *)
(* has not committed yet is none of them.                                  *)
(***************************************************************************)
Settled == [k \in Key |-> IF executions[k] = NoRow THEN lost[k] ELSE dispatched[k]]

Ledger == INSTANCE ExecutionLedger WITH
  payment <- payStatus, recovery <- caseStatus, actions <- actionStatus,
  record <- executions, effects <- Settled, Absent <- NoRow

\* execute keeps the promise of the ledger: although it checks copies, calls the
\* executor before it commits and shares rows with other workers and webhooks, an
\* approved action has its effect, is recorded and moves its case on in one step,
\* once for each key, unless the effect is lost (execution/orchestrator.py:154-330).
ImplementsExecutions == Ledger!Spec

\* A call of execute ends, if only because its worker died: no worker waits for
\* ever for a key or a case that another one holds.
CallsEnd == \A w \in Worker : pc[w] # "idle" ~> pc[w] = "idle"

-----------------------------------------------------------------------------
(***************************************************************************)
(* Why the invariants above hold: the inductive invariant of the execution.*)
(***************************************************************************)
\* A key has one open claim or one row, never both.
ClaimsAreExclusive ==
  \A w \in Worker : \A k \in Key : HoldsKey(w, k) =>
    /\ executions[k] = NoRow
    /\ \A x \in Worker \ {w} : ~ HoldsKey(x, k)

\* How often the executor was called, exactly.
DispatchesAreCounted ==
  /\ \A k \in Key : executions[k] = NoRow =>
       \/ dispatched[k] = lost[k]
       \/ \E w \in Worker : pc[w] = "dispatched" /\ HoldsKey(w, k)
  /\ \A w \in Worker : \A k \in Key : HoldsKey(w, k) =>
       dispatched[k] = IF pc[w] = "dispatched" THEN lost[k] + 1 ELSE lost[k]

\* What the executor may have answered.
ResultsArePossible ==
  \A w \in Worker :
    pc[w] = "dispatched" => call[w].result \in Results(KindOf[call[w].action])

\* A copy of the action is as it was made, as long as its key has no row; what was
\* started was approved.
ActionsAreCurrent ==
  \A w \in Worker : pc[w] # "idle" =>
    /\ executions[KeyAt(w)] = NoRow => call[w].moved = actionStatus[call[w].action]
    /\ pc[w] \in {"running", "dispatched"} => call[w].moved = "APPROVED"

\* What the case was found as has its reason on record, whoever has moved it since.
FoundForAReason ==
  \A w \in Worker : pc[w] = "dispatched" => HasReason(CaseAt(w), call[w].found)

ExecutionInv ==
  /\ ExecutionTypeOK
  /\ ClaimsAreExclusive
  /\ DispatchesAreCounted
  /\ ResultsArePossible
  /\ OneSurvivingDispatch
  /\ ExecutionsEnd
  /\ ActionsFollowExecutions
  /\ CasesMoveForAReason
  /\ AnswersAreOnRecord

-----------------------------------------------------------------------------
\* What the Phase 11 specification asks for and the code does not do.

\* PHASE_11:1081-1087: one key never has two execution side effects.
AtMostOneDispatch == \A k \in Key : dispatched[k] <= 1

\* PHASE_11:2178-2184: a payment captured before the final gate is not dispatched.
GateSeesCapture ==
  [][\A w \in Worker :
       (pc[w] = "claimed" /\ pc'[w] = "gated") => payStatus[CaseAt(w)] # "CAPTURED"]_vars

\* PHASE_11:1111-1115: an execution of another authorisation is not an answer.
ConflictsFailClosed ==
  [][\A w \in Worker :
       (pc[w] # "idle" /\ reply'[w] # NoRow /\ pc'[w] = "idle")
         => reply'[w].action = call[w].action]_vars
=============================================================================
