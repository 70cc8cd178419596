--------------------------- MODULE EventPipeline ---------------------------
(***************************************************************************)
(* Webhook intake: EventPipeline.process_webhook (events/pipeline.py) with *)
(* the recovery-case orchestration it calls (recovery/orchestrator.py),    *)
(* against the PostgreSQL tables it writes.                                *)
(*                                                                         *)
(* A Delivery is one HTTP delivery of a provider event and the coroutine   *)
(* that handles it, in a transaction of its own (READ COMMITTED).  Its     *)
(* rows are keyed by it, since each handler writes at most one row to each *)
(* table: raw_events, payment_events, recovery_cases.  A step ends where   *)
(* the handler waits for the database; the writes of a transaction become  *)
(* visible when it commits, and its locks are derived from pc.             *)
(*                                                                         *)
(* Next to some definitions stands a faulty variant that no action uses;   *)
(* PROJECT.json says which property tells each of them from the code.      *)
(***************************************************************************)
EXTENDS AproDomain, Naturals, Sequences

CONSTANTS
  Payment,     \* provider payment identities
  Event,       \* provider event identities (X-Razorpay-Event-Id)
  Delivery,    \* handlers, one per delivery of an event
  Payload,     \* the bodies an event may carry
  MaxCrashes   \* bound on the handlers that die half way

SupportedType == {"payment.failed", "payment.authorized", "payment.captured"}

\* form: "rejected" fails a check made before the transaction opens (signature,
\* event id, JSON, envelope), "bad_entity" fails validate_payment_entity,
\* "bad_timestamp" fails in to_canonical_event.
Form == {"valid", "rejected", "bad_entity", "bad_timestamp"}

ASSUME PayloadAssumption ==
  Payload \subseteq [payment : Payment, type : SupportedType \cup {"other"},
                     time : Nat, form : Form]
ASSUME CrashAssumption == MaxCrashes \in Nat

NoEvent == "no event"
NoCase == "no case"
Absent == "absent"
ASSUME NoEventAssumption == NoEvent \notin Event
ASSUME NoCaseAssumption == NoCase \notin Delivery

VARIABLES
  payload,        \* the body of each event, chosen once
  payStatus,      \* payments.status, or Absent: no such row
  rawEvents,      \* raw_events: the deliveries whose row is committed
  paymentEvents,  \* payment_events: the deliveries whose row is committed
  caseStatus,     \* recovery_cases.status of the case a delivery opened
  audit,          \* audit_events of that case, in commit order
  pc, eventOf,    \* the handler's position and the event it carries
  work,           \* what its open transaction has read
  reply,          \* the classification it answered with
  crashes         \* handlers that died so far

database == <<payload, payStatus, rawEvents, paymentEvents, caseStatus, audit>>
handlers == <<pc, eventOf, work, reply, crashes>>
vars == <<payload, payStatus, rawEvents, paymentEvents, caseStatus, audit,
          pc, eventOf, work, reply, crashes>>

-----------------------------------------------------------------------------
Position == {"idle", "checking", "inserting", "inserted", "locked", "found",
             "replied", "failed"}
Reply == {"none", "NEW", "STALE", "DUPLICATE", "UNSUPPORTED",
          "UNRESOLVED_PAYMENT"}
\* status and late: the payment's status and whether its history holds a later
\* event, both read under the payment's row lock; case: the active case found.
Work == [status : PaymentStatus \cup {Absent}, late : BOOLEAN,
         case : Delivery \cup {NoCase}]
NoWork == [status |-> Absent, late |-> FALSE, case |-> NoCase]
AuditRow == [from : CaseStatus \cup {NoCase}, to : CaseStatus]

TypeOK ==
  /\ payload \in [Event -> Payload]
  /\ payStatus \in [Payment -> PaymentStatus \cup {Absent}]
  /\ rawEvents \subseteq Delivery
  /\ paymentEvents \subseteq Delivery
  /\ caseStatus \in [Delivery -> CaseStatus \cup {NoCase}]
  /\ audit \in [Delivery -> Seq(AuditRow)]
  /\ pc \in [Delivery -> Position]
  /\ eventOf \in [Delivery -> Event \cup {NoEvent}]
  /\ work \in [Delivery -> Work]
  /\ reply \in [Delivery -> Reply]
  /\ crashes \in 0 .. MaxCrashes

\* Payments already known to the platform stand in any status, with no case yet.
Init ==
  /\ payload \in [Event -> Payload]
  /\ payStatus \in [Payment -> PaymentStatus \cup {Absent}]
  /\ rawEvents = {}
  /\ paymentEvents = {}
  /\ caseStatus = [d \in Delivery |-> NoCase]
  /\ audit = [d \in Delivery |-> <<>>]
  /\ pc = [d \in Delivery |-> "idle"]
  /\ eventOf = [d \in Delivery |-> NoEvent]
  /\ work = [d \in Delivery |-> NoWork]
  /\ reply = [d \in Delivery |-> "none"]
  /\ crashes = 0

-----------------------------------------------------------------------------
Body(d) == payload[eventOf[d]]
PaymentOf(d) == Body(d).payment

\* The canonical status of a supported event (SUPPORTED_RAZORPAY_EVENTS).
StatusOfType(type) ==
  IF type = "payment.captured" THEN "CAPTURED"
  ELSE IF type = "payment.failed" THEN "FAILED" ELSE "AUTHORIZED"
Target(d) == StatusOfType(Body(d).type)

\* The committed rows of payment_events, and the active recovery_cases, of a payment.
History(p) == {x \in paymentEvents : PaymentOf(x) = p}
ActiveCases(p) ==
  {c \in Delivery : caseStatus[c] \in ActiveCase /\ PaymentOf(c) = p}
Ambiguous(p) == \E c1, c2 \in ActiveCases(p) : c1 # c2

\* uq_raw_events_provider_event_id: a committed row refuses a second one, an
\* uncommitted row makes a second insert wait for its transaction to end.
Recorded(d) == \E x \in rawEvents : eventOf[x] = eventOf[d]
HoldsRawRowTooEarly(d) == pc[d] \in {"inserting", "inserted", "locked", "found"}
HoldsRawRow(d) == pc[d] \in {"inserted", "locked", "found"}
RawRowNeverContended(d) == FALSE
RawRowContended(d) ==
  \E x \in Delivery \ {d} : HoldsRawRow(x) /\ eventOf[x] = eventOf[d]

\* SELECT ... FOR UPDATE on the payment row, held until the transaction ends.
HoldsPayment(d) == pc[d] \in {"locked", "found"}
PaymentNeverContended(d) == FALSE
PaymentContended(d) ==
  \E x \in Delivery \ {d} : HoldsPayment(x) /\ PaymentOf(x) = PaymentOf(d)

AppliesWhenLate(d) ==
  /\ ~ (work[d].status = "CAPTURED" /\ Target(d) # "CAPTURED")
  /\ MayMovePayment(work[d].status, Target(d))
  /\ payStatus[PaymentOf(d)] = work[d].status

\* The stale tests, then transition_payment and update_status_conditional: the
\* event moves the payment, and otherwise is kept as history only.
Applies(d) ==
  /\ ~ (work[d].status = "CAPTURED" /\ Target(d) # "CAPTURED")
  /\ ~ work[d].late
  /\ MayMovePayment(work[d].status, Target(d))
  /\ payStatus[PaymentOf(d)] = work[d].status
StatusBeforeEvent(d) == work[d].status
EffectiveStatus(d) == IF Applies(d) THEN Target(d) ELSE work[d].status

\* handle_payment_event: which of its three branches an event takes.
ClosesCaseByType(d) == Body(d).type = "payment.captured"
ClosesCase(d) == EffectiveStatus(d) = "CAPTURED"
OpensCaseByType(d) == Body(d).type = "payment.failed"
OpensCase(d) == ~ ClosesCase(d) /\ Body(d).type = "payment.failed"
\* Only those two branches lock the case row they find.
HoldsCase(d, c) ==
  pc[d] = "found" /\ work[d].case = c /\ (ClosesCase(d) \/ OpensCase(d))

EndsAt(d, position, answer) ==
  /\ pc' = [pc EXCEPT ![d] = position]
  /\ reply' = [reply EXCEPT ![d] = answer]
  /\ work' = [work EXCEPT ![d] = NoWork]

-----------------------------------------------------------------------------
\* A request arrives.  The checks before the transaction touch no shared state.
FirstPosition(e) == IF payload[e].form = "rejected" THEN "failed" ELSE "checking"

Deliver(d, e) ==
  /\ pc[d] = "idle"
  /\ eventOf' = [eventOf EXCEPT ![d] = e]
  /\ pc' = [pc EXCEPT ![d] = FirstPosition(e)]
  /\ UNCHANGED <<database, work, reply, crashes>>

\* The provider delivers again what was not answered with a 2xx.
Retry(d) ==
  /\ pc[d] = "failed"
  /\ pc' = [pc EXCEPT ![d] = FirstPosition(eventOf[d])]
  /\ UNCHANGED <<database, eventOf, work, reply, crashes>>

\* find_by_provider_event_id: an event already recorded is a duplicate.
FindRaw(d) ==
  /\ pc[d] = "checking"
  /\ IF Recorded(d)
       THEN EndsAt(d, "replied", "DUPLICATE")
       ELSE /\ pc' = [pc EXCEPT ![d] = "inserting"]
            /\ UNCHANGED <<work, reply>>
  /\ UNCHANGED <<database, eventOf, crashes>>

InsertRawWithoutWaiting(d) ==
  /\ pc[d] = "inserting"
  /\ IF Recorded(d) \/ RawRowContended(d)
       THEN EndsAt(d, "replied", "DUPLICATE")
       ELSE /\ pc' = [pc EXCEPT ![d] = "inserted"]
            /\ UNCHANGED <<work, reply>>
  /\ UNCHANGED <<database, eventOf, crashes>>

\* The insert waits for a concurrent insert of the same event, and is refused
\* when that one was committed since FindRaw.
InsertRaw(d) ==
  /\ pc[d] = "inserting"
  /\ ~ RawRowContended(d)
  /\ IF Recorded(d)
       THEN EndsAt(d, "replied", "DUPLICATE")
       ELSE /\ pc' = [pc EXCEPT ![d] = "inserted"]
            /\ UNCHANGED <<work, reply>>
  /\ UNCHANGED <<database, eventOf, crashes>>

\* Nothing but the raw event is committed, for an event type that is not handled
\* and for a payment the platform does not know.
CommitRawOnly(d, answer) ==
  /\ rawEvents' = rawEvents \cup {d}
  /\ EndsAt(d, "replied", answer)
  /\ UNCHANGED <<payload, payStatus, paymentEvents, caseStatus, audit, eventOf,
                 crashes>>

IgnoreUnsupported(d) ==
  /\ pc[d] = "inserted"
  /\ Body(d).type \notin SupportedType
  /\ CommitRawOnly(d, "UNSUPPORTED")

PaymentEntityValid(d) ==
  Body(d).type \in SupportedType /\ Body(d).form # "bad_entity"

LeaveUnresolved(d) ==
  /\ pc[d] = "inserted"
  /\ PaymentEntityValid(d)
  /\ payStatus[PaymentOf(d)] = Absent
  /\ CommitRawOnly(d, "UNRESOLVED_PAYMENT")

\* An exception leaves the unit of work, which rolls everything back.
RollBack(d) ==
  /\ EndsAt(d, "failed", "none")
  /\ UNCHANGED <<database, eventOf>>

RejectEntity(d) ==
  /\ pc[d] = "inserted"
  /\ Body(d).type \in SupportedType
  /\ Body(d).form = "bad_entity"
  /\ RollBack(d)
  /\ UNCHANGED crashes

LockPayment(d) ==
  /\ pc[d] = "inserted"
  /\ PaymentEntityValid(d)
  /\ payStatus[PaymentOf(d)] # Absent
  /\ ~ PaymentContended(d)
  /\ pc' = [pc EXCEPT ![d] = "locked"]
  /\ work' = [work EXCEPT
       ![d] = [status |-> payStatus[PaymentOf(d)],
               late   |-> \E x \in History(PaymentOf(d)) : Body(d).time < Body(x).time,
               case   |-> NoCase]]
  /\ UNCHANGED <<database, eventOf, reply, crashes>>

RejectTimestamp(d) ==
  /\ pc[d] = "locked"
  /\ Body(d).form = "bad_timestamp"
  /\ RollBack(d)
  /\ UNCHANGED crashes

\* find_active_by_payment_id, which all three branches of the orchestrator call.  It
\* raises on a second row, which intake alone never leaves: see CaseTransitions.
FindActiveCase(d) ==
  /\ pc[d] = "locked"
  /\ Body(d).form = "valid"
  /\ ~ Ambiguous(PaymentOf(d))
  /\ LET active == ActiveCases(PaymentOf(d)) IN
       work' = [work EXCEPT ![d].case = IF active = {} THEN NoCase
                                        ELSE CHOOSE c \in active : TRUE]
  /\ pc' = [pc EXCEPT ![d] = "found"]
  /\ UNCHANGED <<database, eventOf, reply, crashes>>

\* The case row c moves and its audit event is appended in the same transaction.
WriteCase(c, from, to) ==
  /\ caseStatus' = [caseStatus EXCEPT ![c] = to]
  /\ audit' = [audit EXCEPT ![c] = Append(@, [from |-> from, to |-> to])]

CloseCaseMisaudited(d) ==
  LET c == work[d].case
      to == IF caseStatus[c] = "OBSERVING" THEN "RECOVERED" ELSE "STOPPED" IN
  /\ ClosesCase(d)
  /\ IF c = NoCase THEN UNCHANGED <<caseStatus, audit>> ELSE WriteCase(c, to, to)

CloseCaseAlwaysRecovered(d) ==
  LET c == work[d].case IN
  /\ ClosesCase(d)
  /\ IF c = NoCase THEN UNCHANGED <<caseStatus, audit>>
                   ELSE WriteCase(c, caseStatus[c], "RECOVERED")

\* handle_payment_captured: RECOVERED from OBSERVING, STOPPED from anywhere else.
CloseCase(d) ==
  LET c == work[d].case IN
  /\ ClosesCase(d)
  /\ IF c = NoCase
       THEN UNCHANGED <<caseStatus, audit>>
       ELSE WriteCase(c, caseStatus[c],
                      IF caseStatus[c] = "OBSERVING" THEN "RECOVERED" ELSE "STOPPED")

OpenCaseAsPayment(d) ==
  LET c == work[d].case IN
  /\ OpensCase(d)
  /\ IF c = NoCase
       THEN WriteCase(d, NoCase, EffectiveStatus(d))
       ELSE WriteCase(c, caseStatus[c], caseStatus[c])

\* handle_payment_failed: an active case is reused, which is audited only.
OpenCase(d) ==
  LET c == work[d].case IN
  /\ OpensCase(d)
  /\ IF c = NoCase
       THEN WriteCase(d, NoCase, "NEW")
       ELSE WriteCase(c, caseStatus[c], caseStatus[c])

KeepCase(d) ==
  /\ ~ ClosesCase(d)
  /\ ~ OpensCase(d)
  /\ UNCHANGED <<caseStatus, audit>>

\* Everything the transaction wrote becomes visible at once.
Commit(d) ==
  /\ pc[d] = "found"
  /\ rawEvents' = rawEvents \cup {d}
  /\ paymentEvents' = paymentEvents \cup {d}
  /\ payStatus' = [payStatus EXCEPT ![PaymentOf(d)] = IF Applies(d) THEN Target(d) ELSE @]
  /\ (CloseCase(d) \/ OpenCase(d) \/ KeepCase(d))
  /\ EndsAt(d, "replied", IF Applies(d) THEN "NEW" ELSE "STALE")
  /\ UNCHANGED <<payload, eventOf, crashes>>

\* The process dies, or the database fails, while the transaction is open.
Crash(d) ==
  /\ crashes < MaxCrashes
  /\ pc[d] \in {"checking", "inserting", "inserted", "locked", "found"}
  /\ crashes' = crashes + 1
  /\ RollBack(d)

\* The merchant's platform registers a payment it did not know; not under src/.
RegisterPayment(p, status) ==
  /\ payStatus[p] = Absent
  /\ payStatus' = [payStatus EXCEPT ![p] = status]
  /\ UNCHANGED <<payload, rawEvents, paymentEvents, caseStatus, audit, handlers>>

Handle(d) ==
  \/ FindRaw(d) \/ InsertRaw(d) \/ IgnoreUnsupported(d) \/ LeaveUnresolved(d)
  \/ RejectEntity(d) \/ LockPayment(d) \/ RejectTimestamp(d)
  \/ FindActiveCase(d) \/ Commit(d)

Next ==
  \/ \E d \in Delivery : \/ \E e \in Event : Deliver(d, e)
                         \/ Retry(d)
                         \/ Handle(d)
                         \/ Crash(d)
  \/ \E p \in Payment, s \in PaymentStatus : RegisterPayment(p, s)

Spec == Init /\ [][Next]_vars

\* The event loop runs a handler that can run; PostgreSQL grants a contended row
\* or index entry in the order it was asked for; the provider keeps retrying.
Fairness ==
  \A d \in Delivery : /\ WF_vars(Handle(d))
                      /\ SF_vars(InsertRaw(d))
                      /\ SF_vars(LockPayment(d))
                      /\ WF_vars(Retry(d))
FairSpec == Spec /\ Fairness

-----------------------------------------------------------------------------
\* At most one recovery case of a payment is active, whatever deliveries are
\* duplicated or handled at once: handlers of one payment queue on its row lock
\* (events/pipeline.py:177), since no table constraint forbids a second case.
OneActiveCase == \A p \in Payment : ~ Ambiguous(p)

\* Recovery follows the payment: a payment has an active case exactly when the
\* platform holds a failure of it and it is not captured, also when the failure
\* was out of order and moved nothing (events/pipeline.py:263-269).
RecoveryTracksPayment ==
  \A p \in Payment :
    ActiveCases(p) # {} <=>
      /\ \E x \in History(p) : Body(x).type = "payment.failed"
      /\ payStatus[p] # "CAPTURED"

\* An event is recorded once, and only a recorded event has a history row: the
\* lookup and the unique index of raw_events together (events/pipeline.py:112-153).
EventRecordedOnce ==
  /\ \A x, y \in rawEvents : eventOf[x] = eventOf[y] => x = y
  /\ paymentEvents \subseteq rawEvents

\* A 2xx is never sent for an event nobody has recorded: a duplicate is answered
\* only when the other delivery's transaction is committed, not when it is open.
AcknowledgedIsRecorded == \A d \in Delivery : pc[d] = "replied" => Recorded(d)

\* Deliveries may come in any order, but a payment that is not captured stands
\* where the latest event it has, by the provider's clock, puts it.  The one
\* exception: a capture is refused while the payment is CREATED
\* (domain/state_machines.py:20), and then only an event of the same time or a
\* later one may still move it.
LatestEventWins ==
  \A p \in Payment : \A x \in History(p) :
    (/\ payStatus[p] # "CAPTURED"
     /\ \A y \in History(p) : Body(y).time < Body(x).time \/ y = x)
      => \/ payStatus[p] = Target(x)
         \/ Target(x) = "CAPTURED" /\ payStatus[p] = "CREATED"

\* A captured payment stays captured and never gets a new recovery case, even
\* from a handler that began before the capture.
CapturedIsFinal ==
  [][\A p \in Payment : payStatus[p] = "CAPTURED" =>
       /\ payStatus'[p] = "CAPTURED"
       /\ \A c \in Delivery : (caseStatus[c] = NoCase /\ caseStatus'[c] # NoCase)
                               => PaymentOf(c) # p]_vars

\* The audit trail of a case is its history: it starts at its creation, each
\* event starts where the one before ended, and it ends at the case's status.
AuditExplainsCase ==
  \A c \in Delivery :
    /\ caseStatus[c] = NoCase <=> audit[c] = <<>>
    /\ \A i \in DOMAIN audit[c] :
         /\ audit[c][i].from = IF i = 1 THEN NoCase ELSE audit[c][i - 1].to
         /\ i = Len(audit[c]) => audit[c][i].to = caseStatus[c]

\* The intake does what the ledger promises.
Ledger == INSTANCE RecoveryLedger WITH
  payment    <- payStatus,
  absorbed   <- {eventOf[x] : x \in rawEvents},
  recovering <- {p \in Payment : ActiveCases(p) # {}}
ImplementsLedger == Ledger!Spec

\* A delivery of a sound event is answered in the end: no handler waits for ever
\* on another one's row, and a handler that died is delivered again.
SoundEventsAnswered ==
  \A d \in Delivery :
    (pc[d] # "idle" /\ Body(d).form = "valid") ~> pc[d] = "replied"

-----------------------------------------------------------------------------
(***************************************************************************)
(* Why the invariants above hold: the inductive invariant of the intake.   *)
(***************************************************************************)
\* Two open transactions never hold the same payment row or raw-event key.
LocksAreExclusive ==
  \A d1, d2 \in Delivery : d1 # d2 =>
    /\ HoldsPayment(d1) /\ HoldsPayment(d2) => PaymentOf(d1) # PaymentOf(d2)
    /\ HoldsRawRow(d1) /\ HoldsRawRow(d2) => eventOf[d1] # eventOf[d2]

\* Rows come from handlers that have ended, and the key of an open one is free.
RowsAreSettled ==
  \A d \in Delivery :
    /\ pc[d] # "idle" => eventOf[d] \in Event
    /\ d \in rawEvents \/ d \in paymentEvents \/ caseStatus[d] # NoCase => pc[d] = "replied"
    /\ HoldsRawRow(d) => ~ Recorded(d)

\* Only payments that are known have a history, or cases.
HistoryIsKnown ==
  \A x \in Delivery :
    x \in paymentEvents \/ caseStatus[x] # NoCase => payStatus[PaymentOf(x)] # Absent

\* What a handler has read of its payment under its lock is still so when it commits,
\* and the case it has found, if any, is one of that payment.
ReadsAreCurrent ==
  \A d \in Delivery :
    /\ HoldsPayment(d) => /\ work[d].status = payStatus[PaymentOf(d)]
                         /\ work[d].status # Absent
    /\ pc[d] = "found" /\ work[d].case # NoCase =>
         /\ caseStatus[work[d].case] # NoCase
         /\ PaymentOf(work[d].case) = PaymentOf(d)

\* What intake does to events and payments, whoever else writes the cases.
AccountInv ==
  /\ TypeOK
  /\ LocksAreExclusive
  /\ RowsAreSettled
  /\ HistoryIsKnown
  /\ ReadsAreCurrent
  /\ EventRecordedOnce
  /\ AcknowledgedIsRecorded

\* A payment's cases are in order: one at most is active, and none if it is captured;
\* a handler that locks the active case it has found knows of all there are.
CasesInOrder(p) ==
  /\ ~ Ambiguous(p)
  /\ payStatus[p] = "CAPTURED" => ActiveCases(p) = {}
  /\ \A d \in Delivery :
       pc[d] = "found" /\ PaymentOf(d) = p /\ (ClosesCase(d) \/ OpensCase(d))
         => ActiveCases(p) = {work[d].case} \ {NoCase}

\* The inductive invariant: what the locks protect, with the properties that
\* depend on it.
IntakeInv ==
  /\ AccountInv
  /\ \A p \in Payment : CasesInOrder(p)
  /\ RecoveryTracksPayment
============================================================================
