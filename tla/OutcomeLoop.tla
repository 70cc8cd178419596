---------------------------- MODULE OutcomeLoop ----------------------------
(***************************************************************************)
(* What happened to a recovery attempt, and what follows from it:          *)
(* OutcomeProcessor.process_outcome (recovery_loop/outcomes.py) called by  *)
(* RecoveryLoopController.handle_outcome_and_cycle, with the dispositions  *)
(* and bounds of recovery_loop/dispositions.py and guards.py and the audit *)
(* event of audit/service.py, against PostgreSQL.  One case is followed;   *)
(* cases share nothing.                                                    *)
(*                                                                         *)
(* A Worker is a coroutine in a Process; it loads the case and its payment,*)
(* calls the controller in the same transaction, and commits.  A step ends *)
(* where the code awaits.  The webhook that captures the payment is the    *)
(* one of EventPipeline, with the two row locks it takes.                  *)
(***************************************************************************)
EXTENDS OutcomeRules, FiniteSets

CONSTANTS
  Process, Worker,          \* coroutines, and the processes they run in
  Evidence, FactsOf,        \* what each piece of evidence says
  MaxExecutions,            \* bound on the attempts carried out
  MaxCalls, MaxFailures     \* bounds on the calls, and on what dies half way

ASSUME LoopAssumption ==
  /\ IsFiniteSet(Worker)
  /\ FactsOf \in [Evidence -> Facts]
  /\ {MaxExecutions, MaxCalls, MaxFailures} \subseteq Nat

VARIABLES
  payRow, caseRow,  \* the payment's status; the case's status and attempt count
  outcomeRows,      \* outcomes: the committed outcome of each evidence
  auditRows,        \* audit_events: the evidence whose outcome is told of
  executed,         \* the attempts that are on record
  home, audited,    \* where each worker runs; the processes with an audit service
  known, seen,      \* each process's _in_memory_outcomes and _seen_event_ids
  undone,           \* evidence each process remembers and the database does not
  pc, call, reply,  \* each worker's position, what it works on, its last answer
  hook,             \* the webhook that captures the payment
  calls, failures

tables == <<payRow, caseRow, outcomeRows, auditRows, executed>>
memory == <<home, audited, known, seen, undone>>
bounds == <<calls, failures>>
vars == <<payRow, caseRow, outcomeRows, auditRows, executed, home, audited,
          known, seen, undone, pc, call, reply, hook, calls, failures>>

-----------------------------------------------------------------------------
CaseRow == [status : CaseStatus, attempts : Nat]
Position == {"idle", "loaded", "reading", "recording", "appending", "appended",
             "saving", "saved", "processed", "returned"}

\* payment and case: the copies passed in; attempts: the history read; to: the case
\* as it is to be saved; base: the row save() has read; pays: the payment is to be
\* saved too; writes: the outcome and the case are this transaction's; audits: so is
\* the audit event.
Call == [evidence : Evidence, payment : PaymentStatus, case : CaseRow,
         outcome : OutcomeType \cup {Nothing}, then : Disposition \cup {Nothing},
         attempts : Nat, to : CaseRow, base : CaseRow,
         pays : BOOLEAN, writes : BOOLEAN, audits : BOOLEAN]
NoCall == [outcome |-> Nothing]
Answer == [evidence : Evidence, outcome : OutcomeType, then : Disposition]
NoAnswer == [outcome |-> Nothing]

OutcomeTypeOK ==
  /\ payRow \in PaymentStatus
  /\ caseRow \in CaseRow
  /\ outcomeRows \in [Evidence -> OutcomeType \cup {Nothing}]
  /\ auditRows \subseteq Evidence
  /\ executed \in Nat
  /\ home \in [Worker -> Process]
  /\ audited \subseteq Process
  /\ known \in [Process -> [Evidence -> OutcomeType \cup {Nothing}]]
  /\ seen \in [Process -> SUBSET Evidence]
  /\ undone \in [Process -> SUBSET Evidence]
  /\ pc \in [Worker -> Position]
  /\ call \in [Worker -> Call \cup {NoCall}]
  /\ \A w \in Worker : pc[w] # "idle" => call[w] \in Call
  /\ reply \in [Worker -> Answer \cup {NoAnswer}]
  /\ hook \in {"idle", "locked"}
  /\ calls \in Nat /\ failures \in Nat

\* An attempt has been carried out, and nothing is known of it yet.
Init ==
  /\ payRow \in {"FAILED", "PENDING", "AUTHORIZED"}
  /\ executed \in 1..MaxAttempts
  /\ caseRow \in [status : {"EXECUTING", "OBSERVING"}, attempts : {executed - 1}]
  /\ outcomeRows = [e \in Evidence |-> Nothing]
  /\ auditRows = {}
  /\ home \in [Worker -> Process]
  /\ audited \in SUBSET Process
  /\ known = [p \in Process |-> [e \in Evidence |-> Nothing]]
  /\ seen = [p \in Process |-> {}]
  /\ undone = [p \in Process |-> {}]
  /\ pc = [w \in Worker |-> "idle"]
  /\ call = [w \in Worker |-> NoCall]
  /\ reply = [w \in Worker |-> NoAnswer]
  /\ hook = "idle"
  /\ calls = 0 /\ failures = 0

-----------------------------------------------------------------------------
EvidenceAt(w) == call[w].evidence
FactsAt(w) == FactsOf[EvidenceAt(w)]

\* The controller's lock of the case, one in each process.
InLock(w) == pc[w] \notin {"idle", "loaded", "returned"}
LockTaken(w) == \E x \in Worker \ {w} : home[x] = home[w] /\ InLock(x)

\* What open transactions hold: the primary key of an inserted row, the case row
\* (its foreign key is shared by an insert), the payment row.
HoldsAudit(w, e) == pc[w] # "idle" /\ call[w].audits /\ EvidenceAt(w) = e
HoldsOutcome(w, e) ==
  /\ pc[w] \in {"appended", "saving", "saved", "processed", "returned"}
  /\ call[w].writes /\ EvidenceAt(w) = e
HoldsCase(w) == pc[w] \in {"saved", "processed", "returned"} /\ call[w].writes
SharesCase(w) ==
  \/ pc[w] # "idle" /\ call[w].audits
  \/ \E e \in Evidence : HoldsOutcome(w, e)
HoldsPayment(w) == pc[w] \in {"processed", "returned"} /\ call[w].writes /\ call[w].pays

GoesOn(w, position) ==
  /\ pc' = [pc EXCEPT ![w] = position]
  /\ UNCHANGED <<call, reply>>

Ends(w, answer) ==
  /\ pc' = [pc EXCEPT ![w] = "idle"]
  /\ call' = [call EXCEPT ![w] = NoCall]
  /\ reply' = [reply EXCEPT ![w] = answer]

\* The worker's transaction is rolled back and its caller gets an error.  What the
\* process has in memory stays there.
Fails(w) ==
  /\ Ends(w, NoAnswer)
  /\ undone' = IF call[w].writes
                 THEN [undone EXCEPT ![home[w]] = @ \cup {EvidenceAt(w)}] ELSE undone

-----------------------------------------------------------------------------
\* The caller reads the case and the payment; a result is of an attempt on record.
Load(w, e) ==
  /\ pc[w] = "idle"
  /\ calls < MaxCalls
  /\ FactsOf[e].cycle <= executed
  /\ calls' = calls + 1
  /\ pc' = [pc EXCEPT ![w] = "loaded"]
  /\ call' = [call EXCEPT ![w] =
       [evidence |-> e, payment |-> payRow, case |-> caseRow, outcome |-> Nothing,
        then |-> Nothing, attempts |-> 0, to |-> caseRow, base |-> caseRow,
        pays |-> FALSE, writes |-> FALSE, audits |-> FALSE]]
  /\ reply' = [reply EXCEPT ![w] = NoAnswer]
  /\ UNCHANGED <<tables, memory, hook, failures>>

\* The controller takes the case's lock and looks for an earlier outcome.
LooksUp(w) == pc[w] = "loaded" /\ ~ LockTaken(w)

\* The outcome this evidence was given before: the database's word, then memory's.
Existing(w) ==
  LET e == EvidenceAt(w) IN
  IF outcomeRows[e] # Nothing THEN outcomeRows[e] ELSE known[home[w]][e]

\* Unless the case is to be evaluated again, the controller returns at once.
Processed(then) == IF then = "RE_EVALUATE" THEN "processed" ELSE "returned"

\* A duplicate is answered with the outcome it had, and with what follows from the
\* copies this caller holds; nothing is written.
AnswersWith(w, then, told, writes) ==
  IF then = Raises THEN Fails(w)
  ELSE /\ pc' = [pc EXCEPT ![w] = Processed(then)]
       /\ call' = [call EXCEPT ![w].outcome = told, ![w].then = then,
                               ![w].writes = writes, ![w].audits = writes /\ @]
       /\ UNCHANGED <<reply, undone>>

AnswersWithoutOutcome(w, outcome, case, payment, attempts) ==
  AnswersWith(w, Resolve(outcome, case, payment, FactsAt(w).cycle, attempts),
              Nothing, FALSE)
AnswersWithoutRollback(w, outcome, case, payment, attempts) ==
  AnswersWith(w, Resolve(outcome, case, payment, FactsAt(w).cycle, attempts),
              outcome, call[w].writes)
Answers(w, outcome, case, payment, attempts) ==
  AnswersWith(w, Resolve(outcome, case, payment, FactsAt(w).cycle, attempts),
              outcome, FALSE)

AnswerAnew(w) ==
  /\ LooksUp(w)
  /\ Existing(w) # Nothing
  /\ Answers(w, Classify(FactsAt(w), call[w].payment), call[w].case, call[w].payment,
             executed)
  /\ UNCHANGED <<tables, home, audited, known, seen, hook, bounds>>
AnswerDuplicate(w) ==
  /\ LooksUp(w)
  /\ Existing(w) # Nothing
  /\ Answers(w, Existing(w), call[w].case, call[w].payment, executed)
  /\ UNCHANGED <<tables, home, audited, known, seen, hook, bounds>>

\* A terminal case takes no new outcome: TerminalCaseReopenError.
RefuseTerminal(w) ==
  /\ LooksUp(w)
  /\ Existing(w) = Nothing
  /\ call[w].case.status \in TerminalCase
  /\ Fails(w)
  /\ UNCHANGED <<tables, home, audited, known, seen, hook, bounds>>

Accept(w) ==
  /\ LooksUp(w)
  /\ Existing(w) = Nothing
  /\ call[w].case.status \notin TerminalCase
  /\ GoesOn(w, "reading")
  /\ UNCHANGED <<tables, memory, hook, bounds>>

\* The history has been read.  The outcome is classified, the payment and the case
\* are moved, in copies, and the outcome and its audit event are put in memory; or
\* one of them raises.
Judge(w, remembers) ==
  LET e == EvidenceAt(w)
      p == home[w]
      f == FactsOf[e]
      case == call[w].case
      outcome == Classify(f, call[w].payment)
      then == Resolve(outcome, case, call[w].payment, f.cycle, executed) IN
  /\ pc[w] = "reading"
  /\ IF CannotFollow(outcome, then, case.status, call[w].payment)
       THEN Fails(w) /\ UNCHANGED <<known, seen>>
       ELSE /\ pc' = [pc EXCEPT ![w] =
                 IF p \in audited /\ e \notin seen[p] THEN "recording" ELSE "appending"]
            /\ call' = [call EXCEPT
                 ![w].outcome = outcome, ![w].then = then, ![w].attempts = executed,
                 ![w].to = [status |-> Target[then],
                            attempts |-> AttemptsAfter(case, f.cycle)],
                 ![w].pays = Pays(outcome, call[w].payment), ![w].writes = TRUE]
            /\ known' = IF remembers THEN [known EXCEPT ![p][e] = outcome]
                        ELSE known
            /\ seen' = IF p \in audited THEN [seen EXCEPT ![p] = @ \cup {e}] ELSE seen
            /\ UNCHANGED <<reply, undone>>
  /\ UNCHANGED <<tables, home, audited, hook, bounds>>

ClassifyWithoutMemory(w) == Judge(w, FALSE)
ClassifyAndRemember(w) == Judge(w, TRUE)

-----------------------------------------------------------------------------
\* record_outcome, of an event this process had not seen: it is inserted; a key that
\* another transaction has inserted raises AuditPersistenceError.
RecordAudit(w) ==
  LET e == EvidenceAt(w) IN
  /\ pc[w] = "recording"
  /\ \A x \in Worker \ {w} : ~ HoldsAudit(x, e)
  /\ IF e \in auditRows THEN Fails(w)
     ELSE /\ pc' = [pc EXCEPT ![w] = "appending"]
          /\ call' = [call EXCEPT ![w].audits = TRUE]
          /\ UNCHANGED <<reply, undone>>
  /\ UNCHANGED <<tables, home, audited, known, seen, hook, bounds>>

KeyIsFree(w) == \A x \in Worker \ {w} : ~ HoldsOutcome(x, EvidenceAt(w))

\* outcomes.append
Append(w) ==
  /\ pc[w] = "appending"
  /\ KeyIsFree(w)
  /\ FactsAt(w).linked
  /\ outcomeRows[EvidenceAt(w)] = Nothing
  /\ GoesOn(w, "appended")
  /\ UNCHANGED <<tables, memory, hook, bounds>>

\* The key is taken: roll back, and answer with the row that is there, the case and
\* the payment as they are now.
AppendConflicts(w) ==
  /\ pc[w] = "appending"
  /\ KeyIsFree(w)
  /\ outcomeRows[EvidenceAt(w)] # Nothing
  /\ Answers(w, outcomeRows[EvidenceAt(w)], caseRow, payRow, call[w].attempts)
  /\ UNCHANGED <<tables, home, audited, known, seen, hook, bounds>>

\* The execution the outcome refers to is not in executions: roll back, find no row
\* of this outcome, and raise.
AppendBreaksReference(w) ==
  /\ pc[w] = "appending"
  /\ KeyIsFree(w)
  /\ ~ FactsAt(w).linked
  /\ outcomeRows[EvidenceAt(w)] = Nothing
  /\ Fails(w)
  /\ UNCHANGED <<tables, home, audited, known, seen, hook, bounds>>

\* recovery_cases.save: reads the row, then writes the columns that differ from it.
ReadCase(w) ==
  /\ pc[w] = "appended"
  /\ pc' = [pc EXCEPT ![w] = "saving"]
  /\ call' = [call EXCEPT ![w].base = caseRow]
  /\ UNCHANGED <<tables, memory, reply, hook, bounds>>

SaveCase(w) ==
  /\ pc[w] = "saving"
  /\ \A x \in Worker \ {w} : ~ HoldsCase(x)
  /\ GoesOn(w, IF call[w].pays THEN "saved" ELSE Processed(call[w].then))
  /\ UNCHANGED <<tables, memory, hook, bounds>>

PaymentIsFree(w) == hook = "idle" /\ \A x \in Worker \ {w} : ~ HoldsPayment(x)

\* payments.save
SavePayment(w) ==
  /\ pc[w] = "saved"
  /\ PaymentIsFree(w)
  /\ GoesOn(w, Processed(call[w].then))
  /\ UNCHANGED <<tables, memory, hook, bounds>>

-----------------------------------------------------------------------------
\* The case is to be evaluated again, and the controller was not given what it takes,
\* or the policy engine has blocked the next action or asks for approval.
Return(w) ==
  /\ pc[w] = "processed"
  /\ GoesOn(w, "returned")
  /\ UNCHANGED <<tables, memory, hook, bounds>>

\* The next action is allowed and is to be saved as act_<case>_<cycle>, which the
\* uuid column of recovery_actions refuses.
SaveNextAction(w) ==
  /\ pc[w] = "processed"
  /\ call[w].then = "RE_EVALUATE"
  /\ Fails(w)
  /\ UNCHANGED <<tables, home, audited, known, seen, hook, bounds>>

\* What a column holds after the commit.
Written(to, base, row) == IF to # base THEN to ELSE row

\* The caller commits.
Commit(w) ==
  LET c == call[w] IN
  /\ pc[w] = "returned"
  /\ IF c.writes
       THEN /\ outcomeRows' = [outcomeRows EXCEPT ![c.evidence] = c.outcome]
            /\ auditRows' = IF c.audits THEN auditRows \cup {c.evidence} ELSE auditRows
            /\ caseRow' =
                 [status |-> Written(c.to.status, c.base.status, caseRow.status),
                  attempts |-> Written(c.to.attempts, c.base.attempts, caseRow.attempts)]
            /\ payRow' = IF c.pays THEN "CAPTURED" ELSE payRow
       ELSE UNCHANGED <<outcomeRows, auditRows, caseRow, payRow>>
  /\ Ends(w, [evidence |-> c.evidence, outcome |-> c.outcome, then |-> c.then])
  /\ UNCHANGED <<executed, memory, hook, bounds>>

\* A worker is cancelled or loses its connection; a process is restarted.
Abandon(w) ==
  /\ pc[w] # "idle"
  /\ failures < MaxFailures
  /\ failures' = failures + 1
  /\ Fails(w)
  /\ UNCHANGED <<tables, home, audited, known, seen, hook, calls>>

Restart(p) ==
  LET workers == {w \in Worker : home[w] = p} IN
  /\ failures < MaxFailures
  /\ failures' = failures + 1
  /\ known' = [known EXCEPT ![p] = [e \in Evidence |-> Nothing]]
  /\ seen' = [seen EXCEPT ![p] = {}]
  /\ undone' = [undone EXCEPT ![p] = @ \cup
       {EvidenceAt(w) : w \in {x \in workers : pc[x] # "idle" /\ call[x].writes}}]
  /\ pc' = [w \in Worker |-> IF w \in workers THEN "idle" ELSE pc[w]]
  /\ call' = [w \in Worker |-> IF w \in workers THEN NoCall ELSE call[w]]
  /\ reply' = [w \in Worker |-> IF w \in workers THEN NoAnswer ELSE reply[w]]
  /\ UNCHANGED <<tables, home, audited, hook, calls>>

-----------------------------------------------------------------------------
\* The webhook of a capture locks the payment, then the active case, and commits.
HookLocks ==
  /\ hook = "idle"
  /\ MayMovePayment(payRow, "CAPTURED")
  /\ \A w \in Worker : ~ HoldsPayment(w)
  /\ hook' = "locked"
  /\ UNCHANGED <<tables, memory, pc, call, reply, bounds>>

HookWaits == caseRow.status \in ActiveCase /\ \E w \in Worker : SharesCase(w)

HookCommits ==
  /\ hook = "locked"
  /\ ~ HookWaits
  /\ hook' = "idle"
  /\ payRow' = "CAPTURED"
  /\ caseRow' = [caseRow EXCEPT !.status =
       IF @ \in TerminalCase THEN @ ELSE IF @ = "OBSERVING" THEN "RECOVERED" ELSE "STOPPED"]
  /\ UNCHANGED <<outcomeRows, auditRows, executed, memory, pc, call, reply, bounds>>

\* Two transactions that wait for each other: PostgreSQL aborts either.
Deadlocked(w) == hook = "locked" /\ HookWaits /\ pc[w] = "saved"
NeverBroken(w) == FALSE /\ UNCHANGED vars
BreakDeadlock(w) ==
  /\ Deadlocked(w)
  /\ \/ Fails(w) /\ UNCHANGED <<hook, failures>>
     \/ /\ failures < MaxFailures
        /\ failures' = failures + 1
        /\ hook' = "idle"
        /\ UNCHANGED <<pc, call, reply, undone>>
  /\ UNCHANGED <<tables, home, audited, known, seen, calls>>

\* The next attempt: the case, being evaluated, goes through CaseTransitions and
\* ExecutionOrchestrator, whose commits are one step here.
NextAttempt ==
  /\ caseRow.status = "EVALUATING"
  /\ payRow \in {"FAILED", "PENDING"}
  /\ executed < MaxExecutions
  /\ \A w \in Worker : ~ HoldsCase(w)
  /\ executed' = executed + 1
  /\ \E status \in {"EXECUTING", "OBSERVING"} : caseRow' = [caseRow EXCEPT !.status = status]
  /\ UNCHANGED <<payRow, outcomeRows, auditRows, memory, pc, call, reply, hook, bounds>>

Handle(w) ==
  \/ AnswerDuplicate(w) \/ RefuseTerminal(w) \/ Accept(w)
  \/ ClassifyAndRemember(w) \/ RecordAudit(w) \/ Append(w)
  \/ AppendConflicts(w) \/ AppendBreaksReference(w)
  \/ ReadCase(w) \/ SaveCase(w) \/ SavePayment(w)
  \/ Return(w) \/ SaveNextAction(w) \/ Commit(w)

Next ==
  \/ \E w \in Worker : \/ \E e \in Evidence : Load(w, e)
                       \/ Handle(w)
                       \/ BreakDeadlock(w)
                       \/ Abandon(w)
  \/ \E p \in Process : Restart(p)
  \/ HookLocks \/ HookCommits \/ NextAttempt

Spec == Init /\ [][Next]_vars

\* The event loop runs a coroutine that can run, and asyncio and PostgreSQL grant a
\* lock in the order it was asked for; PostgreSQL looks for deadlocks; and the
\* webhook's handler goes on too.
Fairness ==
  /\ \A w \in Worker : WF_vars(Handle(w)) /\ WF_vars(BreakDeadlock(w))
  /\ WF_vars(HookCommits)

-----------------------------------------------------------------------------
\* What is told as recovered has been paid: an outcome or a case is RECOVERED only
\* while its payment is CAPTURED, whoever overwrites the case
\* (recovery_loop/outcomes.py:306-336 and 390-393).
RecoveredIsPaid ==
  ("RECOVERED" \in {outcomeRows[e] : e \in Evidence} \cup {caseRow.status})
    => payRow = "CAPTURED"

\* A caller that was given an outcome was given the one on record, or the one of a
\* transaction of its process that is still open or came to nothing: only a
\* rollback makes memory and database differ (recovery_loop/outcomes.py:383).
OpenIn(p, e) == \E w \in Worker : home[w] = p /\ pc[w] # "idle" /\ call[w].writes
                                   /\ EvidenceAt(w) = e
AnswersAreKept ==
  \A w \in Worker : reply[w] # NoAnswer =>
    LET e == reply[w].evidence IN
    \/ outcomeRows[e] = reply[w].outcome
    \/ OpenIn(home[w], e)
    \/ e \in undone[home[w]]

\* The audit trail tells of exactly the outcomes on record, when every process has
\* an audit service: a rollback takes both away, and the process that has seen the
\* audit event also remembers the outcome, so that neither is written alone later
\* (audit/service.py:88-92, recovery_loop/outcomes.py:383-390).
AuditMatchesOutcomes ==
  /\ \A e \in auditRows : outcomeRows[e] # Nothing
  /\ audited = Process => \A e \in Evidence : outcomeRows[e] # Nothing => e \in auditRows

\* Attempts stop at the limit, but for those that were judged before the limit was
\* reached: one for each worker at most (recovery_loop/guards.py:93-117).
AttemptsBounded == executed <= MaxAttempts + Cardinality(Worker)

\* The case is moved only together with a new outcome that accounts for it, by a
\* capture, or by the next attempt: an answer to a duplicate moves nothing
\* (recovery_loop/outcomes.py:213-236).
Accounts == [RECOVERED |-> {"RECOVERED"}, PENDING |-> {"OBSERVING"},
             STOPPED |-> {"STOPPED"}, EXPIRED |-> {"STOPPED"},
             ESCALATED |-> {"ESCALATED"}, FAILED |-> {"EVALUATING", "STOPPED"}]
CaseMovesWithItsOutcome ==
  [][caseRow'.status # caseRow.status =>
       \/ \E e \in Evidence : /\ outcomeRows[e] = Nothing /\ outcomeRows'[e] # Nothing
                              /\ caseRow'.status \in Accounts[outcomeRows'[e]]
       \/ payRow # "CAPTURED" /\ payRow' = "CAPTURED"
       \/ executed' > executed]_vars

\* Every call ends: workers and webhooks that wait for each other's rows are parted
\* (the case before the payment at recovery_loop/outcomes.py:391-393, after it in
\* the webhook).
CallsEnd == \A w \in Worker : pc[w] # "idle" ~> pc[w] = "idle"
=============================================================================
