--------------------------- MODULE OutcomeProofs ---------------------------
(***************************************************************************)
(* Proofs about OutcomeLoop: OutcomeInv is inductive, and the safety       *)
(* properties follow from it, for any number of workers, processes, pieces *)
(* of evidence, calls and failures.                                        *)
(***************************************************************************)
EXTENDS OutcomeLoop, FiniteSetTheorems, TLAPS

Writes(w) == pc[w] # "idle" /\ call[w].writes


\* What is known of a call by the place it has reached.
IsJudged(w) ==
  /\ pc[w] \in {"loaded", "reading"} => ~ call[w].writes /\ ~ call[w].audits
  /\ pc[w] = "reading" => call[w].case.status \notin TerminalCase
  /\ pc[w] \in {"recording", "appending", "appended", "saving", "saved"} => call[w].writes
  /\ pc[w] \notin {"idle", "loaded", "reading"} =>
       call[w].outcome \in OutcomeType /\ call[w].then \in Disposition

\* What a transaction is about to write is paid, and accounts for the move it makes.
IsPaid(w) ==
  pc[w] # "idle" =>
    /\ call[w].payment = "CAPTURED" => payRow = "CAPTURED"
    /\ call[w].writes /\ "RECOVERED" \in {call[w].outcome, call[w].to.status} =>
         call[w].pays \/ payRow = "CAPTURED"
    /\ call[w].writes => call[w].to.status \in Accounts[call[w].outcome]

\* One worker of a process is in the case's lock, one has inserted an outcome.
LocksAreExclusive ==
  \A w, x \in Worker : home[w] = home[x] /\ InLock(w) /\ InLock(x) => w = x
OutcomesAreExclusive ==
  /\ \A w \in Worker, e \in Evidence : HoldsOutcome(w, e) => outcomeRows[e] = Nothing
  /\ \A w, x \in Worker, e \in Evidence : HoldsOutcome(w, e) /\ HoldsOutcome(x, e) => w = x

\* The webhook has locked a payment that is not captured, and nobody else has.
HookHoldsPayment ==
  hook = "locked" => payRow # "CAPTURED" /\ \A w \in Worker : ~ HoldsPayment(w)

\* A new outcome is not in memory before it is judged, and then it is; the audit
\* events a process has seen are of outcomes it knows.
IsRemembered(w) ==
  /\ pc[w] = "reading" => known[home[w]][EvidenceAt(w)] = Nothing
  /\ Writes(w) => known[home[w]][EvidenceAt(w)] = call[w].outcome
SeenIsKnown ==
  \A p \in Process, e \in Evidence : e \in seen[p] => known[p][e] # Nothing
MemoryIsAccounted ==
  \A p \in Process, e \in Evidence :
    known[p][e] # Nothing /\ outcomeRows[e] = Nothing => (OpenIn(p, e) \/ e \in undone[p])

\* An outcome that was told is on record, is about to be, or came to nothing.
ToldIsKept(p, e, outcome) ==
  \/ outcomeRows[e] = outcome
  \/ \E w \in Worker : /\ home[w] = p /\ pc[w] = "returned" /\ call[w].writes
                       /\ EvidenceAt(w) = e /\ call[w].outcome = outcome
  \/ e \in undone[p]
IsKept(w) ==
  /\ reply[w] # NoAnswer => ToldIsKept(home[w], reply[w].evidence, reply[w].outcome)
  /\ pc[w] \in {"processed", "returned"} /\ ~ call[w].writes =>
       ToldIsKept(home[w], EvidenceAt(w), call[w].outcome)

\* A transaction past the audit has its event, if its process keeps an audit.
IsAudited(w) == Writes(w) /\ home[w] \in audited /\ pc[w] # "recording" => call[w].audits

CallsAreSound ==
  \A w \in Worker : IsJudged(w) /\ IsPaid(w) /\ IsRemembered(w) /\ IsKept(w) /\ IsAudited(w)

\* Once the limit is reached, what can still lead to an attempt is counted: the
\* cases to be saved as EVALUATING, and the one that is.
LeadsOn == {w \in Worker : Writes(w) /\ call[w].to.status = "EVALUATING"}
AttemptsAreCounted ==
  \/ executed < MaxAttempts
  \/ executed + Cardinality(LeadsOn) + (IF caseRow.status = "EVALUATING" THEN 1 ELSE 0)
       <= MaxAttempts + Cardinality(Worker)

OutcomeInv ==
  /\ OutcomeTypeOK
  /\ CallsAreSound
  /\ RecoveredIsPaid
  /\ LocksAreExclusive
  /\ OutcomesAreExclusive
  /\ HookHoldsPayment
  /\ SeenIsKnown
  /\ MemoryIsAccounted
  /\ AuditMatchesOutcomes
  /\ AttemptsAreCounted

-----------------------------------------------------------------------------
\* The fields of a call that is under way.
LEMMA CallFields ==
  ASSUME OutcomeTypeOK, NEW w \in Worker, pc[w] # "idle"
  PROVE  /\ call[w] \in Call
         /\ EvidenceAt(w) \in Evidence
         /\ FactsAt(w) \in Facts
         /\ home[w] \in Process
         /\ call[w].payment \in PaymentStatus
         /\ call[w].case \in CaseRow
         /\ call[w].to \in CaseRow
         /\ call[w].base \in CaseRow
         /\ call[w].outcome \in OutcomeType \cup {Nothing}
         /\ call[w].then \in Disposition \cup {Nothing}
         /\ call[w].attempts \in Nat
         /\ call[w].writes \in BOOLEAN /\ call[w].pays \in BOOLEAN /\ call[w].audits \in BOOLEAN
BY LoopAssumption DEF OutcomeTypeOK, Call, EvidenceAt, FactsAt

\* What evidence is taken for.
LEMMA Classified ==
  ASSUME NEW f \in Facts, NEW payment \in PaymentStatus
  PROVE  /\ Classify(f, payment) \in OutcomeType
         /\ payment = "CAPTURED" => Classify(f, payment) = "RECOVERED"
<1>1. CASE f.raw # "none"
  BY <1>1 DEF Facts, Classify, OutcomeType, OutcomeOfRaw
<1>2. CASE f.raw = "none"
  BY <1>2 DEF Facts, Classify, OutcomeType, OutcomeOfExecution
<1> QED
  BY <1>1, <1>2

\* What follows from an outcome.
LEMMA Resolved ==
  ASSUME NEW outcome \in OutcomeType, NEW case \in CaseRow, NEW payment \in PaymentStatus,
         NEW cycle \in Nat, NEW attempts \in Nat
  PROVE  LET then == Resolve(outcome, case, payment, cycle, attempts) IN
         /\ then \in Disposition \cup {Raises}
         /\ then # Raises => Target[then] \in CaseStatus
         /\ then = "RE_EVALUATE" => attempts < MaxAttempts
         /\ /\ then # Raises
            /\ case.status \notin TerminalCase
            /\ payment = "CAPTURED" => outcome = "RECOVERED"
            => Target[then] \in Accounts[outcome]
<1> DEFINE after == AfterFailure(case, attempts)
<1>1. /\ after \in {"ESCALATE", "STOP", "RE_EVALUATE"}
      /\ after = "RE_EVALUATE" => attempts < MaxAttempts
      /\ case.status \notin TerminalCase => after \in {"STOP", "RE_EVALUATE"}
  BY BoundAssumption DEF AfterFailure, TerminalCase
<1> DEFINE then == Resolve(outcome, case, payment, cycle, attempts)
<1>2. CASE outcome = "RECOVERED" \/ payment = "CAPTURED"
  <2>1. then = "COMPLETE"
    BY <1>2 DEF Resolve
  <2>2. Target["COMPLETE"] = "RECOVERED" /\ "RECOVERED" \in CaseStatus
    BY DEF Target, CaseStatus, TerminalCase
  <2>3. "RECOVERED" \in Accounts["RECOVERED"]
    BY DEF Accounts
  <2> QED
    BY <1>2, <2>1, <2>2, <2>3 DEF Disposition, Raises
<1>3. CASE outcome = "FAILED" /\ payment # "CAPTURED"
  <2>1. then \in {Raises, after}
    BY <1>3 DEF Resolve
  <2> QED
    BY <1>1, <1>3, <2>1 DEF Disposition, Raises, Target, CaseStatus, ActiveCase,
       TerminalCase, Accounts
<1>4. CASE outcome \notin {"RECOVERED", "FAILED"} /\ payment # "CAPTURED"
  <2>1. then = [PENDING |-> "WAIT_FOR_OUTCOME", STOPPED |-> "STOP", EXPIRED |-> "STOP",
                ESCALATED |-> "ESCALATE"][outcome]
    BY <1>4 DEF Resolve
  <2>2. outcome \in {"PENDING", "STOPPED", "EXPIRED", "ESCALATED"}
    BY <1>4 DEF OutcomeType
  <2> QED
    BY <2>1, <2>2 DEF Disposition, Raises, Target, CaseStatus, ActiveCase,
       TerminalCase, Accounts
<1> QED
  BY <1>2, <1>3, <1>4

-----------------------------------------------------------------------------
\* What the invariant says of the other workers outlives a step that leaves them and
\* what they are measured against alone.
LEMMA OthersStaySound ==
  ASSUME OutcomeInv, OutcomeTypeOK', NEW w \in Worker,
         home' = home, audited' = audited,
         \A x \in Worker \ {w} : pc'[x] = pc[x] /\ call'[x] = call[x] /\ reply'[x] = reply[x],
         payRow = "CAPTURED" => payRow' = "CAPTURED",
         \A e \in Evidence : outcomeRows[e] # Nothing => outcomeRows'[e] = outcomeRows[e],
         \A p \in Process : undone[p] \subseteq undone'[p],
         \A p \in Process, e \in Evidence :
           \/ known'[p][e] = known[p][e]
           \/ (pc[w] = "reading" /\ p = home[w] /\ e = EvidenceAt(w)),
         pc[w] = "returned" /\ call[w].writes =>
           \/ outcomeRows'[EvidenceAt(w)] = call[w].outcome
           \/ EvidenceAt(w) \in undone'[home[w]]
  PROVE  /\ \A p \in Process, e \in Evidence, outcome \in OutcomeType :
              ToldIsKept(p, e, outcome) => ToldIsKept(p, e, outcome)'
         /\ \A x \in Worker \ {w} :
              IsJudged(x)' /\ IsPaid(x)' /\ IsRemembered(x)' /\ IsKept(x)' /\ IsAudited(x)'
<1>1. ASSUME NEW p \in Process, NEW e \in Evidence, NEW outcome \in OutcomeType,
             ToldIsKept(p, e, outcome)
      PROVE  ToldIsKept(p, e, outcome)'
  <2>1. CASE outcomeRows[e] = outcome
    <3>1. outcome # Nothing
      BY DEF OutcomeType, Nothing
    <3> QED
      BY <2>1, <3>1 DEF ToldIsKept
  <2>2. CASE e \in undone[p]
    BY <2>2 DEF ToldIsKept
  <2>3. ASSUME NEW x \in Worker, home[x] = p, pc[x] = "returned", call[x].writes,
               EvidenceAt(x) = e, call[x].outcome = outcome
        PROVE  ToldIsKept(p, e, outcome)'
    <3>1. CASE x = w
      BY <2>3, <3>1 DEF ToldIsKept
    <3>2. CASE x # w
      <4>1. pc'[x] = "returned" /\ call'[x] = call[x] /\ home'[x] = p
        BY <2>3, <3>2
      <4> QED
        BY <2>3, <4>1 DEF ToldIsKept, EvidenceAt
    <3> QED
      BY <3>1, <3>2
  <2> QED
    BY <1>1, <2>1, <2>2, <2>3 DEF ToldIsKept
<1>2. ASSUME NEW x \in Worker \ {w}
      PROVE  IsJudged(x)' /\ IsPaid(x)' /\ IsRemembered(x)' /\ IsKept(x)' /\ IsAudited(x)'
  <2>1. IsJudged(x) /\ IsPaid(x) /\ IsRemembered(x) /\ IsKept(x) /\ IsAudited(x)
    BY DEF OutcomeInv, CallsAreSound
  <2>2. pc'[x] = pc[x] /\ call'[x] = call[x] /\ reply'[x] = reply[x]
    OBVIOUS
  <2>3. home[x] \in Process /\ (pc[x] # "idle" => EvidenceAt(x) \in Evidence)
    BY CallFields DEF OutcomeInv, OutcomeTypeOK
  <2>4. IsJudged(x)' /\ IsAudited(x)'
    BY <2>1, <2>2 DEF IsJudged, IsAudited, Writes
  <2>5. IsPaid(x)'
    BY <2>1, <2>2 DEF IsPaid
  <2>6. IsRemembered(x)'
    <3>1. EvidenceAt(x)' = EvidenceAt(x) /\ home'[x] = home[x]
      BY <2>2 DEF EvidenceAt
    <3>2. CASE pc[x] = "reading"
      <4>1. ~ (pc[w] = "reading" /\ home[w] = home[x])
        BY <3>2 DEF OutcomeInv, LocksAreExclusive, InLock
      <4>2. known'[home[x]][EvidenceAt(x)] = Nothing
        BY <2>1, <2>3, <3>2, <4>1 DEF IsRemembered
      <4>3. ~ call[x].writes
        BY <2>1, <3>2 DEF IsJudged
      <4> QED
        BY <2>2, <3>1, <3>2, <4>2, <4>3 DEF IsRemembered, Writes
    <3>3. CASE Writes(x)
      <4>1. call[x].outcome \in OutcomeType /\ pc[x] # "idle" /\ pc[x] # "reading"
        BY <2>1, <3>3 DEF IsJudged, Writes
      <4>2. known[home[x]][EvidenceAt(x)] # Nothing
        BY <2>1, <3>3, <4>1 DEF IsRemembered, OutcomeType, Nothing
      <4>3. ~ (pc[w] = "reading" /\ home[w] = home[x] /\ EvidenceAt(w) = EvidenceAt(x))
        BY <4>2 DEF OutcomeInv, CallsAreSound, IsRemembered
      <4>4. known'[home[x]][EvidenceAt(x)] = call[x].outcome
        BY <2>1, <2>3, <3>3, <4>1, <4>3 DEF IsRemembered
      <4> QED
        BY <2>2, <3>1, <4>1, <4>4 DEF IsRemembered
    <3> QED
      BY <2>2, <3>2, <3>3 DEF IsRemembered, Writes
  <2>7. IsKept(x)'
    <3>1. reply[x] # NoAnswer => reply[x].evidence \in Evidence /\ reply[x].outcome \in OutcomeType
      BY DEF OutcomeInv, OutcomeTypeOK, Answer
    <3>2. reply'[x] # NoAnswer => ToldIsKept(home[x], reply[x].evidence, reply[x].outcome)'
      BY <1>1, <2>1, <2>2, <2>3, <3>1 DEF IsKept
    <3>3. pc[x] \in {"processed", "returned"} => call[x].outcome \in OutcomeType
      BY <2>1 DEF IsJudged
    <3>4. EvidenceAt(x)' = EvidenceAt(x) /\ home'[x] = home[x]
      BY <2>2 DEF EvidenceAt
    <3>5. ASSUME pc[x] \in {"processed", "returned"}, ~ call[x].writes
          PROVE  ToldIsKept(home[x], EvidenceAt(x), call[x].outcome)'
      <4>1. ToldIsKept(home[x], EvidenceAt(x), call[x].outcome)
        BY <2>1, <3>5 DEF IsKept
      <4> QED
        BY <1>1, <2>2, <2>3, <3>3, <3>4, <3>5, <4>1
    <3> QED
      BY <2>2, <3>2, <3>5 DEF IsKept
  <2> QED
    BY <2>4, <2>5, <2>6, <2>7
<1> QED
  BY <1>1, <1>2

\* The count of attempts outlives a step after which no more calls lead on.
LEMMA FewerLeadOn ==
  ASSUME OutcomeTypeOK, AttemptsAreCounted, LeadsOn' \subseteq LeadsOn,
         executed' = executed,
         caseRow'.status = "EVALUATING" => caseRow.status = "EVALUATING"
  PROVE  AttemptsAreCounted'
<1>1. /\ IsFiniteSet(LeadsOn)
      /\ Cardinality(LeadsOn) \in Nat /\ Cardinality(LeadsOn') \in Nat
      /\ Cardinality(LeadsOn') <= Cardinality(LeadsOn)
  BY LoopAssumption, FS_Subset, FS_CardinalityType DEF LeadsOn
<1>2. Cardinality(Worker) \in Nat /\ executed \in Nat /\ MaxAttempts \in Nat
  BY LoopAssumption, BoundAssumption, FS_CardinalityType DEF OutcomeTypeOK
<1> QED
  BY <1>1, <1>2 DEF AttemptsAreCounted

-----------------------------------------------------------------------------
\* A step of one worker that leaves the tables and what is remembered alone.
LEMMA QuietStep ==
  ASSUME OutcomeInv, OutcomeTypeOK', NEW w \in Worker,
         UNCHANGED tables, home' = home, audited' = audited, known' = known,
         \A x \in Worker \ {w} : pc'[x] = pc[x] /\ call'[x] = call[x] /\ reply'[x] = reply[x],
         hook' \in {hook, "idle"},
         \A p \in Process : undone[p] \subseteq undone'[p],
         seen' = seen,
         IsJudged(w)', IsPaid(w)', IsRemembered(w)', IsKept(w)', IsAudited(w)',
         InLock(w)' => InLock(w) \/ ~ LockTaken(w),
         \A e \in Evidence : HoldsOutcome(w, e)' =>
           \/ HoldsOutcome(w, e)
           \/ outcomeRows[e] = Nothing /\ \A x \in Worker \ {w} : ~ HoldsOutcome(x, e),
         HoldsPayment(w)' => HoldsPayment(w) \/ hook = "idle",
         Writes(w)' => /\ Writes(w) /\ EvidenceAt(w)' = EvidenceAt(w)
                       /\ call'[w].to = call[w].to,
         Writes(w) /\ ~ Writes(w)' => \/ EvidenceAt(w) \in undone'[home[w]]
                                      \/ outcomeRows[EvidenceAt(w)] # Nothing,
         pc[w] = "returned" /\ call[w].writes => EvidenceAt(w) \in undone'[home[w]]
  PROVE  OutcomeInv'
<1>1. /\ payRow' = payRow /\ caseRow' = caseRow /\ outcomeRows' = outcomeRows
      /\ auditRows' = auditRows /\ executed' = executed
  BY DEF tables
<1>2. CallsAreSound'
  BY <1>1, OthersStaySound DEF CallsAreSound
<1>3. RecoveredIsPaid'
  BY <1>1 DEF OutcomeInv, RecoveredIsPaid
<1>4. \A x \in Worker \ {w} :
        /\ InLock(x)' = InLock(x) /\ Writes(x)' = Writes(x) /\ EvidenceAt(x)' = EvidenceAt(x)
        /\ HoldsPayment(x)' = HoldsPayment(x)
        /\ \A e \in Evidence : HoldsOutcome(x, e)' = HoldsOutcome(x, e)
  BY DEF InLock, Writes, EvidenceAt, HoldsPayment, HoldsOutcome
<1>5. LocksAreExclusive'
  BY <1>4 DEF OutcomeInv, LocksAreExclusive, LockTaken
<1>6. OutcomesAreExclusive'
  BY <1>1, <1>4 DEF OutcomeInv, OutcomesAreExclusive
<1>7. HookHoldsPayment'
  BY <1>1, <1>4 DEF OutcomeInv, HookHoldsPayment
<1>8. SeenIsKnown'
  BY DEF OutcomeInv, SeenIsKnown
<1>9. MemoryIsAccounted'
  <2> SUFFICES ASSUME NEW p \in Process, NEW e \in Evidence,
                      known[p][e] # Nothing, outcomeRows[e] = Nothing
               PROVE  OpenIn(p, e)' \/ e \in undone'[p]
    BY <1>1 DEF MemoryIsAccounted
  <2>1. CASE e \in undone[p]
    BY <2>1
  <2>2. ASSUME NEW x \in Worker, home[x] = p, Writes(x), EvidenceAt(x) = e
        PROVE  OpenIn(p, e)' \/ e \in undone'[p]
    <3>1. CASE Writes(x)' /\ EvidenceAt(x)' = e
      BY <2>2, <3>1 DEF OpenIn, Writes
    <3>2. CASE ~ (Writes(x)' /\ EvidenceAt(x)' = e)
      <4>1. x = w /\ ~ Writes(w)'
        BY <1>4, <2>2, <3>2
      <4> QED
        BY <2>2, <4>1
    <3> QED
      BY <3>1, <3>2
  <2> QED
    BY <2>1, <2>2 DEF OutcomeInv, MemoryIsAccounted, OpenIn, Writes
<1>10. AuditMatchesOutcomes'
  BY <1>1 DEF OutcomeInv, AuditMatchesOutcomes
<1>11. AttemptsAreCounted'
  <2>1. LeadsOn' \subseteq LeadsOn
    BY <1>4 DEF LeadsOn
  <2> QED
    BY <1>1, <2>1, FewerLeadOn DEF OutcomeInv
<1> QED
  BY <1>2, <1>3, <1>5, <1>6, <1>7, <1>8, <1>9, <1>10, <1>11 DEF OutcomeInv

\* A call that fails, at whatever point.
LEMMA FailStep ==
  ASSUME OutcomeInv, NEW w \in Worker, pc[w] # "idle", Fails(w),
         UNCHANGED tables, home' = home, audited' = audited, known' = known,
         seen' = seen,
         hook' \in {hook, "idle"}, calls' \in Nat, failures' \in Nat
  PROVE  OutcomeInv'
<1>1. OutcomeTypeOK
  BY DEF OutcomeInv
<1>2. EvidenceAt(w) \in Evidence /\ home[w] \in Process /\ call[w].writes \in BOOLEAN
  BY <1>1, CallFields
<1>3. /\ undone' \in [Process -> SUBSET Evidence]
      /\ \A p \in Process : undone[p] \subseteq undone'[p]
      /\ call[w].writes => EvidenceAt(w) \in undone'[home[w]]
  BY <1>1, <1>2 DEF Fails, OutcomeTypeOK
<1>4. /\ pc' = [pc EXCEPT ![w] = "idle"]
      /\ call' = [call EXCEPT ![w] = NoCall]
      /\ reply' = [reply EXCEPT ![w] = NoAnswer]
  BY DEF Fails, Ends
<1>5. /\ pc'[w] = "idle" /\ reply'[w] = NoAnswer
      /\ \A x \in Worker \ {w} : pc'[x] = pc[x] /\ call'[x] = call[x] /\ reply'[x] = reply[x]
  BY <1>1, <1>4 DEF OutcomeTypeOK
<1>6. OutcomeTypeOK'
  <2>1. pc' \in [Worker -> Position] /\ reply' \in [Worker -> Answer \cup {NoAnswer}]
    BY <1>1, <1>4 DEF OutcomeTypeOK, Position
  <2>2. /\ call' \in [Worker -> Call \cup {NoCall}]
        /\ \A x \in Worker : pc'[x] # "idle" => call'[x] \in Call
    BY <1>1, <1>4, <1>5 DEF OutcomeTypeOK
  <2> QED
    BY <1>1, <1>3, <2>1, <2>2 DEF OutcomeTypeOK, tables
<1>7. /\ IsJudged(w)' /\ IsPaid(w)' /\ IsRemembered(w)' /\ IsKept(w)' /\ IsAudited(w)'
      /\ ~ InLock(w)' /\ ~ HoldsPayment(w)' /\ ~ Writes(w)'
      /\ \A e \in Evidence : ~ HoldsOutcome(w, e)'
  BY <1>5 DEF IsJudged, IsPaid, IsRemembered, IsKept, IsAudited, InLock, HoldsPayment,
     HoldsOutcome, Writes
<1> QED
  BY <1>2, <1>3, <1>5, <1>6, <1>7, QuietStep DEF Writes

\* The answer to a duplicate, which writes nothing.
AnswersOnly(w, then, told) == AnswersWith(w, then, told, FALSE)

\* A duplicate is answered, before the outcome is judged or once its key is taken.
LEMMA AnswerStep ==
  ASSUME OutcomeInv, NEW w \in Worker, NEW then \in Disposition \cup {Raises},
         NEW told \in OutcomeType,
         AnswersOnly(w, then, told),
         ToldIsKept(home[w], EvidenceAt(w), told),
         \/ pc[w] = "loaded" /\ ~ LockTaken(w)
         \/ pc[w] = "appending" /\ outcomeRows[EvidenceAt(w)] # Nothing,
         UNCHANGED tables, home' = home, audited' = audited, known' = known,
         seen' = seen,
         hook' \in {hook, "idle"}, calls' \in Nat, failures' \in Nat
  PROVE  OutcomeInv'
<1>1. OutcomeTypeOK
  BY DEF OutcomeInv
<1>2. call[w] \in Call /\ pc[w] # "idle"
  BY <1>1, CallFields
<1>3. CASE then = Raises
  <2>1. Fails(w)
    BY <1>3 DEF AnswersOnly, AnswersWith
  <2> QED
    BY <1>2, <2>1, FailStep
<1>4. CASE then # Raises
  <2>1. /\ pc' = [pc EXCEPT ![w] = Processed(then)]
        /\ call' = [call EXCEPT ![w].outcome = told, ![w].then = then,
                                ![w].writes = FALSE, ![w].audits = FALSE]
        /\ reply' = reply /\ undone' = undone
    BY <1>4 DEF AnswersOnly, AnswersWith
  <2>2. Processed(then) \in {"processed", "returned"}
    BY DEF Processed
  <2>3. /\ pc'[w] \in {"processed", "returned"}
        /\ call'[w] = [call[w] EXCEPT !.outcome = told, !.then = then, !.writes = FALSE,
                                      !.audits = FALSE]
        /\ \A x \in Worker \ {w} : pc'[x] = pc[x] /\ call'[x] = call[x]
    BY <1>1, <2>1, <2>2 DEF OutcomeTypeOK
  <2>4. then \in Disposition
    BY <1>4
  <2>5. /\ call'[w] \in Call /\ call'[w].evidence = call[w].evidence
        /\ call'[w].payment = call[w].payment /\ call'[w].outcome = told
        /\ call'[w].then = then /\ ~ call'[w].writes
    BY <1>2, <2>3, <2>4 DEF Call
  <2>6. OutcomeTypeOK'
    <3>1. pc' \in [Worker -> Position]
      BY <1>1, <2>1, <2>2 DEF OutcomeTypeOK, Position
    <3>2. /\ call' \in [Worker -> Call \cup {NoCall}]
          /\ \A x \in Worker : pc'[x] # "idle" => call'[x] \in Call
      BY <1>1, <2>1, <2>3, <2>5 DEF OutcomeTypeOK
    <3> QED
      BY <1>1, <2>1, <3>1, <3>2 DEF OutcomeTypeOK, tables
  <2>7. EvidenceAt(w)' = EvidenceAt(w)
    BY <2>5 DEF EvidenceAt
  <2>8. /\ IsJudged(w)' /\ IsRemembered(w)' /\ IsAudited(w)'
        /\ ~ HoldsPayment(w)' /\ ~ Writes(w)'
        /\ \A e \in Evidence : ~ HoldsOutcome(w, e)'
    BY <2>3, <2>4, <2>5 DEF IsJudged, IsRemembered, IsAudited, HoldsPayment, HoldsOutcome, Writes
  <2>9. IsPaid(w)'
    BY <1>2, <2>3, <2>5 DEF OutcomeInv, CallsAreSound, IsPaid, tables
  <2>10. pc[w] # "returned" /\ pc[w] # "reading"
    OBVIOUS
  <2>11. IsKept(w)'
    <3>1. \A p \in Process, e \in Evidence, outcome \in OutcomeType :
            ToldIsKept(p, e, outcome) => ToldIsKept(p, e, outcome)'
      BY <2>1, <2>3, <2>6, <2>10, OthersStaySound DEF tables
    <3>2. ToldIsKept(home[w], EvidenceAt(w), told)'
      <4>1. home[w] \in Process /\ EvidenceAt(w) \in Evidence
        BY <1>1, <1>2, CallFields
      <4> QED
        BY <2>7, <3>1, <4>1
    <3>3. reply[w] # NoAnswer => reply[w].evidence \in Evidence /\ reply[w].outcome \in OutcomeType
      BY <1>1 DEF OutcomeTypeOK, Answer
    <3>4. reply'[w] # NoAnswer => ToldIsKept(home[w], reply[w].evidence, reply[w].outcome)'
      BY <1>1, <1>2, <2>1, <3>1, <3>3, CallFields DEF OutcomeInv, CallsAreSound, IsKept
    <3> QED
      BY <2>1, <2>5, <2>7, <3>2, <3>4 DEF IsKept
  <2>12. /\ Writes(w) => \/ EvidenceAt(w) \in undone'[home[w]]
                         \/ outcomeRows[EvidenceAt(w)] # Nothing
        /\ ~ (pc[w] = "returned" /\ call[w].writes)
    BY <2>10 DEF OutcomeInv, CallsAreSound, IsJudged, Writes
  <2>13. InLock(w)' => InLock(w) \/ ~ LockTaken(w)
    BY DEF InLock
  <2>14. /\ \A p \in Process : undone[p] \subseteq undone'[p]
         /\ \A x \in Worker \ {w} : pc'[x] = pc[x] /\ call'[x] = call[x] /\ reply'[x] = reply[x]
    BY <2>1, <2>3
  <2> QED
    BY <2>6, <2>8, <2>9, <2>11, <2>12, <2>13, <2>14, QuietStep
<1> QED
  BY <1>3, <1>4

-----------------------------------------------------------------------------
\* What a call is about stays what it was.
SameCall(w) ==
  /\ call'[w] \in Call
  /\ call'[w].evidence = call[w].evidence /\ call'[w].payment = call[w].payment
  /\ call'[w].case = call[w].case /\ call'[w].to = call[w].to
  /\ call'[w].outcome = call[w].outcome /\ call'[w].then = call[w].then
  /\ call'[w].pays = call[w].pays /\ call'[w].writes = call[w].writes
  /\ call[w].audits => call'[w].audits

\* A call goes on to the next place.
LEMMA MoveStep ==
  ASSUME OutcomeInv, NEW w \in Worker, pc[w] \notin {"idle", "returned"},
         pc' \in [Worker -> Position], call' \in [Worker -> Call \cup {NoCall}],
         \A x \in Worker \ {w} : pc'[x] = pc[x] /\ call'[x] = call[x],
         pc'[w] # "idle", SameCall(w), reply' = reply,
         UNCHANGED tables, home' = home, audited' = audited, known' = known,
         seen' = seen,
         undone' \in [Process -> SUBSET Evidence],
         \A p \in Process : undone[p] \subseteq undone'[p],
         hook' \in {hook, "idle"}, calls' \in Nat, failures' \in Nat,
         IsJudged(w)', IsAudited(w)',
         pc'[w] = "reading" => known[home[w]][EvidenceAt(w)] = Nothing,
         pc'[w] \in {"processed", "returned"} => pc[w] = "processed" \/ call[w].writes,
         InLock(w)' => InLock(w) \/ ~ LockTaken(w),
         \A e \in Evidence : HoldsOutcome(w, e)' =>
           \/ HoldsOutcome(w, e)
           \/ outcomeRows[e] = Nothing /\ \A x \in Worker \ {w} : ~ HoldsOutcome(x, e),
         HoldsPayment(w)' => HoldsPayment(w) \/ hook = "idle"
  PROVE  OutcomeInv'
<1>1. OutcomeTypeOK /\ IsPaid(w) /\ IsRemembered(w) /\ IsKept(w)
  BY DEF OutcomeInv, CallsAreSound
<1>2. call[w] \in Call /\ home[w] \in Process /\ EvidenceAt(w) \in Evidence
  BY <1>1, CallFields
<1>3. OutcomeTypeOK'
  <2>1. \A x \in Worker : pc'[x] # "idle" => call'[x] \in Call
    BY <1>1 DEF OutcomeTypeOK, SameCall
  <2> QED
    BY <1>1, <2>1 DEF OutcomeTypeOK, tables
<1>4. EvidenceAt(w)' = EvidenceAt(w)
  BY DEF SameCall, EvidenceAt
<1>5. call'[w].to = call[w].to /\ call'[w].writes = call[w].writes /\ Writes(w)' = Writes(w)
  BY DEF SameCall, Writes
<1>6. IsPaid(w)'
  BY <1>1 DEF IsPaid, SameCall, tables
<1>7. IsRemembered(w)'
  <2>1. Writes(w) => known[home[w]][EvidenceAt(w)] = call[w].outcome
    BY <1>1 DEF IsRemembered
  <2> QED
    BY <1>4, <1>5, <2>1 DEF IsRemembered, SameCall
<1>8. \A p \in Process, e \in Evidence, outcome \in OutcomeType :
        ToldIsKept(p, e, outcome) => ToldIsKept(p, e, outcome)'
  BY <1>3, OthersStaySound DEF tables
<1>9. IsKept(w)'
  <2>1. reply[w] # NoAnswer => reply[w].evidence \in Evidence /\ reply[w].outcome \in OutcomeType
    BY <1>1 DEF OutcomeTypeOK, Answer
  <2>2. reply[w] # NoAnswer => ToldIsKept(home[w], reply[w].evidence, reply[w].outcome)'
    BY <1>1, <1>2, <1>8, <2>1 DEF IsKept
  <2>3. ASSUME pc[w] = "processed", ~ call[w].writes
        PROVE  ToldIsKept(home[w], EvidenceAt(w), call[w].outcome)'
    <3>1. call[w].outcome \in OutcomeType
      BY <2>3 DEF OutcomeInv, CallsAreSound, IsJudged
    <3>2. ToldIsKept(home[w], EvidenceAt(w), call[w].outcome)
      BY <1>1, <2>3 DEF IsKept
    <3>3. call'[w].outcome = call[w].outcome
      BY DEF SameCall
    <3> QED
      BY <1>2, <1>4, <1>8, <3>1, <3>2, <3>3
  <2> QED
    BY <1>5, <2>2, <2>3 DEF IsKept
<1> QED
  BY <1>3, <1>4, <1>5, <1>6, <1>7, <1>9, QuietStep

-----------------------------------------------------------------------------
LEMMA RefuseTerminalStep ==
  ASSUME OutcomeInv, NEW w \in Worker, RefuseTerminal(w)
  PROVE  OutcomeInv'
<1>1. pc[w] # "idle" /\ Fails(w)
  BY DEF RefuseTerminal, LooksUp
<1>2. UNCHANGED tables /\ home' = home /\ audited' = audited /\ known' = known
  BY DEF RefuseTerminal, tables
<1>3. /\ calls' \in Nat /\ failures' \in Nat
      /\ hook' \in {hook, "idle"}
      /\ seen' = seen
  BY DEF RefuseTerminal, OutcomeInv, OutcomeTypeOK, bounds
<1> QED
  BY <1>1, <1>2, <1>3, FailStep

LEMMA AppendBreaksReferenceStep ==
  ASSUME OutcomeInv, NEW w \in Worker, AppendBreaksReference(w)
  PROVE  OutcomeInv'
<1>1. pc[w] # "idle" /\ Fails(w)
  BY DEF AppendBreaksReference
<1>2. UNCHANGED tables /\ home' = home /\ audited' = audited /\ known' = known
  BY DEF AppendBreaksReference, tables
<1>3. /\ calls' \in Nat /\ failures' \in Nat
      /\ hook' \in {hook, "idle"}
      /\ seen' = seen
  BY DEF AppendBreaksReference, OutcomeInv, OutcomeTypeOK, bounds
<1> QED
  BY <1>1, <1>2, <1>3, FailStep

LEMMA SaveNextActionStep ==
  ASSUME OutcomeInv, NEW w \in Worker, SaveNextAction(w)
  PROVE  OutcomeInv'
<1>1. pc[w] # "idle" /\ Fails(w)
  BY DEF SaveNextAction
<1>2. UNCHANGED tables /\ home' = home /\ audited' = audited /\ known' = known
  BY DEF SaveNextAction, tables
<1>3. /\ calls' \in Nat /\ failures' \in Nat
      /\ hook' \in {hook, "idle"}
      /\ seen' = seen
  BY DEF SaveNextAction, OutcomeInv, OutcomeTypeOK, bounds
<1> QED
  BY <1>1, <1>2, <1>3, FailStep

LEMMA AbandonStep ==
  ASSUME OutcomeInv, NEW w \in Worker, Abandon(w)
  PROVE  OutcomeInv'
<1>1. pc[w] # "idle" /\ Fails(w)
  BY DEF Abandon
<1>2. UNCHANGED tables /\ home' = home /\ audited' = audited /\ known' = known
  BY DEF Abandon, tables
<1>3. /\ calls' \in Nat /\ failures' \in Nat
      /\ hook' \in {hook, "idle"}
      /\ seen' = seen
  BY DEF Abandon, OutcomeInv, OutcomeTypeOK, bounds
<1> QED
  BY <1>1, <1>2, <1>3, FailStep

\* A call that goes on unchanged.
LEMMA GoesOnKeepsCall ==
  ASSUME OutcomeTypeOK, NEW w \in Worker, pc[w] # "idle", NEW position \in Position,
         GoesOn(w, position)
  PROVE  /\ pc' \in [Worker -> Position] /\ call' \in [Worker -> Call \cup {NoCall}]
         /\ \A x \in Worker \ {w} : pc'[x] = pc[x] /\ call'[x] = call[x]
         /\ pc'[w] = position /\ call'[w] = call[w] /\ SameCall(w) /\ reply' = reply
BY CallFields DEF OutcomeTypeOK, GoesOn, SameCall

LEMMA AcceptStep ==
  ASSUME OutcomeInv, NEW w \in Worker, Accept(w)
  PROVE  OutcomeInv'
<1> DEFINE position == "reading"
<1>1. /\ OutcomeTypeOK /\ IsJudged(w) /\ IsRemembered(w) /\ IsAudited(w)
      /\ pc[w] = "loaded" /\ GoesOn(w, position) /\ ~ LockTaken(w)
      /\ call[w].case.status \notin TerminalCase /\ known[home[w]][EvidenceAt(w)] = Nothing
  BY DEF OutcomeInv, CallsAreSound, Accept, LooksUp, Existing
<1>2. position \in {"reading"} /\ position \in Position
  BY DEF Position, Processed
<1> HIDE DEF position
<1>3. /\ pc' \in [Worker -> Position] /\ call' \in [Worker -> Call \cup {NoCall}]
      /\ \A x \in Worker \ {w} : pc'[x] = pc[x] /\ call'[x] = call[x]
      /\ pc'[w] = position /\ call'[w] = call[w] /\ SameCall(w) /\ reply' = reply
  BY <1>1, <1>2, GoesOnKeepsCall
<1>4. UNCHANGED tables /\ home' = home /\ audited' = audited /\ known' = known
  BY DEF Accept, tables, memory
<1>5. /\ undone' \in [Process -> SUBSET Evidence]
      /\ \A p \in Process : undone[p] \subseteq undone'[p]
      /\ hook' \in {hook, "idle"} /\ calls' \in Nat /\ failures' \in Nat /\ seen' = seen
  BY <1>1 DEF Accept, OutcomeTypeOK, memory, bounds
<1>6. IsJudged(w)' /\ IsAudited(w)'
  BY <1>1, <1>2, <1>3, <1>4 DEF IsJudged, IsAudited, Writes
<1>7. InLock(w)' => InLock(w) \/ ~ LockTaken(w)
  BY <1>1 DEF InLock
<1>8. \A e \in Evidence : HoldsOutcome(w, e)' =>
        \/ HoldsOutcome(w, e)
        \/ outcomeRows[e] = Nothing /\ \A x \in Worker \ {w} : ~ HoldsOutcome(x, e)
  BY <1>1, <1>2, <1>3 DEF HoldsOutcome, EvidenceAt
<1>9. HoldsPayment(w)' => HoldsPayment(w) \/ hook = "idle"
  BY <1>1, <1>2, <1>3 DEF HoldsPayment
<1>10. /\ pc'[w] = "reading" => known[home[w]][EvidenceAt(w)] = Nothing
       /\ pc'[w] \in {"processed", "returned"} => pc[w] = "processed" \/ call[w].writes
       /\ pc'[w] # "idle" /\ pc[w] \notin {"idle", "returned"}
  BY <1>1, <1>2, <1>3 DEF IsJudged
<1> QED
  BY <1>1, <1>3, <1>4, <1>5, <1>6, <1>7, <1>8, <1>9, <1>10, MoveStep

LEMMA AppendStep ==
  ASSUME OutcomeInv, NEW w \in Worker, Append(w)
  PROVE  OutcomeInv'
<1> DEFINE position == "appended"
<1>1. /\ OutcomeTypeOK /\ IsJudged(w) /\ IsRemembered(w) /\ IsAudited(w)
      /\ pc[w] = "appending" /\ GoesOn(w, position)
      /\ KeyIsFree(w) /\ outcomeRows[EvidenceAt(w)] = Nothing
  BY DEF OutcomeInv, CallsAreSound, Append
<1>2. position \in {"appended"} /\ position \in Position
  BY DEF Position, Processed
<1> HIDE DEF position
<1>3. /\ pc' \in [Worker -> Position] /\ call' \in [Worker -> Call \cup {NoCall}]
      /\ \A x \in Worker \ {w} : pc'[x] = pc[x] /\ call'[x] = call[x]
      /\ pc'[w] = position /\ call'[w] = call[w] /\ SameCall(w) /\ reply' = reply
  BY <1>1, <1>2, GoesOnKeepsCall
<1>4. UNCHANGED tables /\ home' = home /\ audited' = audited /\ known' = known
  BY DEF Append, tables, memory
<1>5. /\ undone' \in [Process -> SUBSET Evidence]
      /\ \A p \in Process : undone[p] \subseteq undone'[p]
      /\ hook' \in {hook, "idle"} /\ calls' \in Nat /\ failures' \in Nat /\ seen' = seen
  BY <1>1 DEF Append, OutcomeTypeOK, memory, bounds
<1>6. IsJudged(w)' /\ IsAudited(w)'
  BY <1>1, <1>2, <1>3, <1>4 DEF IsJudged, IsAudited, Writes
<1>7. InLock(w)' => InLock(w) \/ ~ LockTaken(w)
  BY <1>1 DEF InLock
<1>8. \A e \in Evidence : HoldsOutcome(w, e)' =>
        \/ HoldsOutcome(w, e)
        \/ outcomeRows[e] = Nothing /\ \A x \in Worker \ {w} : ~ HoldsOutcome(x, e)
  BY <1>1, <1>2, <1>3 DEF HoldsOutcome, EvidenceAt, KeyIsFree
<1>9. HoldsPayment(w)' => HoldsPayment(w) \/ hook = "idle"
  BY <1>1, <1>2, <1>3 DEF HoldsPayment
<1>10. /\ pc'[w] = "reading" => known[home[w]][EvidenceAt(w)] = Nothing
       /\ pc'[w] \in {"processed", "returned"} => pc[w] = "processed" \/ call[w].writes
       /\ pc'[w] # "idle" /\ pc[w] \notin {"idle", "returned"}
  BY <1>1, <1>2, <1>3 DEF IsJudged
<1> QED
  BY <1>1, <1>3, <1>4, <1>5, <1>6, <1>7, <1>8, <1>9, <1>10, MoveStep

LEMMA SaveCaseStep ==
  ASSUME OutcomeInv, NEW w \in Worker, SaveCase(w)
  PROVE  OutcomeInv'
<1> DEFINE position == IF call[w].pays THEN "saved" ELSE Processed(call[w].then)
<1>1. /\ OutcomeTypeOK /\ IsJudged(w) /\ IsRemembered(w) /\ IsAudited(w)
      /\ pc[w] = "saving" /\ GoesOn(w, position)
      /\ position # "saved" => ~ call[w].pays
  BY DEF OutcomeInv, CallsAreSound, SaveCase
<1>2. position \in {"saved", "processed", "returned"} /\ position \in Position
  BY DEF Position, Processed
<1> HIDE DEF position
<1>3. /\ pc' \in [Worker -> Position] /\ call' \in [Worker -> Call \cup {NoCall}]
      /\ \A x \in Worker \ {w} : pc'[x] = pc[x] /\ call'[x] = call[x]
      /\ pc'[w] = position /\ call'[w] = call[w] /\ SameCall(w) /\ reply' = reply
  BY <1>1, <1>2, GoesOnKeepsCall
<1>4. UNCHANGED tables /\ home' = home /\ audited' = audited /\ known' = known
  BY DEF SaveCase, tables, memory
<1>5. /\ undone' \in [Process -> SUBSET Evidence]
      /\ \A p \in Process : undone[p] \subseteq undone'[p]
      /\ hook' \in {hook, "idle"} /\ calls' \in Nat /\ failures' \in Nat /\ seen' = seen
  BY <1>1 DEF SaveCase, OutcomeTypeOK, memory, bounds
<1>6. IsJudged(w)' /\ IsAudited(w)'
  BY <1>1, <1>2, <1>3, <1>4 DEF IsJudged, IsAudited, Writes
<1>7. InLock(w)' => InLock(w) \/ ~ LockTaken(w)
  BY <1>1 DEF InLock
<1>8. \A e \in Evidence : HoldsOutcome(w, e)' =>
        \/ HoldsOutcome(w, e)
        \/ outcomeRows[e] = Nothing /\ \A x \in Worker \ {w} : ~ HoldsOutcome(x, e)
  BY <1>1, <1>2, <1>3 DEF HoldsOutcome, EvidenceAt
<1>9. HoldsPayment(w)' => HoldsPayment(w) \/ hook = "idle"
  BY <1>1, <1>2, <1>3 DEF HoldsPayment
<1>10. /\ pc'[w] = "reading" => known[home[w]][EvidenceAt(w)] = Nothing
       /\ pc'[w] \in {"processed", "returned"} => pc[w] = "processed" \/ call[w].writes
       /\ pc'[w] # "idle" /\ pc[w] \notin {"idle", "returned"}
  BY <1>1, <1>2, <1>3 DEF IsJudged
<1> QED
  BY <1>1, <1>3, <1>4, <1>5, <1>6, <1>7, <1>8, <1>9, <1>10, MoveStep

LEMMA SavePaymentStep ==
  ASSUME OutcomeInv, NEW w \in Worker, SavePayment(w)
  PROVE  OutcomeInv'
<1> DEFINE position == Processed(call[w].then)
<1>1. /\ OutcomeTypeOK /\ IsJudged(w) /\ IsRemembered(w) /\ IsAudited(w)
      /\ pc[w] = "saved" /\ GoesOn(w, position) /\ hook = "idle"
  BY DEF OutcomeInv, CallsAreSound, SavePayment, PaymentIsFree
<1>2. position \in {"processed", "returned"} /\ position \in Position
  BY DEF Position, Processed
<1> HIDE DEF position
<1>3. /\ pc' \in [Worker -> Position] /\ call' \in [Worker -> Call \cup {NoCall}]
      /\ \A x \in Worker \ {w} : pc'[x] = pc[x] /\ call'[x] = call[x]
      /\ pc'[w] = position /\ call'[w] = call[w] /\ SameCall(w) /\ reply' = reply
  BY <1>1, <1>2, GoesOnKeepsCall
<1>4. UNCHANGED tables /\ home' = home /\ audited' = audited /\ known' = known
  BY DEF SavePayment, tables, memory
<1>5. /\ undone' \in [Process -> SUBSET Evidence]
      /\ \A p \in Process : undone[p] \subseteq undone'[p]
      /\ hook' \in {hook, "idle"} /\ calls' \in Nat /\ failures' \in Nat /\ seen' = seen
  BY <1>1 DEF SavePayment, OutcomeTypeOK, memory, bounds
<1>6. IsJudged(w)' /\ IsAudited(w)'
  BY <1>1, <1>2, <1>3, <1>4 DEF IsJudged, IsAudited, Writes
<1>7. InLock(w)' => InLock(w) \/ ~ LockTaken(w)
  BY <1>1 DEF InLock
<1>8. \A e \in Evidence : HoldsOutcome(w, e)' =>
        \/ HoldsOutcome(w, e)
        \/ outcomeRows[e] = Nothing /\ \A x \in Worker \ {w} : ~ HoldsOutcome(x, e)
  BY <1>1, <1>2, <1>3 DEF HoldsOutcome, EvidenceAt
<1>9. HoldsPayment(w)' => HoldsPayment(w) \/ hook = "idle"
  BY <1>1, <1>2, <1>3 DEF HoldsPayment
<1>10. /\ pc'[w] = "reading" => known[home[w]][EvidenceAt(w)] = Nothing
       /\ pc'[w] \in {"processed", "returned"} => pc[w] = "processed" \/ call[w].writes
       /\ pc'[w] # "idle" /\ pc[w] \notin {"idle", "returned"}
  BY <1>1, <1>2, <1>3 DEF IsJudged
<1> QED
  BY <1>1, <1>3, <1>4, <1>5, <1>6, <1>7, <1>8, <1>9, <1>10, MoveStep

LEMMA ReturnStep ==
  ASSUME OutcomeInv, NEW w \in Worker, Return(w)
  PROVE  OutcomeInv'
<1> DEFINE position == "returned"
<1>1. /\ OutcomeTypeOK /\ IsJudged(w) /\ IsRemembered(w) /\ IsAudited(w)
      /\ pc[w] = "processed" /\ GoesOn(w, position)
  BY DEF OutcomeInv, CallsAreSound, Return
<1>2. position \in {"returned"} /\ position \in Position
  BY DEF Position, Processed
<1> HIDE DEF position
<1>3. /\ pc' \in [Worker -> Position] /\ call' \in [Worker -> Call \cup {NoCall}]
      /\ \A x \in Worker \ {w} : pc'[x] = pc[x] /\ call'[x] = call[x]
      /\ pc'[w] = position /\ call'[w] = call[w] /\ SameCall(w) /\ reply' = reply
  BY <1>1, <1>2, GoesOnKeepsCall
<1>4. UNCHANGED tables /\ home' = home /\ audited' = audited /\ known' = known
  BY DEF Return, tables, memory
<1>5. /\ undone' \in [Process -> SUBSET Evidence]
      /\ \A p \in Process : undone[p] \subseteq undone'[p]
      /\ hook' \in {hook, "idle"} /\ calls' \in Nat /\ failures' \in Nat /\ seen' = seen
  BY <1>1 DEF Return, OutcomeTypeOK, memory, bounds
<1>6. IsJudged(w)' /\ IsAudited(w)'
  BY <1>1, <1>2, <1>3, <1>4 DEF IsJudged, IsAudited, Writes
<1>7. InLock(w)' => InLock(w) \/ ~ LockTaken(w)
  BY <1>1 DEF InLock
<1>8. \A e \in Evidence : HoldsOutcome(w, e)' =>
        \/ HoldsOutcome(w, e)
        \/ outcomeRows[e] = Nothing /\ \A x \in Worker \ {w} : ~ HoldsOutcome(x, e)
  BY <1>1, <1>2, <1>3 DEF HoldsOutcome, EvidenceAt
<1>9. HoldsPayment(w)' => HoldsPayment(w) \/ hook = "idle"
  BY <1>1, <1>2, <1>3 DEF HoldsPayment
<1>10. /\ pc'[w] = "reading" => known[home[w]][EvidenceAt(w)] = Nothing
       /\ pc'[w] \in {"processed", "returned"} => pc[w] = "processed" \/ call[w].writes
       /\ pc'[w] # "idle" /\ pc[w] \notin {"idle", "returned"}
  BY <1>1, <1>2, <1>3 DEF IsJudged
<1> QED
  BY <1>1, <1>3, <1>4, <1>5, <1>6, <1>7, <1>8, <1>9, <1>10, MoveStep

LEMMA ReadCaseStep ==
  ASSUME OutcomeInv, NEW w \in Worker, ReadCase(w)
  PROVE  OutcomeInv'
<1>1. /\ OutcomeTypeOK /\ IsJudged(w) /\ IsAudited(w) /\ pc[w] = "appended"
      /\ pc' = [pc EXCEPT ![w] = "saving"]
      /\ call' = [call EXCEPT ![w].base = caseRow] /\ reply' = reply
  BY DEF OutcomeInv, CallsAreSound, ReadCase
<1>2. call[w] \in Call /\ caseRow \in CaseRow
  BY <1>1, CallFields DEF OutcomeTypeOK
<1>3. /\ pc' \in [Worker -> Position] /\ call' \in [Worker -> Call \cup {NoCall}]
      /\ \A x \in Worker \ {w} : pc'[x] = pc[x] /\ call'[x] = call[x]
      /\ pc'[w] = "saving" /\ call'[w] = [call[w] EXCEPT !.base = caseRow]
  <2>1. [call[w] EXCEPT !.base = caseRow] \in Call
    BY <1>2 DEF Call
  <2> QED
    BY <1>1, <2>1 DEF OutcomeTypeOK, Position
<1>4. SameCall(w)
  BY <1>2, <1>3 DEF SameCall, Call
<1>5. UNCHANGED tables /\ home' = home /\ audited' = audited /\ known' = known
  BY DEF ReadCase, tables, memory
<1>6. /\ undone' \in [Process -> SUBSET Evidence]
      /\ \A p \in Process : undone[p] \subseteq undone'[p]
      /\ hook' \in {hook, "idle"} /\ calls' \in Nat /\ failures' \in Nat /\ seen' = seen
  BY <1>1 DEF ReadCase, OutcomeTypeOK, memory, bounds
<1>7. /\ IsJudged(w)' /\ IsAudited(w)' /\ InLock(w) /\ ~ HoldsPayment(w)'
  BY <1>1, <1>3, <1>4, <1>5 DEF IsJudged, IsAudited, Writes, InLock, HoldsPayment, SameCall
<1>8. \A e \in Evidence : HoldsOutcome(w, e)' => HoldsOutcome(w, e)
  BY <1>1, <1>3, <1>4 DEF HoldsOutcome, EvidenceAt, SameCall
<1> QED
  BY <1>1, <1>3, <1>4, <1>5, <1>6, <1>7, <1>8, MoveStep

LEMMA RecordAuditStep ==
  ASSUME OutcomeInv, NEW w \in Worker, RecordAudit(w)
  PROVE  OutcomeInv'
<1>1. /\ OutcomeTypeOK /\ IsJudged(w) /\ pc[w] = "recording"
  BY DEF OutcomeInv, CallsAreSound, RecordAudit
<1>2. call[w] \in Call /\ Writes(w) /\ home[w] \in Process /\ EvidenceAt(w) \in Evidence
  BY <1>1, CallFields DEF IsJudged, Writes
<1>3. seen' = seen
  BY DEF RecordAudit
<1>4. UNCHANGED tables /\ home' = home /\ audited' = audited /\ known' = known
  BY DEF RecordAudit, tables
<1>5. /\ hook' \in {hook, "idle"} /\ calls' \in Nat /\ failures' \in Nat
  BY <1>1, <1>2 DEF RecordAudit, OutcomeTypeOK, bounds
<1>6. CASE Fails(w)
  BY <1>1, <1>3, <1>4, <1>5, <1>6, FailStep
<1>7. CASE ~ Fails(w)
  <2>1. /\ pc' = [pc EXCEPT ![w] = "appending"]
        /\ call' = [call EXCEPT ![w].audits = TRUE]
        /\ reply' = reply /\ undone' = undone
    BY <1>7 DEF RecordAudit
  <2>2. /\ pc' \in [Worker -> Position] /\ call' \in [Worker -> Call \cup {NoCall}]
        /\ \A x \in Worker \ {w} : pc'[x] = pc[x] /\ call'[x] = call[x]
        /\ pc'[w] = "appending" /\ call'[w] = [call[w] EXCEPT !.audits = TRUE]
    <3>1. [call[w] EXCEPT !.audits = TRUE] \in Call
      BY <1>2 DEF Call
    <3> QED
      BY <1>1, <2>1, <3>1 DEF OutcomeTypeOK, Position
  <2>3. SameCall(w) /\ call'[w].audits
    BY <1>2, <2>2 DEF SameCall, Call
  <2>4. /\ undone' \in [Process -> SUBSET Evidence]
        /\ \A p \in Process : undone[p] \subseteq undone'[p]
    BY <1>1, <2>1 DEF OutcomeTypeOK
  <2>5. /\ IsJudged(w)' /\ IsAudited(w)' /\ InLock(w) /\ ~ HoldsPayment(w)'
        /\ \A e \in Evidence : ~ HoldsOutcome(w, e)'
    BY <1>1, <2>2, <2>3 DEF IsJudged, IsAudited, InLock, HoldsPayment, HoldsOutcome, SameCall
  <2> QED
    BY <1>1, <1>3, <1>4, <1>5, <2>1, <2>2, <2>3, <2>4, <2>5, MoveStep
<1> QED
  BY <1>6, <1>7

-----------------------------------------------------------------------------
LEMMA AnswerDuplicateStep ==
  ASSUME OutcomeInv, NEW w \in Worker, AnswerDuplicate(w)
  PROVE  OutcomeInv'
<1> DEFINE told == Existing(w)
           then == Resolve(told, call[w].case, call[w].payment, FactsAt(w).cycle, executed)
<1>1. /\ OutcomeTypeOK /\ pc[w] = "loaded" /\ ~ LockTaken(w) /\ told # Nothing
      /\ AnswersOnly(w, then, told)
  BY DEF OutcomeInv, AnswerDuplicate, LooksUp, Answers, AnswersOnly
<1>2. EvidenceAt(w) \in Evidence /\ home[w] \in Process /\ FactsAt(w).cycle \in Nat
      /\ call[w].case \in CaseRow /\ call[w].payment \in PaymentStatus /\ executed \in Nat
  BY <1>1, CallFields DEF Facts, OutcomeTypeOK
<1>3. told \in OutcomeType
  BY <1>1, <1>2 DEF Existing, OutcomeTypeOK
<1>4. ToldIsKept(home[w], EvidenceAt(w), told)
  <2>1. CASE outcomeRows[EvidenceAt(w)] # Nothing
    BY <2>1 DEF Existing, ToldIsKept
  <2>2. CASE outcomeRows[EvidenceAt(w)] = Nothing /\ EvidenceAt(w) \in undone[home[w]]
    BY <2>2 DEF ToldIsKept
  <2>3. CASE outcomeRows[EvidenceAt(w)] = Nothing /\ EvidenceAt(w) \notin undone[home[w]]
    <3>1. told = known[home[w]][EvidenceAt(w)]
      BY <2>3 DEF Existing
    <3>2. PICK x \in Worker : /\ home[x] = home[w] /\ pc[x] # "idle" /\ call[x].writes
                              /\ EvidenceAt(x) = EvidenceAt(w)
      BY <1>1, <1>2, <2>3, <3>1 DEF OutcomeInv, MemoryIsAccounted, OpenIn
    <3>3. IsJudged(x) /\ IsJudged(w) /\ IsRemembered(x)
      BY DEF OutcomeInv, CallsAreSound
    <3>4. pc[x] # "loaded" /\ x # w
      BY <1>1, <3>2, <3>3 DEF IsJudged
    <3>5. pc[x] = "returned"
      BY <1>1, <3>2, <3>4 DEF LockTaken, InLock
    <3>6. call[x].outcome = told
      BY <3>1, <3>2, <3>3 DEF IsRemembered, Writes
    <3> QED
      BY <3>2, <3>5, <3>6 DEF ToldIsKept
  <2> QED
    BY <2>1, <2>2, <2>3
<1>5. then \in Disposition \cup {Raises}
  BY <1>2, <1>3, Resolved
<1>6. UNCHANGED tables /\ home' = home /\ audited' = audited /\ known' = known
  BY DEF AnswerDuplicate, tables
<1>7. /\ seen' = seen
      /\ hook' \in {hook, "idle"} /\ calls' \in Nat /\ failures' \in Nat
  BY <1>1 DEF AnswerDuplicate, OutcomeTypeOK, bounds
<1> HIDE DEF told, then
<1> QED
  BY <1>1, <1>3, <1>4, <1>5, <1>6, <1>7, AnswerStep

LEMMA AppendConflictsStep ==
  ASSUME OutcomeInv, NEW w \in Worker, AppendConflicts(w)
  PROVE  OutcomeInv'
<1> DEFINE told == outcomeRows[EvidenceAt(w)]
           then == Resolve(told, caseRow, payRow, FactsAt(w).cycle, call[w].attempts)
<1>1. /\ OutcomeTypeOK /\ pc[w] = "appending" /\ told # Nothing
      /\ AnswersOnly(w, then, told)
  BY DEF OutcomeInv, AppendConflicts, Answers, AnswersOnly
<1>2. EvidenceAt(w) \in Evidence /\ FactsAt(w).cycle \in Nat
      /\ caseRow \in CaseRow /\ payRow \in PaymentStatus /\ call[w].attempts \in Nat
  BY <1>1, CallFields DEF Facts, OutcomeTypeOK
<1>3. told \in OutcomeType
  BY <1>1, <1>2 DEF OutcomeTypeOK
<1>4. ToldIsKept(home[w], EvidenceAt(w), told)
  BY DEF ToldIsKept
<1>5. then \in Disposition \cup {Raises}
  BY <1>2, <1>3, Resolved
<1>6. UNCHANGED tables /\ home' = home /\ audited' = audited /\ known' = known
  BY DEF AppendConflicts, tables
<1>7. /\ seen' = seen
      /\ hook' \in {hook, "idle"} /\ calls' \in Nat /\ failures' \in Nat
  BY <1>1 DEF AppendConflicts, OutcomeTypeOK, bounds
<1>8. pc[w] = "appending" /\ outcomeRows[EvidenceAt(w)] # Nothing
  BY <1>1
<1> HIDE DEF told, then
<1> QED
  BY <1>1, <1>3, <1>4, <1>5, <1>6, <1>7, <1>8, AnswerStep

LEMMA BreakDeadlockStep ==
  ASSUME OutcomeInv, NEW w \in Worker, BreakDeadlock(w)
  PROVE  OutcomeInv'
<1>1. OutcomeTypeOK /\ IsJudged(w) /\ pc[w] = "saved"
  BY DEF OutcomeInv, CallsAreSound, BreakDeadlock, Deadlocked
<1>2. UNCHANGED tables /\ home' = home /\ audited' = audited /\ known' = known
  BY DEF BreakDeadlock, tables
<1>3. /\ seen' = seen
      /\ hook' \in {hook, "idle"} /\ calls' \in Nat /\ failures' \in Nat
  BY <1>1 DEF BreakDeadlock, OutcomeTypeOK
<1>4. CASE Fails(w)
  BY <1>1, <1>2, <1>3, <1>4, FailStep
<1>5. CASE pc' = pc /\ call' = call /\ reply' = reply /\ undone' = undone
  <2>1. /\ pc' \in [Worker -> Position] /\ call' \in [Worker -> Call \cup {NoCall}]
        /\ \A x \in Worker \ {w} : pc'[x] = pc[x] /\ call'[x] = call[x]
        /\ pc'[w] = "saved" /\ call'[w] = call[w]
    BY <1>1, <1>5 DEF OutcomeTypeOK
  <2>2. SameCall(w)
    BY <1>1, <2>1, CallFields DEF SameCall
  <2>3. /\ undone' \in [Process -> SUBSET Evidence]
        /\ \A p \in Process : undone[p] \subseteq undone'[p]
    BY <1>1, <1>5 DEF OutcomeTypeOK
  <2>4. /\ IsJudged(w)' /\ InLock(w) /\ ~ HoldsPayment(w)'
        /\ \A e \in Evidence : HoldsOutcome(w, e)' => HoldsOutcome(w, e)
    BY <1>1, <2>1 DEF IsJudged, InLock, HoldsPayment, HoldsOutcome, EvidenceAt
  <2>5. IsAudited(w)'
    BY <1>1, <1>2, <2>1 DEF OutcomeInv, CallsAreSound, IsAudited, Writes
  <2> QED
    BY <1>1, <1>2, <1>3, <1>5, <2>1, <2>2, <2>3, <2>4, <2>5, MoveStep
<1> QED
  BY <1>4, <1>5 DEF BreakDeadlock

-----------------------------------------------------------------------------
LEMMA LoadStep ==
  ASSUME OutcomeInv, NEW w \in Worker, NEW e \in Evidence, Load(w, e)
  PROVE  OutcomeInv'
<1> DEFINE loaded ==
      [evidence |-> e, payment |-> payRow, case |-> caseRow, outcome |-> Nothing,
       then |-> Nothing, attempts |-> 0, to |-> caseRow, base |-> caseRow,
       pays |-> FALSE, writes |-> FALSE, audits |-> FALSE]
<1>1. /\ OutcomeTypeOK /\ pc[w] = "idle"
      /\ pc' = [pc EXCEPT ![w] = "loaded"] /\ call' = [call EXCEPT ![w] = loaded]
      /\ reply' = [reply EXCEPT ![w] = NoAnswer]
  BY DEF OutcomeInv, Load
<1>2. loaded \in Call
  BY <1>1 DEF OutcomeTypeOK, Call
<1>3. /\ ~ loaded.writes /\ ~ loaded.audits /\ loaded.payment = payRow
  OBVIOUS
<1> HIDE DEF loaded
<1>4. UNCHANGED tables /\ home' = home /\ audited' = audited /\ known' = known
  BY DEF Load, tables, memory
<1>5. /\ undone' \in [Process -> SUBSET Evidence]
      /\ \A p \in Process : undone[p] \subseteq undone'[p]
      /\ hook' \in {hook, "idle"} /\ calls' \in Nat /\ failures' \in Nat /\ seen' = seen
  BY <1>1 DEF Load, OutcomeTypeOK, memory
<1>6. /\ pc'[w] = "loaded" /\ call'[w] = loaded /\ reply'[w] = NoAnswer
      /\ \A x \in Worker \ {w} : pc'[x] = pc[x] /\ call'[x] = call[x] /\ reply'[x] = reply[x]
  BY <1>1 DEF OutcomeTypeOK
<1>7. OutcomeTypeOK'
  <2>1. pc' \in [Worker -> Position] /\ reply' \in [Worker -> Answer \cup {NoAnswer}]
    BY <1>1 DEF OutcomeTypeOK, Position
  <2>2. /\ call' \in [Worker -> Call \cup {NoCall}]
        /\ \A x \in Worker : pc'[x] # "idle" => call'[x] \in Call
    BY <1>1, <1>2, <1>6 DEF OutcomeTypeOK
  <2> QED
    BY <1>1, <1>4, <1>5, <2>1, <2>2 DEF OutcomeTypeOK, tables
<1>8. /\ IsJudged(w)' /\ IsPaid(w)' /\ IsRemembered(w)' /\ IsKept(w)' /\ IsAudited(w)'
      /\ ~ InLock(w)' /\ ~ HoldsPayment(w)' /\ ~ Writes(w)' /\ ~ Writes(w)
      /\ \A f \in Evidence : ~ HoldsOutcome(w, f)'
  BY <1>1, <1>3, <1>4, <1>6 DEF IsJudged, IsPaid, IsRemembered, IsKept, IsAudited, InLock,
     HoldsPayment, HoldsOutcome, Writes, tables
<1> QED
  BY <1>1, <1>4, <1>5, <1>6, <1>7, <1>8, QuietStep

-----------------------------------------------------------------------------
LEMMA ClassifyAndRememberStep ==
  ASSUME OutcomeInv, NEW w \in Worker, ClassifyAndRemember(w)
  PROVE  OutcomeInv'
<1> DEFINE e == EvidenceAt(w)
           p == home[w]
           f == FactsOf[e]
           case == call[w].case
           outcome == Classify(f, call[w].payment)
           then == Resolve(outcome, case, call[w].payment, f.cycle, executed)
           to == [status |-> Target[then], attempts |-> AttemptsAfter(case, f.cycle)]
           pays == Pays(outcome, call[w].payment)
           judged == [call[w] EXCEPT !.outcome = outcome, !.then = then,
                                     !.attempts = executed, !.to = to, !.pays = pays,
                                     !.writes = TRUE]
<1>1. OutcomeTypeOK /\ IsJudged(w) /\ IsPaid(w) /\ IsRemembered(w) /\ IsKept(w) /\ pc[w] = "reading"
  BY DEF OutcomeInv, CallsAreSound, ClassifyAndRemember, Judge
<1>2. /\ call[w] \in Call /\ e \in Evidence /\ p \in Process /\ case \in CaseRow
      /\ call[w].payment \in PaymentStatus /\ f \in Facts /\ f.cycle \in Nat
      /\ executed \in Nat
  BY <1>1, CallFields DEF FactsAt, Facts, OutcomeTypeOK
<1>3. UNCHANGED tables /\ home' = home /\ audited' = audited
  BY DEF ClassifyAndRemember, Judge, tables
<1>4. hook' \in {hook, "idle"} /\ calls' \in Nat /\ failures' \in Nat
  BY <1>1 DEF ClassifyAndRemember, Judge, OutcomeTypeOK, bounds
<1>5. CASE CannotFollow(outcome, then, case.status, call[w].payment)
  <2>1. Fails(w) /\ known' = known /\ seen' = seen
    BY <1>5 DEF ClassifyAndRemember, Judge
  <2> QED
    BY <1>1, <1>3, <1>4, <2>1, FailStep
<1>6. CASE ~ CannotFollow(outcome, then, case.status, call[w].payment)
  <2>1. /\ pc' = [pc EXCEPT ![w] = IF p \in audited /\ e \notin seen[p]
                                     THEN "recording" ELSE "appending"]
        /\ call' = [call EXCEPT
                 ![w].outcome = outcome, ![w].then = then, ![w].attempts = executed,
                 ![w].to = to, ![w].pays = pays, ![w].writes = TRUE]
        /\ known' = [known EXCEPT ![p][e] = outcome]
        /\ seen' = IF p \in audited THEN [seen EXCEPT ![p] = @ \cup {e}] ELSE seen
        /\ reply' = reply /\ undone' = undone /\ hook' = hook
    BY <1>6 DEF ClassifyAndRemember, Judge
  <2>2. /\ outcome \in OutcomeType
        /\ call[w].payment = "CAPTURED" => outcome = "RECOVERED"
    BY <1>2, Classified
  <2>3. /\ then \in Disposition /\ to \in CaseRow /\ pays \in BOOLEAN
        /\ then = "RE_EVALUATE" => executed < MaxAttempts
        /\ to.status \in Accounts[outcome]
    <3>1. then # Raises
      BY <1>6 DEF CannotFollow
    <3>2. case.status \notin TerminalCase
      BY <1>1 DEF IsJudged
    <3>3. /\ then \in Disposition /\ Target[then] \in CaseStatus
          /\ then = "RE_EVALUATE" => executed < MaxAttempts
          /\ Target[then] \in Accounts[outcome]
      BY <1>2, <2>2, <3>1, <3>2, Resolved
    <3>4. AttemptsAfter(case, f.cycle) \in Nat
      BY <1>2 DEF AttemptsAfter, CaseRow
    <3>5. pays \in BOOLEAN
      BY DEF Pays
    <3> QED
      BY <3>3, <3>4, <3>5 DEF CaseRow
  <2>4. "RECOVERED" \in {outcome, to.status} => pays \/ payRow = "CAPTURED"
    <3>1. Accounts[outcome] = {"RECOVERED"} \/ "RECOVERED" \notin Accounts[outcome]
      BY <2>2 DEF Accounts, OutcomeType
    <3>2. "RECOVERED" \in Accounts[outcome] => outcome = "RECOVERED"
      BY <2>2 DEF Accounts, OutcomeType
    <3>3. outcome = "RECOVERED" => pays \/ call[w].payment = "CAPTURED"
      BY DEF Pays
    <3> QED
      BY <1>1, <2>3, <3>2, <3>3 DEF IsPaid
  <2>5. to.status = "EVALUATING" => executed < MaxAttempts
    <3>1. then # "RE_EVALUATE" => Target[then] # "EVALUATING"
      BY <2>3 DEF Target, Disposition
    <3> QED
      BY <2>3, <3>1
  <2> HIDE DEF f, case, outcome, then, to, pays
  <2>6. /\ judged \in Call /\ judged.evidence = e /\ judged.payment = call[w].payment
        /\ judged.outcome = outcome /\ judged.then = then /\ judged.to = to
        /\ judged.pays = pays /\ judged.writes
    BY <1>2, <2>2, <2>3 DEF Call, EvidenceAt
  <2>7. /\ pc'[w] \in {"recording", "appending"}
        /\ pc'[w] = "recording" \/ p \notin audited \/ e \in seen[p]
        /\ call'[w] = judged
        /\ \A x \in Worker \ {w} : pc'[x] = pc[x] /\ call'[x] = call[x] /\ reply'[x] = reply[x]
    BY <1>1, <1>2, <2>1 DEF OutcomeTypeOK
  <2> HIDE DEF judged
  <2>8. /\ known'[p][e] = outcome
        /\ \A q \in Process, g \in Evidence :
             known'[q][g] = known[q][g] \/ (q = p /\ g = e)
    BY <1>1, <1>2, <2>1 DEF OutcomeTypeOK
  <2>8a. /\ seen' \in [Process -> SUBSET Evidence]
         /\ \A q \in Process, g \in Evidence :
              g \in seen'[q] => g \in seen[q] \/ (q = p /\ g = e)
    BY <1>1, <1>2, <2>1 DEF OutcomeTypeOK
  <2>9. OutcomeTypeOK'
    <3>1. pc' \in [Worker -> Position]
      BY <1>1, <2>1 DEF OutcomeTypeOK, Position
    <3>2. /\ call' \in [Worker -> Call \cup {NoCall}]
          /\ \A x \in Worker : pc'[x] # "idle" => call'[x] \in Call
      <4>1. call' = [call EXCEPT ![w] = judged]
        BY <1>1, <2>1 DEF OutcomeTypeOK, judged
      <4> QED
        BY <1>1, <2>6, <2>7, <4>1 DEF OutcomeTypeOK
    <3>3. known' \in [Process -> [Evidence -> OutcomeType \cup {Nothing}]]
      BY <1>1, <1>2, <2>1, <2>2 DEF OutcomeTypeOK
    <3> QED
      BY <1>1, <1>3, <1>4, <2>1, <2>8a, <3>1, <3>2, <3>3 DEF OutcomeTypeOK, tables
  <2>10. EvidenceAt(w)' = e /\ Writes(w)' /\ ~ Writes(w)
    BY <1>1, <2>6, <2>7 DEF EvidenceAt, Writes, IsJudged
  <2>11. /\ \A q \in Process, g \in Evidence, o \in OutcomeType :
              ToldIsKept(q, g, o) => ToldIsKept(q, g, o)'
         /\ \A x \in Worker \ {w} :
              IsJudged(x)' /\ IsPaid(x)' /\ IsRemembered(x)' /\ IsKept(x)' /\ IsAudited(x)'
    BY <1>1, <1>3, <2>1, <2>7, <2>8, <2>9, OthersStaySound DEF tables
  <2>12. known[p][e] = Nothing
    BY <1>1 DEF IsRemembered
  <2>13. IsJudged(w)' /\ IsRemembered(w)' /\ IsAudited(w)'
    <3>1. IsJudged(w)'
      BY <2>2, <2>3, <2>6, <2>7 DEF IsJudged
    <3>2. IsRemembered(w)'
      BY <1>3, <2>6, <2>7, <2>8, <2>10 DEF IsRemembered
    <3>3. e \notin seen[p]
      BY <1>2, <2>12 DEF OutcomeInv, SeenIsKnown
    <3>4. IsAudited(w)'
      BY <1>3, <2>7, <3>3 DEF IsAudited
    <3> QED
      BY <3>1, <3>2, <3>4
  <2>14. IsPaid(w)'
    BY <1>1, <1>3, <2>3, <2>4, <2>6, <2>7 DEF IsPaid, tables
  <2>15. IsKept(w)'
    <3>1. reply[w] # NoAnswer => reply[w].evidence \in Evidence /\ reply[w].outcome \in OutcomeType
      BY <1>1 DEF OutcomeTypeOK, Answer
    <3>2. reply[w] # NoAnswer => ToldIsKept(home[w], reply[w].evidence, reply[w].outcome)'
      BY <1>1, <1>2, <1>3, <2>1, <2>11, <3>1 DEF IsKept
    <3> QED
      BY <2>1, <2>7, <3>2 DEF IsKept
  <2>16. \A x \in Worker \ {w} :
           /\ InLock(x)' = InLock(x) /\ Writes(x)' = Writes(x) /\ EvidenceAt(x)' = EvidenceAt(x)
           /\ HoldsPayment(x)' = HoldsPayment(x)
           /\ \A g \in Evidence : HoldsOutcome(x, g)' = HoldsOutcome(x, g)
    BY <2>7 DEF InLock, Writes, EvidenceAt, HoldsPayment, HoldsOutcome
  <2>17. /\ InLock(w) /\ ~ HoldsPayment(w)'
         /\ \A g \in Evidence : HoldsOutcome(w, g)' => FALSE
    BY <1>1, <2>7 DEF InLock, HoldsPayment, HoldsOutcome
  <2>18. LocksAreExclusive'
    BY <1>3, <2>16, <2>17 DEF OutcomeInv, LocksAreExclusive
  <2>19. OutcomesAreExclusive' /\ HookHoldsPayment'
    BY <1>3, <2>1, <2>16, <2>17 DEF OutcomeInv, OutcomesAreExclusive, HookHoldsPayment, tables
  <2>20. SeenIsKnown'
    <3>1. outcome # Nothing
      BY <2>2 DEF OutcomeType, Nothing
    <3> QED
      BY <2>8, <2>8a, <3>1 DEF OutcomeInv, SeenIsKnown
  <2>21. MemoryIsAccounted'
    <3> SUFFICES ASSUME NEW q \in Process, NEW g \in Evidence,
                        known'[q][g] # Nothing, outcomeRows[g] = Nothing
                 PROVE  OpenIn(q, g)' \/ g \in undone[q]
      BY <1>3, <2>1 DEF MemoryIsAccounted, tables
    <3>1. CASE q = p /\ g = e
      BY <1>3, <2>7, <2>10, <3>1 DEF OpenIn, Writes
    <3>2. ASSUME NEW x \in Worker \ {w}, home[x] = q, Writes(x), EvidenceAt(x) = g
          PROVE  OpenIn(q, g)'
      BY <1>3, <2>16, <3>2 DEF OpenIn, Writes
    <3>3. CASE ~ (q = p /\ g = e)
      <4>1. OpenIn(q, g) \/ g \in undone[q]
        BY <2>8, <3>3 DEF OutcomeInv, MemoryIsAccounted
      <4> QED
        BY <2>10, <3>2, <4>1 DEF OpenIn, Writes
    <3> QED
      BY <3>1, <3>3
  <2>22. RecoveredIsPaid' /\ AuditMatchesOutcomes'
    BY <1>3 DEF OutcomeInv, RecoveredIsPaid, AuditMatchesOutcomes, tables
  <2>23. AttemptsAreCounted'
    <3>1. CASE to.status = "EVALUATING"
      BY <1>3, <2>5, <3>1 DEF AttemptsAreCounted, tables
    <3>2. CASE to.status # "EVALUATING"
      <4>1. LeadsOn' \subseteq LeadsOn
        BY <2>6, <2>7, <2>16, <3>2 DEF LeadsOn
      <4> QED
        BY <1>3, <4>1, FewerLeadOn DEF OutcomeInv, tables
    <3> QED
      BY <3>1, <3>2
  <2>24. CallsAreSound'
    BY <2>11, <2>13, <2>14, <2>15 DEF CallsAreSound
  <2> QED
    BY <2>9, <2>18, <2>19, <2>20, <2>21, <2>22, <2>23, <2>24 DEF OutcomeInv
<1> QED
  BY <1>5, <1>6

-----------------------------------------------------------------------------
\* What a worker that has ended its call is still held to: its answer.
LEMMA EndedIsSound ==
  ASSUME NEW w \in Worker, pc'[w] = "idle"
  PROVE  /\ IsJudged(w)' /\ IsPaid(w)' /\ IsRemembered(w)' /\ IsAudited(w)'
         /\ ~ InLock(w)' /\ ~ HoldsPayment(w)' /\ ~ Writes(w)'
         /\ \A e \in Evidence : ~ HoldsOutcome(w, e)'
BY DEF IsJudged, IsPaid, IsRemembered, IsAudited, InLock, HoldsPayment, HoldsOutcome, Writes

\* A worker commits what it has written.
LEMMA CommitStep ==
  ASSUME OutcomeInv, NEW w \in Worker, Commit(w)
  PROVE  OutcomeInv'
<1> DEFINE c == call[w]
           answer == [evidence |-> c.evidence, outcome |-> c.outcome, then |-> c.then]
<1>1. /\ OutcomeTypeOK /\ IsJudged(w) /\ IsPaid(w) /\ IsRemembered(w) /\ IsKept(w)
      /\ IsAudited(w) /\ pc[w] = "returned" /\ Ends(w, answer)
  BY DEF OutcomeInv, CallsAreSound, Commit
<1>2. /\ c \in Call /\ c.evidence \in Evidence /\ c.evidence = EvidenceAt(w)
      /\ home[w] \in Process /\ c.outcome \in OutcomeType /\ c.then \in Disposition
      /\ c.to \in CaseRow /\ c.base \in CaseRow /\ c.writes \in BOOLEAN
  BY <1>1, CallFields DEF IsJudged, EvidenceAt
<1>3. answer \in Answer
  BY <1>2 DEF Answer
<1>4. /\ executed' = executed /\ home' = home /\ audited' = audited /\ known' = known
      /\ seen' = seen /\ undone' = undone /\ hook' = hook
      /\ calls' = calls /\ failures' = failures
  BY DEF Commit, memory, bounds
<1>5. /\ pc' = [pc EXCEPT ![w] = "idle"] /\ call' = [call EXCEPT ![w] = NoCall]
      /\ reply' = [reply EXCEPT ![w] = answer]
  BY <1>1 DEF Ends
<1>6. PICK evidence \in Evidence, told \in OutcomeType :
        /\ evidence = c.evidence /\ told = c.outcome
        /\ answer.evidence = evidence /\ answer.outcome = told
  BY <1>2
<1> HIDE DEF answer
<1>7. /\ pc'[w] = "idle"
      /\ reply'[w].evidence = evidence /\ reply'[w].outcome = told
      /\ \A x \in Worker \ {w} : pc'[x] = pc[x] /\ call'[x] = call[x] /\ reply'[x] = reply[x]
  BY <1>1, <1>5, <1>6 DEF OutcomeTypeOK
<1>8. /\ pc' \in [Worker -> Position] /\ reply' \in [Worker -> Answer \cup {NoAnswer}]
      /\ call' \in [Worker -> Call \cup {NoCall}]
      /\ \A x \in Worker : pc'[x] # "idle" => call'[x] \in Call
  BY <1>1, <1>3, <1>5, <1>7 DEF OutcomeTypeOK, Position
<1>9. /\ IsJudged(w)' /\ IsPaid(w)' /\ IsRemembered(w)' /\ IsAudited(w)'
      /\ ~ InLock(w)' /\ ~ HoldsPayment(w)' /\ ~ Writes(w)'
      /\ \A e \in Evidence : ~ HoldsOutcome(w, e)'
  BY <1>7, EndedIsSound
<1>10. /\ \A p \in Process : undone[p] \subseteq undone'[p]
       /\ \A p \in Process, e \in Evidence : known'[p][e] = known[p][e]
       /\ seen' = seen /\ hook' \in {hook, "idle"}
  BY <1>4
<1>11. CASE ~ c.writes
  <2>1. UNCHANGED tables
    BY <1>4, <1>11 DEF Commit, tables
  <2>2. OutcomeTypeOK'
    BY <1>1, <1>4, <1>8, <2>1 DEF OutcomeTypeOK, tables
  <2>3. \A p \in Process, e \in Evidence, outcome \in OutcomeType :
          ToldIsKept(p, e, outcome) => ToldIsKept(p, e, outcome)'
    BY <1>4, <1>7, <1>10, <1>11, <2>1, <2>2, OthersStaySound DEF tables
  <2>4. IsKept(w)'
    <3>1. ToldIsKept(home[w], c.evidence, c.outcome)
      BY <1>1, <1>2, <1>11 DEF IsKept
    <3>2. ToldIsKept(home[w], evidence, told)'
      BY <1>2, <1>4, <1>6, <2>3, <3>1
    <3> QED
      BY <1>4, <1>7, <3>2 DEF IsKept
  <2>5. ~ Writes(w)
    BY <1>11 DEF Writes
  <2> QED
    BY <1>4, <1>7, <1>9, <1>10, <1>11, <2>1, <2>2, <2>4, <2>5, QuietStep
<1>12. CASE c.writes
  <2>1. /\ outcomeRows' = [outcomeRows EXCEPT ![c.evidence] = c.outcome]
        /\ auditRows' = IF c.audits THEN auditRows \cup {c.evidence} ELSE auditRows
        /\ caseRow' =
             [status |-> Written(c.to.status, c.base.status, caseRow.status),
              attempts |-> Written(c.to.attempts, c.base.attempts, caseRow.attempts)]
        /\ payRow' = IF c.pays THEN "CAPTURED" ELSE payRow
    BY <1>12 DEF Commit
  <2>2. /\ HoldsOutcome(w, c.evidence) /\ Writes(w)
        /\ c.pays => HoldsPayment(w)
    BY <1>1, <1>2, <1>12 DEF HoldsOutcome, Writes, HoldsPayment
  <2>3. /\ outcomeRows[c.evidence] = Nothing
        /\ \A x \in Worker \ {w} : ~ HoldsOutcome(x, c.evidence)
    BY <1>2, <2>2 DEF OutcomeInv, OutcomesAreExclusive
  <2>4. /\ outcomeRows'[c.evidence] = c.outcome
        /\ \A e \in Evidence \ {c.evidence} : outcomeRows'[e] = outcomeRows[e]
        /\ \A e \in Evidence : outcomeRows[e] # Nothing => outcomeRows'[e] = outcomeRows[e]
        /\ c.outcome # Nothing
    BY <1>1, <1>2, <2>1, <2>3 DEF OutcomeTypeOK, OutcomeType, Nothing
  <2>5. /\ caseRow' \in CaseRow
        /\ caseRow'.status \in {c.to.status, caseRow.status}
        /\ payRow' \in PaymentStatus
        /\ payRow = "CAPTURED" => payRow' = "CAPTURED"
    BY <1>1, <1>2, <2>1 DEF Written, CaseRow, OutcomeTypeOK, PaymentStatus
  <2>6. OutcomeTypeOK'
    <3>1. outcomeRows' \in [Evidence -> OutcomeType \cup {Nothing}] /\ auditRows' \subseteq Evidence
      BY <1>1, <1>2, <2>1 DEF OutcomeTypeOK
    <3> QED
      BY <1>1, <1>4, <1>8, <2>5, <3>1 DEF OutcomeTypeOK
  <2>7. /\ \A p \in Process, e \in Evidence, outcome \in OutcomeType :
              ToldIsKept(p, e, outcome) => ToldIsKept(p, e, outcome)'
        /\ \A x \in Worker \ {w} :
              IsJudged(x)' /\ IsPaid(x)' /\ IsRemembered(x)' /\ IsKept(x)' /\ IsAudited(x)'
    BY <1>2, <1>4, <1>7, <1>10, <2>4, <2>5, <2>6, OthersStaySound
  <2>8. IsKept(w)'
    BY <1>6, <1>7, <2>4 DEF IsKept, ToldIsKept
  <2>9. \A x \in Worker \ {w} :
          /\ InLock(x)' = InLock(x) /\ Writes(x)' = Writes(x) /\ EvidenceAt(x)' = EvidenceAt(x)
          /\ HoldsPayment(x)' = HoldsPayment(x)
          /\ \A e \in Evidence : HoldsOutcome(x, e)' = HoldsOutcome(x, e)
    BY <1>7 DEF InLock, Writes, EvidenceAt, HoldsPayment, HoldsOutcome
  <2>10. RecoveredIsPaid'
    <3>1. "RECOVERED" \in {c.outcome, c.to.status} => payRow' = "CAPTURED"
      BY <1>1, <1>12, <2>1, <2>5 DEF IsPaid
    <3>2. \A e \in Evidence : outcomeRows[e] = "RECOVERED" => payRow' = "CAPTURED"
      BY <2>5 DEF OutcomeInv, RecoveredIsPaid
    <3>3. caseRow.status = "RECOVERED" => payRow' = "CAPTURED"
      BY <2>5 DEF OutcomeInv, RecoveredIsPaid
    <3> QED
      BY <2>4, <2>5, <3>1, <3>2, <3>3 DEF RecoveredIsPaid
  <2>11. LocksAreExclusive'
    BY <1>4, <1>9, <2>9 DEF OutcomeInv, LocksAreExclusive
  <2>12. OutcomesAreExclusive'
    BY <1>9, <2>3, <2>4, <2>9 DEF OutcomeInv, OutcomesAreExclusive
  <2>13. HookHoldsPayment'
    BY <1>4, <1>9, <2>1, <2>2, <2>9 DEF OutcomeInv, HookHoldsPayment
  <2>14. SeenIsKnown'
    BY <1>4 DEF OutcomeInv, SeenIsKnown
  <2>15. MemoryIsAccounted'
    <3> SUFFICES ASSUME NEW p \in Process, NEW e \in Evidence,
                        known[p][e] # Nothing, outcomeRows'[e] = Nothing
                 PROVE  OpenIn(p, e)' \/ e \in undone[p]
      BY <1>4 DEF MemoryIsAccounted
    <3>1. e # c.evidence /\ outcomeRows[e] = Nothing
      BY <2>4
    <3>2. ASSUME NEW x \in Worker, home[x] = p, Writes(x), EvidenceAt(x) = e
          PROVE  OpenIn(p, e)'
      BY <1>2, <1>4, <2>9, <3>1, <3>2 DEF OpenIn, Writes
    <3> QED
      BY <3>1, <3>2 DEF OutcomeInv, MemoryIsAccounted, OpenIn, Writes
  <2>16. AuditMatchesOutcomes'
    <3>1. auditRows \subseteq auditRows' /\ auditRows' \subseteq auditRows \cup {c.evidence}
      BY <2>1
    <3>2. audited = Process => c.evidence \in auditRows'
      BY <1>1, <1>2, <2>1, <2>2 DEF IsAudited
    <3> QED
      BY <1>4, <2>4, <3>1, <3>2 DEF OutcomeInv, AuditMatchesOutcomes, OutcomeTypeOK
  <2>17. AttemptsAreCounted'
    <3>1. LeadsOn' = LeadsOn \ {w}
      BY <1>9, <2>9, <1>7 DEF LeadsOn
    <3>2. CASE c.to.status = "EVALUATING"
      <4>1. w \in LeadsOn
        BY <2>2, <3>2 DEF LeadsOn
      <4>2. /\ IsFiniteSet(LeadsOn) /\ Cardinality(LeadsOn) \in Nat
            /\ Cardinality(LeadsOn') = Cardinality(LeadsOn) - 1
        <5>1. IsFiniteSet(LeadsOn)
          BY LoopAssumption, FS_Subset DEF LeadsOn
        <5> QED
          BY <3>1, <4>1, <5>1, FS_RemoveElement, FS_CardinalityType
      <4>3. Cardinality(Worker) \in Nat /\ executed \in Nat /\ MaxAttempts \in Nat
        BY <1>1, LoopAssumption, BoundAssumption, FS_CardinalityType DEF OutcomeTypeOK
      <4>4. AttemptsAreCounted
        BY DEF OutcomeInv
      <4> QED
        BY <1>4, <4>2, <4>3, <4>4 DEF AttemptsAreCounted
    <3>3. CASE c.to.status # "EVALUATING"
      BY <1>1, <1>4, <2>5, <3>1, <3>3, FewerLeadOn DEF OutcomeInv
    <3> QED
      BY <3>2, <3>3
  <2> QED
    BY <1>9, <2>6, <2>7, <2>8, <2>10, <2>11, <2>12, <2>13, <2>14, <2>15, <2>16, <2>17
       DEF OutcomeInv, CallsAreSound
<1> QED
  BY <1>2, <1>11, <1>12

-----------------------------------------------------------------------------
LEMMA RestartStep ==
  ASSUME OutcomeInv, NEW p \in Process, Restart(p)
  PROVE  OutcomeInv'
<1>1. OutcomeTypeOK
  BY DEF OutcomeInv
<1>2. /\ UNCHANGED tables /\ home' = home /\ audited' = audited /\ hook' = hook
      /\ calls' = calls /\ failures' = failures + 1
      /\ known' = [known EXCEPT ![p] = [e \in Evidence |-> Nothing]]
      /\ seen' = [seen EXCEPT ![p] = {}]
  BY DEF Restart
<1>3. /\ payRow' = payRow /\ caseRow' = caseRow /\ outcomeRows' = outcomeRows
      /\ auditRows' = auditRows /\ executed' = executed
  BY <1>2 DEF tables
<1>4. /\ \A w \in Worker : home[w] = p => pc'[w] = "idle" /\ reply'[w] = NoAnswer
      /\ \A w \in Worker : home[w] # p =>
           pc'[w] = pc[w] /\ call'[w] = call[w] /\ reply'[w] = reply[w]
  BY DEF Restart
<1>5. /\ undone' \in [Process -> SUBSET Evidence]
      /\ \A q \in Process : undone[q] \subseteq undone'[q]
  <2>1. {EvidenceAt(w) : w \in {x \in {w \in Worker : home[w] = p} :
                                  pc[x] # "idle" /\ call[x].writes}} \subseteq Evidence
    BY <1>1, CallFields
  <2> QED
    BY <1>1, <2>1 DEF Restart, OutcomeTypeOK
<1>6. \A q \in Process, e \in Evidence :
        /\ q = p => known'[q][e] = Nothing /\ seen'[q] = {}
        /\ q # p => known'[q][e] = known[q][e] /\ seen'[q] = seen[q]
  BY <1>1, <1>2 DEF OutcomeTypeOK
<1>7. OutcomeTypeOK'
  <2>1. /\ pc' \in [Worker -> Position] /\ reply' \in [Worker -> Answer \cup {NoAnswer}]
        /\ call' \in [Worker -> Call \cup {NoCall}]
        /\ \A w \in Worker : pc'[w] # "idle" => call'[w] \in Call
    BY <1>1, <1>4 DEF Restart, OutcomeTypeOK, Position
  <2>2. /\ known' \in [Process -> [Evidence -> OutcomeType \cup {Nothing}]]
        /\ seen' \in [Process -> SUBSET Evidence]
    BY <1>1, <1>2 DEF OutcomeTypeOK
  <2> QED
    BY <1>1, <1>2, <1>3, <1>5, <2>1, <2>2 DEF OutcomeTypeOK
<1>8. ASSUME NEW w \in Worker, home[w] = p
      PROVE  /\ IsJudged(w)' /\ IsPaid(w)' /\ IsRemembered(w)' /\ IsKept(w)' /\ IsAudited(w)'
             /\ ~ InLock(w)' /\ ~ HoldsPayment(w)' /\ ~ Writes(w)'
             /\ \A e \in Evidence : ~ HoldsOutcome(w, e)'
  <2>1. pc'[w] = "idle" /\ reply'[w] = NoAnswer
    BY <1>4, <1>8
  <2>2. IsKept(w)'
    BY <2>1 DEF IsKept
  <2> QED
    BY <2>1, <2>2, EndedIsSound
<1>9. ASSUME NEW w \in Worker, home[w] # p
      PROVE  /\ InLock(w)' = InLock(w) /\ Writes(w)' = Writes(w)
             /\ EvidenceAt(w)' = EvidenceAt(w) /\ HoldsPayment(w)' = HoldsPayment(w)
             /\ \A e \in Evidence : HoldsOutcome(w, e)' = HoldsOutcome(w, e)
  BY <1>4, <1>9 DEF InLock, Writes, EvidenceAt, HoldsPayment, HoldsOutcome
<1>10. ASSUME NEW q \in Process \ {p}, NEW e \in Evidence, NEW told \in OutcomeType,
              ToldIsKept(q, e, told)
       PROVE  ToldIsKept(q, e, told)'
  <2>1. CASE outcomeRows[e] = told \/ e \in undone[q]
    BY <1>3, <1>5, <2>1 DEF ToldIsKept
  <2>2. ASSUME NEW w \in Worker, home[w] = q, pc[w] = "returned", call[w].writes,
               EvidenceAt(w) = e, call[w].outcome = told
        PROVE  ToldIsKept(q, e, told)'
    <3>1. pc'[w] = "returned" /\ call'[w] = call[w] /\ home'[w] = q
      BY <1>2, <1>4, <2>2
    <3> QED
      BY <2>2, <3>1 DEF ToldIsKept, EvidenceAt
  <2> QED
    BY <1>10, <2>1, <2>2 DEF ToldIsKept
<1>11. ASSUME NEW w \in Worker, home[w] # p
       PROVE  IsJudged(w)' /\ IsPaid(w)' /\ IsRemembered(w)' /\ IsKept(w)' /\ IsAudited(w)'
  <2>1. IsJudged(w) /\ IsPaid(w) /\ IsRemembered(w) /\ IsKept(w) /\ IsAudited(w)
    BY DEF OutcomeInv, CallsAreSound
  <2>2. pc'[w] = pc[w] /\ call'[w] = call[w] /\ reply'[w] = reply[w]
    BY <1>4, <1>11
  <2>3. /\ home[w] \in Process \ {p}
        /\ pc[w] # "idle" => EvidenceAt(w) \in Evidence
    BY <1>1, <1>11, CallFields DEF OutcomeTypeOK
  <2>4. IsJudged(w)' /\ IsAudited(w)'
    BY <1>2, <2>1, <2>2 DEF IsJudged, IsAudited, Writes
  <2>5. IsPaid(w)'
    BY <1>3, <2>1, <2>2 DEF IsPaid
  <2>6. IsRemembered(w)'
    BY <1>2, <1>6, <1>9, <1>11, <2>1, <2>2, <2>3 DEF IsRemembered, Writes
  <2>7. IsKept(w)'
    <3>1. reply[w] # NoAnswer => reply[w].evidence \in Evidence /\ reply[w].outcome \in OutcomeType
      BY <1>1 DEF OutcomeTypeOK, Answer
    <3>2. reply[w] # NoAnswer => ToldIsKept(home[w], reply[w].evidence, reply[w].outcome)'
      BY <1>2, <1>10, <2>1, <2>2, <2>3, <3>1 DEF IsKept
    <3>3. ASSUME pc[w] \in {"processed", "returned"}, ~ call[w].writes
          PROVE  ToldIsKept(home[w], EvidenceAt(w), call[w].outcome)'
      <4>1. call[w].outcome \in OutcomeType
        BY <2>1, <3>3 DEF IsJudged
      <4>2. ToldIsKept(home[w], EvidenceAt(w), call[w].outcome)
        BY <2>1, <3>3 DEF IsKept
      <4>3. EvidenceAt(w)' = EvidenceAt(w)
        BY <1>9, <1>11
      <4> QED
        BY <1>2, <1>10, <2>2, <2>3, <3>3, <4>1, <4>2, <4>3
    <3> QED
      BY <2>2, <3>2, <3>3 DEF IsKept
  <2> QED
    BY <2>4, <2>5, <2>6, <2>7
<1>12. CallsAreSound'
  BY <1>8, <1>11 DEF CallsAreSound
<1>13. RecoveredIsPaid' /\ AuditMatchesOutcomes'
  BY <1>2, <1>3 DEF OutcomeInv, RecoveredIsPaid, AuditMatchesOutcomes
<1>14. LocksAreExclusive' /\ OutcomesAreExclusive' /\ HookHoldsPayment'
  BY <1>2, <1>3, <1>8, <1>9
     DEF OutcomeInv, LocksAreExclusive, OutcomesAreExclusive, HookHoldsPayment
<1>15. SeenIsKnown'
  BY <1>6 DEF OutcomeInv, SeenIsKnown
<1>16. MemoryIsAccounted'
  <2> SUFFICES ASSUME NEW q \in Process, NEW e \in Evidence,
                      known'[q][e] # Nothing, outcomeRows[e] = Nothing
               PROVE  OpenIn(q, e)' \/ e \in undone'[q]
    BY <1>3 DEF MemoryIsAccounted
  <2>1. q # p /\ known[q][e] # Nothing
    BY <1>6
  <2>2. ASSUME NEW x \in Worker, home[x] = q, Writes(x), EvidenceAt(x) = e
        PROVE  OpenIn(q, e)'
    BY <1>2, <1>9, <2>1, <2>2 DEF OpenIn, Writes
  <2> QED
    BY <1>5, <2>1, <2>2 DEF OutcomeInv, MemoryIsAccounted, OpenIn, Writes
<1>17. AttemptsAreCounted'
  <2>1. LeadsOn' \subseteq LeadsOn
    BY <1>4, <1>8, <1>9 DEF LeadsOn
  <2> QED
    BY <1>1, <1>3, <2>1, FewerLeadOn DEF OutcomeInv
<1> QED
  BY <1>7, <1>12, <1>13, <1>14, <1>15, <1>16, <1>17 DEF OutcomeInv

-----------------------------------------------------------------------------
\* A step that is no worker's.
LEMMA WorldStep ==
  ASSUME OutcomeInv, OutcomeTypeOK', outcomeRows' = outcomeRows, auditRows' = auditRows,
         UNCHANGED memory, pc' = pc, call' = call, reply' = reply,
         payRow = "CAPTURED" => payRow' = "CAPTURED",
         caseRow'.status = "RECOVERED" => payRow' = "CAPTURED",
         HookHoldsPayment', AttemptsAreCounted'
  PROVE  OutcomeInv'
<1>1. /\ home' = home /\ audited' = audited /\ known' = known /\ seen' = seen
      /\ undone' = undone
  BY DEF memory
<1>2. CallsAreSound'
  BY <1>1 DEF OutcomeInv, CallsAreSound, IsJudged, IsPaid, IsRemembered, IsKept, IsAudited,
     ToldIsKept, Writes, EvidenceAt
<1>3. RecoveredIsPaid' /\ AuditMatchesOutcomes'
  BY <1>1 DEF OutcomeInv, RecoveredIsPaid, AuditMatchesOutcomes
<1>4. LocksAreExclusive' /\ OutcomesAreExclusive'
  BY <1>1 DEF OutcomeInv, LocksAreExclusive, OutcomesAreExclusive, InLock, HoldsOutcome, EvidenceAt
<1>5. SeenIsKnown' /\ MemoryIsAccounted'
  BY <1>1 DEF OutcomeInv, SeenIsKnown, MemoryIsAccounted, OpenIn, EvidenceAt
<1> QED
  BY <1>2, <1>3, <1>4, <1>5 DEF OutcomeInv

LEMMA HookLocksStep ==
  ASSUME OutcomeInv, HookLocks
  PROVE  OutcomeInv'
<1>1. /\ OutcomeTypeOK /\ hook' = "locked" /\ \A w \in Worker : ~ HoldsPayment(w)
      /\ payRow # "CAPTURED"
  BY DEF OutcomeInv, HookLocks, MayMovePayment, PaymentMoves
<1>2. /\ UNCHANGED tables /\ UNCHANGED memory /\ pc' = pc /\ call' = call /\ reply' = reply
      /\ calls' = calls /\ failures' = failures
  BY DEF HookLocks, bounds
<1>3. OutcomeTypeOK'
  BY <1>1, <1>2 DEF OutcomeTypeOK, tables, memory
<1>4. HookHoldsPayment'
  BY <1>1, <1>2 DEF HookHoldsPayment, HoldsPayment, tables
<1>5. AttemptsAreCounted'
  BY <1>1, <1>2, FewerLeadOn DEF OutcomeInv, LeadsOn, Writes, tables
<1> QED
  BY <1>2, <1>3, <1>4, <1>5, WorldStep DEF tables, OutcomeInv, RecoveredIsPaid

LEMMA HookCommitsStep ==
  ASSUME OutcomeInv, HookCommits
  PROVE  OutcomeInv'
<1>1. /\ OutcomeTypeOK /\ hook' = "idle" /\ payRow' = "CAPTURED"
      /\ caseRow' = [caseRow EXCEPT !.status =
           IF @ \in TerminalCase THEN @
           ELSE IF @ = "OBSERVING" THEN "RECOVERED" ELSE "STOPPED"]
  BY DEF OutcomeInv, HookCommits
<1>2. /\ outcomeRows' = outcomeRows /\ auditRows' = auditRows /\ executed' = executed
      /\ UNCHANGED memory /\ pc' = pc /\ call' = call /\ reply' = reply
      /\ calls' = calls /\ failures' = failures
  BY DEF HookCommits, bounds
<1>3. caseRow' \in CaseRow /\ caseRow'.status # "EVALUATING"
  BY <1>1 DEF OutcomeTypeOK, CaseRow, CaseStatus, TerminalCase
<1>4. OutcomeTypeOK'
  BY <1>1, <1>2, <1>3 DEF OutcomeTypeOK, memory, PaymentStatus
<1>5. HookHoldsPayment'
  BY <1>1 DEF HookHoldsPayment
<1>6. AttemptsAreCounted'
  BY <1>1, <1>2, <1>3, FewerLeadOn DEF OutcomeInv, LeadsOn, Writes
<1> QED
  BY <1>1, <1>2, <1>4, <1>5, <1>6, WorldStep

LEMMA NextAttemptStep ==
  ASSUME OutcomeInv, NextAttempt
  PROVE  OutcomeInv'
<1>1. /\ OutcomeTypeOK /\ executed' = executed + 1 /\ caseRow.status = "EVALUATING"
      /\ \E status \in {"EXECUTING", "OBSERVING"} :
           caseRow' = [caseRow EXCEPT !.status = status]
  BY DEF OutcomeInv, NextAttempt
<1>2. /\ payRow' = payRow /\ outcomeRows' = outcomeRows /\ auditRows' = auditRows
      /\ UNCHANGED memory /\ pc' = pc /\ call' = call /\ reply' = reply
      /\ hook' = hook /\ calls' = calls /\ failures' = failures
  BY DEF NextAttempt, bounds
<1>3. caseRow' \in CaseRow /\ caseRow'.status \in {"EXECUTING", "OBSERVING"}
  BY <1>1 DEF OutcomeTypeOK, CaseRow, CaseStatus, ActiveCase
<1>4. OutcomeTypeOK'
  BY <1>1, <1>2, <1>3 DEF OutcomeTypeOK, memory
<1>5. HookHoldsPayment'
  BY <1>2 DEF OutcomeInv, HookHoldsPayment, HoldsPayment
<1>6. AttemptsAreCounted'
  <2>1. LeadsOn' = LeadsOn
    BY <1>2 DEF LeadsOn, Writes
  <2>2. /\ Cardinality(LeadsOn) \in Nat /\ Cardinality(Worker) \in Nat
        /\ Cardinality(LeadsOn) <= Cardinality(Worker)
    BY LoopAssumption, FS_Subset, FS_CardinalityType DEF LeadsOn
  <2>3. executed \in Nat /\ MaxAttempts \in Nat
    BY <1>1, BoundAssumption DEF OutcomeTypeOK
  <2>4. AttemptsAreCounted
    BY DEF OutcomeInv
  <2> QED
    BY <1>1, <1>3, <2>1, <2>2, <2>3, <2>4 DEF AttemptsAreCounted
<1> QED
  BY <1>2, <1>3, <1>4, <1>5, <1>6, WorldStep

-----------------------------------------------------------------------------
LEMMA OutcomeStart == Init => OutcomeInv
<1> SUFFICES ASSUME Init PROVE OutcomeInv
  OBVIOUS
<1>1. \A w \in Worker : pc[w] = "idle" /\ reply[w] = NoAnswer
  BY DEF Init
<1>2. \A w \in Worker : ~ Writes(w) /\ ~ InLock(w) /\ \A e \in Evidence : ~ HoldsOutcome(w, e)
  BY <1>1 DEF Writes, InLock, HoldsOutcome
<1>3. OutcomeTypeOK
  <2>1. /\ payRow \in PaymentStatus /\ executed \in Nat
        /\ executed - 1 \in Nat /\ caseRow.status \in {"EXECUTING", "OBSERVING"}
        /\ caseRow \in [status : {"EXECUTING", "OBSERVING"}, attempts : {executed - 1}]
    BY BoundAssumption DEF Init, PaymentStatus
  <2>2. caseRow \in CaseRow
    BY <2>1 DEF CaseRow, CaseStatus, ActiveCase
  <2>3. /\ outcomeRows \in [Evidence -> OutcomeType \cup {Nothing}] /\ auditRows \subseteq Evidence
        /\ home \in [Worker -> Process] /\ audited \subseteq Process
        /\ known \in [Process -> [Evidence -> OutcomeType \cup {Nothing}]]
        /\ seen \in [Process -> SUBSET Evidence] /\ undone \in [Process -> SUBSET Evidence]
    BY DEF Init
  <2>4. /\ pc \in [Worker -> Position] /\ call \in [Worker -> Call \cup {NoCall}]
        /\ reply \in [Worker -> Answer \cup {NoAnswer}]
        /\ hook \in {"idle", "locked"} /\ calls \in Nat /\ failures \in Nat
    BY DEF Init, Position
  <2> QED
    BY <1>1, <2>1, <2>2, <2>3, <2>4 DEF OutcomeTypeOK
<1>4. CallsAreSound
  BY <1>1, <1>2 DEF CallsAreSound, IsJudged, IsPaid, IsRemembered, IsKept, IsAudited
<1>5. RecoveredIsPaid /\ AuditMatchesOutcomes
  BY DEF Init, RecoveredIsPaid, AuditMatchesOutcomes, Nothing
<1>6. LocksAreExclusive /\ OutcomesAreExclusive /\ HookHoldsPayment
  BY <1>2 DEF Init, LocksAreExclusive, OutcomesAreExclusive, HookHoldsPayment
<1>7. SeenIsKnown /\ MemoryIsAccounted
  BY DEF Init, SeenIsKnown, MemoryIsAccounted
<1>8. AttemptsAreCounted
  <2>1. LeadsOn = {}
    BY <1>2 DEF LeadsOn
  <2>2. Cardinality(LeadsOn) = 0 /\ Cardinality(Worker) \in Nat
    BY <2>1, LoopAssumption, FS_EmptySet, FS_CardinalityType
  <2>3. executed \in Nat /\ executed <= MaxAttempts /\ caseRow.status # "EVALUATING"
    BY BoundAssumption DEF Init
  <2> QED
    BY <2>2, <2>3, BoundAssumption DEF AttemptsAreCounted
<1> QED
  BY <1>3, <1>4, <1>5, <1>6, <1>7, <1>8 DEF OutcomeInv

LEMMA OutcomeStep == OutcomeInv /\ [Next]_vars => OutcomeInv'
<1> SUFFICES ASSUME OutcomeInv, [Next]_vars PROVE OutcomeInv'
  OBVIOUS
<1>1. ASSUME NEW w \in Worker, NEW e \in Evidence, Load(w, e) PROVE OutcomeInv'
  BY <1>1, LoadStep
<1>2. ASSUME NEW w \in Worker, Handle(w) PROVE OutcomeInv'
  BY <1>2, AnswerDuplicateStep, RefuseTerminalStep, AcceptStep, ClassifyAndRememberStep,
     RecordAuditStep, AppendStep, AppendConflictsStep, AppendBreaksReferenceStep,
     ReadCaseStep, SaveCaseStep, SavePaymentStep, ReturnStep, SaveNextActionStep, CommitStep
     DEF Handle
<1>3. ASSUME NEW w \in Worker, BreakDeadlock(w) \/ Abandon(w) PROVE OutcomeInv'
  BY <1>3, BreakDeadlockStep, AbandonStep
<1>4. ASSUME NEW p \in Process, Restart(p) PROVE OutcomeInv'
  BY <1>4, RestartStep
<1>5. CASE HookLocks \/ HookCommits \/ NextAttempt
  BY <1>5, HookLocksStep, HookCommitsStep, NextAttemptStep
<1>6. CASE UNCHANGED vars
  <2>1. /\ UNCHANGED memory /\ pc' = pc /\ call' = call /\ reply' = reply
        /\ payRow' = payRow /\ caseRow' = caseRow /\ outcomeRows' = outcomeRows
        /\ auditRows' = auditRows /\ executed' = executed /\ hook' = hook
        /\ calls' = calls /\ failures' = failures
    BY <1>6 DEF vars, memory
  <2>2. OutcomeTypeOK'
    BY <2>1 DEF OutcomeInv, OutcomeTypeOK, memory
  <2>3. HookHoldsPayment'
    BY <2>1 DEF OutcomeInv, HookHoldsPayment, HoldsPayment
  <2>4. AttemptsAreCounted'
    BY <2>1, FewerLeadOn DEF OutcomeInv, LeadsOn, Writes
  <2> QED
    BY <2>1, <2>2, <2>3, <2>4, WorldStep DEF OutcomeInv, RecoveredIsPaid
<1> QED
  BY <1>1, <1>2, <1>3, <1>4, <1>5, <1>6 DEF Next

-----------------------------------------------------------------------------
\* The inductive invariant of the recovery loop: what the lock of the case, the key of
\* the outcome and the row locks protect, and what each call is about to write
\* (recovery_loop/outcomes.py:199-396).
THEOREM OutcomeInvariant == Spec => []OutcomeInv
<1> QED
  BY OutcomeStart, OutcomeStep, PTL DEF Spec

\* The tables, the memories and the calls hold values of their types.
THEOREM OutcomeTypes == Spec => []OutcomeTypeOK
<1>1. OutcomeInv => OutcomeTypeOK
  BY DEF OutcomeInv
<1> QED
  BY <1>1, OutcomeInvariant, PTL

\* For any number of workers, processes and reports, a case or an outcome that is
\* RECOVERED has a payment that is CAPTURED (recovery_loop/outcomes.py:306-336).
THEOREM RecoveriesArePaid == Spec => []RecoveredIsPaid
<1>1. OutcomeInv => RecoveredIsPaid
  BY DEF OutcomeInv
<1> QED
  BY <1>1, OutcomeInvariant, PTL

\* An outcome that a caller was given is on record, or its transaction is open, or was
\* rolled back: the memory of a process is wrong for no other reason
\* (recovery_loop/outcomes.py:213-236, 383-396).
THEOREM AnswersAreOnRecordOrUndone == Spec => []AnswersAreKept
<1>1. OutcomeInv => AnswersAreKept
  BY DEF OutcomeInv, CallsAreSound, IsKept, ToldIsKept, AnswersAreKept, OpenIn
<1> QED
  BY <1>1, OutcomeInvariant, PTL

\* The audit trail and the outcomes agree, where every process keeps an audit: the
\* set of seen events never lets an outcome through without its event
\* (audit/service.py:88-92).
THEOREM AuditsMatch == Spec => []AuditMatchesOutcomes
<1>1. OutcomeInv => AuditMatchesOutcomes
  BY DEF OutcomeInv
<1> QED
  BY <1>1, OutcomeInvariant, PTL

\* For any number of workers, the attempts end at most one for each of them after the
\* limit (recovery_loop/guards.py:93-117).
THEOREM AttemptsEnd == Spec => []AttemptsBounded
<1>1. OutcomeInv => AttemptsBounded
  <2> SUFFICES ASSUME OutcomeInv PROVE AttemptsBounded
    OBVIOUS
  <2>1. /\ Cardinality(LeadsOn) \in Nat /\ Cardinality(Worker) \in Nat
    BY LoopAssumption, FS_Subset, FS_CardinalityType DEF LeadsOn
  <2>2. executed \in Nat /\ MaxAttempts \in Nat /\ AttemptsAreCounted
    BY BoundAssumption DEF OutcomeInv, OutcomeTypeOK
  <2> QED
    BY <2>1, <2>2 DEF AttemptsAreCounted, AttemptsBounded
<1> QED
  BY <1>1, OutcomeInvariant, PTL

\* The case is moved with an outcome that accounts for it, by a capture or by the next
\* attempt, and by no answer to a duplicate (recovery_loop/outcomes.py:213-236).
THEOREM CaseMovesAreAccounted == Spec => CaseMovesWithItsOutcome
<1> DEFINE Move ==
      caseRow'.status # caseRow.status =>
        \/ \E e \in Evidence : /\ outcomeRows[e] = Nothing /\ outcomeRows'[e] # Nothing
                               /\ caseRow'.status \in Accounts[outcomeRows'[e]]
        \/ payRow # "CAPTURED" /\ payRow' = "CAPTURED"
        \/ executed' > executed
<1>1. OutcomeInv /\ [Next]_vars => [Move]_vars
  <2> SUFFICES ASSUME OutcomeInv, Next PROVE Move
    OBVIOUS
  <2>1. CASE caseRow' = caseRow
    BY <2>1
  <2>2. ASSUME NEW w \in Worker, Commit(w), caseRow'.status # caseRow.status PROVE Move
    <3>1. /\ OutcomeTypeOK /\ IsPaid(w) /\ IsJudged(w) /\ pc[w] = "returned" /\ call[w].writes
          /\ outcomeRows' = [outcomeRows EXCEPT ![EvidenceAt(w)] = call[w].outcome]
          /\ caseRow'.status = call[w].to.status
      BY <2>2 DEF OutcomeInv, CallsAreSound, Commit, Written, EvidenceAt
    <3>2. /\ EvidenceAt(w) \in Evidence /\ outcomeRows'[EvidenceAt(w)] = call[w].outcome
          /\ call[w].outcome \in OutcomeType /\ call[w].outcome # Nothing
      BY <3>1, CallFields DEF OutcomeTypeOK, IsJudged, OutcomeType, Nothing
    <3>3. outcomeRows[EvidenceAt(w)] = Nothing
      BY <3>1, <3>2 DEF OutcomeInv, OutcomesAreExclusive, HoldsOutcome
    <3>4. caseRow'.status \in Accounts[outcomeRows'[EvidenceAt(w)]]
      BY <3>1, <3>2 DEF IsPaid
    <3> QED
      BY <3>2, <3>3, <3>4
  <2>3. CASE HookCommits
    BY <2>3 DEF HookCommits, OutcomeInv, HookHoldsPayment
  <2>4. CASE NextAttempt
    BY <2>4 DEF NextAttempt, OutcomeInv, OutcomeTypeOK
  <2>5. ASSUME NEW w \in Worker,
               \/ \E e \in Evidence : Load(w, e)
               \/ Handle(w) /\ ~ Commit(w)
               \/ BreakDeadlock(w) \/ Abandon(w)
        PROVE  caseRow' = caseRow
    <3>1. ASSUME NEW e \in Evidence, Load(w, e) PROVE caseRow' = caseRow
      BY <3>1 DEF Load, tables
    <3>2. CASE AnswerDuplicate(w) \/ RefuseTerminal(w) \/ Accept(w)
      <4>1. UNCHANGED tables
        BY <3>2, Zenon DEF AnswerDuplicate, RefuseTerminal, Accept
      <4> QED
        BY <4>1 DEF tables
    <3>3. CASE ClassifyAndRemember(w) \/ RecordAudit(w)
      BY <3>3 DEF ClassifyAndRemember, Judge, RecordAudit, tables
    <3>4. CASE Append(w) \/ AppendConflicts(w) \/ AppendBreaksReference(w)
      BY <3>4 DEF Append, AppendConflicts, AppendBreaksReference, tables
    <3>5. CASE ReadCase(w) \/ SaveCase(w) \/ SavePayment(w) \/ Return(w) \/ SaveNextAction(w)
      BY <3>5 DEF ReadCase, SaveCase, SavePayment, Return, SaveNextAction, tables
    <3>6. CASE BreakDeadlock(w) \/ Abandon(w)
      BY <3>6 DEF BreakDeadlock, Abandon, tables
    <3> QED
      BY <2>5, <3>1, <3>2, <3>3, <3>4, <3>5, <3>6 DEF Handle
  <2>6. CASE HookLocks \/ \E p \in Process : Restart(p)
    BY <2>6 DEF HookLocks, Restart, tables
  <2> QED
    BY <2>1, <2>2, <2>3, <2>4, <2>5, <2>6 DEF Next
<1> QED
  BY <1>1, OutcomeInvariant, PTL DEF Spec, CaseMovesWithItsOutcome
=============================================================================
