-------------------------- MODULE CaseTrailProofs --------------------------
(***************************************************************************)
(* Theorems about the audit trails of recovery cases, for any sets of      *)
(* payments, events, deliveries, bodies and workers: what a trail tells    *)
(* while webhooks and workers write a case, also over each other's writes. *)
(***************************************************************************)
EXTENDS CaseTransitions, EventPipelineProofs

-----------------------------------------------------------------------------
(***************************************************************************)
(* The inductive invariant.                                                *)
(***************************************************************************)
\* A handler that has begun carries an event, and a case it has found exists.
HandlersAreSound ==
  \A d \in Delivery :
    /\ pc[d] # "idle" => eventOf[d] \in Event
    /\ work[d].case # NoCase => caseStatus[work[d].case] # NoCase

Occurs(c, status) == \E k \in DOMAIN audit[c] : audit[c][k].to = status

\* The status of a case is on its trail.  It need not be where the trail ends: a
\* worker that found its move made already adds to the trail and writes no status.
StatusIsOnTrail ==
  \A c \in Delivery :
    IF caseStatus[c] = NoCase THEN audit[c] = <<>> ELSE Occurs(c, caseStatus[c])

\* What must have been reached before these statuses.
Before == [EXECUTING |-> "ACTION_APPROVED", ACTION_APPROVED |-> "POLICY_CHECK",
           RECOVERED |-> "OBSERVING"]
TrailsAreLegal ==
  \A c \in Delivery : \A i \in DOMAIN audit[c] :
    audit[c][i].to \in DOMAIN Before => Reached(c, i, Before[audit[c][i].to])

\* What a worker has read may be out of date, but it was there, and the move it
\* has in mind is one of the table's from there.
JobsReadTheTrail ==
  \A w \in Worker : job[w] # NoJob =>
    /\ Occurs(job[w].case, job[w].from)
    /\ job[w].to \in CaseMoves[job[w].from]

TrailInv ==
  /\ WorkersTypeOK
  /\ HandlersAreSound
  /\ StatusIsOnTrail
  /\ TrailsAreLegal
  /\ JobsReadTheTrail

-----------------------------------------------------------------------------
(***************************************************************************)
(* Writing a case.                                                         *)
(***************************************************************************)
\* The moves that lead to a status with something before it come from there.
LEMMA MovesRespectOrder ==
  ASSUME NEW from \in CaseStatus, NEW to \in CaseMoves[from], to \in DOMAIN Before
  PROVE  from = Before[to]
  BY DEF CaseMoves, CaseStatus, ActiveCase, TerminalCase, Progress, Before

\* A row is added to the trail of a case, and its status is set, or stays.
Records(c, from, to) ==
  /\ audit' = [audit EXCEPT ![c] = Append(@, [from |-> from, to |-> to])]
  /\ \/ caseStatus' = [caseStatus EXCEPT ![c] = to]
     \/ caseStatus[c] # NoCase /\ UNCHANGED caseStatus

LEMMA WriteRecords ==
  ASSUME NEW c, NEW from, NEW to, WriteCase(c, from, to)
  PROVE  Records(c, from, to)
  BY DEF WriteCase, Records

LEMMA RecordsType ==
  ASSUME TypeOK, NEW c \in Delivery, NEW from \in CaseStatus \cup {NoCase},
         NEW to \in CaseStatus, Records(c, from, to)
  PROVE  /\ caseStatus' \in [Delivery -> CaseStatus \cup {NoCase}]
         /\ audit' \in [Delivery -> Seq(AuditRow)]
<1>1. [from |-> from, to |-> to] \in AuditRow
  BY DEF AuditRow
<1>2. Append(audit[c], [from |-> from, to |-> to]) \in Seq(AuditRow)
  BY <1>1 DEF TypeOK
<1> QED
  BY <1>2 DEF TypeOK, Records

\* A row that is added to a trail changes nothing that comes before it.
LEMMA RecordsTrail ==
  ASSUME TypeOK, NEW c \in Delivery, NEW from \in CaseStatus \cup {NoCase},
         NEW to \in CaseStatus, Records(c, from, to)
  PROVE  /\ audit'[c] = Append(audit[c], [from |-> from, to |-> to])
         /\ Len(audit'[c]) = Len(audit[c]) + 1
         /\ audit'[c][Len(audit'[c])] = [from |-> from, to |-> to]
         /\ \A i \in DOMAIN audit[c] : i \in DOMAIN audit'[c] /\ audit'[c][i] = audit[c][i]
         /\ \A i \in DOMAIN audit'[c] : i \in DOMAIN audit[c] \/ i = Len(audit[c]) + 1
         /\ \/ caseStatus'[c] = to
            \/ caseStatus[c] # NoCase /\ caseStatus'[c] = caseStatus[c]
         /\ \A x \in Delivery \ {c} : audit'[x] = audit[x] /\ caseStatus'[x] = caseStatus[x]
<1>1. audit[c] \in Seq(AuditRow) /\ [from |-> from, to |-> to] \in AuditRow
  BY DEF TypeOK, AuditRow
<1>2. /\ audit'[c] = Append(audit[c], [from |-> from, to |-> to])
      /\ \A x \in Delivery \ {c} : audit'[x] = audit[x] /\ caseStatus'[x] = caseStatus[x]
  BY DEF TypeOK, Records
<1>3. \/ caseStatus'[c] = to
      \/ caseStatus[c] # NoCase /\ caseStatus'[c] = caseStatus[c]
  BY DEF TypeOK, Records
<1> QED
  BY <1>1, <1>2, <1>3

\* A case is written with a status for which the trail has what must come before.
LEMMA RecordsKeepTrails ==
  ASSUME TypeOK, StatusIsOnTrail, TrailsAreLegal,
         NEW c \in Delivery, NEW from \in CaseStatus \cup {NoCase},
         NEW to \in CaseStatus, Records(c, from, to),
         to \in DOMAIN Before => Occurs(c, Before[to])
  PROVE  /\ StatusIsOnTrail'
         /\ TrailsAreLegal'
         /\ \A x \in Delivery, s \in CaseStatus : Occurs(x, s) => Occurs(x, s)'
         /\ \A x \in Delivery : caseStatus[x] # NoCase => caseStatus'[x] # NoCase
<1>1. /\ Len(audit'[c]) = Len(audit[c]) + 1
      /\ audit'[c][Len(audit'[c])] = [from |-> from, to |-> to]
      /\ \A i \in DOMAIN audit[c] : i \in DOMAIN audit'[c] /\ audit'[c][i] = audit[c][i]
      /\ \A i \in DOMAIN audit'[c] : i \in DOMAIN audit[c] \/ i = Len(audit[c]) + 1
      /\ \/ caseStatus'[c] = to
         \/ caseStatus[c] # NoCase /\ caseStatus'[c] = caseStatus[c]
      /\ \A x \in Delivery \ {c} : audit'[x] = audit[x] /\ caseStatus'[x] = caseStatus[x]
  BY RecordsTrail
<1>2. audit[c] \in Seq(AuditRow) /\ audit' \in [Delivery -> Seq(AuditRow)]
  BY RecordsType DEF TypeOK
<1>3. /\ caseStatus'[c] # NoCase
      /\ \E k \in DOMAIN audit'[c] : audit'[c][k].to = caseStatus'[c]
  <2>1. Len(audit'[c]) \in DOMAIN audit'[c]
    BY <1>1, <1>2
  <2>2. CASE caseStatus'[c] = to
    BY <1>1, <2>1, <2>2, StatusNotAbsent DEF Occurs
  <2>3. CASE caseStatus[c] # NoCase /\ caseStatus'[c] = caseStatus[c]
    BY <1>1, <2>3 DEF StatusIsOnTrail, Occurs
  <2> QED
    BY <1>1, <2>2, <2>3
<1>4. StatusIsOnTrail'
  BY <1>1, <1>3 DEF StatusIsOnTrail, Occurs
<1>5. TrailsAreLegal'
  <2>1. ASSUME NEW i \in DOMAIN audit[c], audit[c][i].to \in DOMAIN Before
        PROVE  \E j \in 1 .. i - 1 : audit'[c][j].to = Before[audit[c][i].to]
    <3>1. PICK j \in 1 .. i - 1 : audit[c][j].to = Before[audit[c][i].to]
      BY <2>1 DEF TrailsAreLegal, Reached
    <3>2. j \in DOMAIN audit[c]
      BY <1>2, <3>1
    <3> QED
      BY <1>1, <3>1, <3>2
  <2>2. ASSUME to \in DOMAIN Before
        PROVE  \E j \in 1 .. (Len(audit[c]) + 1) - 1 : audit'[c][j].to = Before[to]
    <3>1. PICK k \in DOMAIN audit[c] : audit[c][k].to = Before[to]
      BY <2>2 DEF Occurs
    <3>2. k \in 1 .. (Len(audit[c]) + 1) - 1
      BY <1>2, <3>1
    <3> QED
      BY <1>1, <3>1, <3>2
  <2>3. ASSUME NEW i \in DOMAIN audit'[c], audit'[c][i].to \in DOMAIN Before
        PROVE  \E j \in 1 .. i - 1 : audit'[c][j].to = Before[audit'[c][i].to]
    <3>1. CASE i \in DOMAIN audit[c]
      BY <1>1, <2>1, <2>3, <3>1
    <3>2. CASE i = Len(audit[c]) + 1
      <4>1. audit'[c][i].to = to
        BY <1>1, <3>2
      <4> QED
        BY <2>2, <2>3, <3>2, <4>1
    <3> QED
      BY <1>1, <2>3, <3>1, <3>2
  <2>4. ASSUME NEW x \in Delivery \ {c}, NEW i \in DOMAIN audit'[x],
               audit'[x][i].to \in DOMAIN Before
        PROVE  \E j \in 1 .. i - 1 : audit'[x][j].to = Before[audit'[x][i].to]
    BY <1>1, <2>4 DEF TrailsAreLegal, Reached
  <2>5. ASSUME NEW x \in Delivery, NEW i \in DOMAIN audit'[x],
               audit'[x][i].to \in DOMAIN Before
        PROVE  \E j \in 1 .. i - 1 : audit'[x][j].to = Before[audit'[x][i].to]
    BY <2>3, <2>4, <2>5
  <2> QED
    BY <2>5 DEF TrailsAreLegal, Reached
<1>6. \A x \in Delivery, s \in CaseStatus : Occurs(x, s) => Occurs(x, s)'
  BY <1>1 DEF Occurs
<1>7. \A x \in Delivery : caseStatus[x] # NoCase => caseStatus'[x] # NoCase
  BY <1>1, <1>3
<1> QED
  BY <1>4, <1>5, <1>6, <1>7

LEMMA StatusOccurs ==
  ASSUME TypeOK, StatusIsOnTrail, NEW c \in Delivery, caseStatus[c] # NoCase
  PROVE  /\ caseStatus[c] \in CaseStatus
         /\ Occurs(c, caseStatus[c])
  BY DEF TypeOK, StatusIsOnTrail

-----------------------------------------------------------------------------
(***************************************************************************)
(* What a step does to the trails: nothing, or one write.                  *)
(***************************************************************************)
TrailsGrow ==
  /\ caseStatus' \in [Delivery -> CaseStatus \cup {NoCase}]
  /\ audit' \in [Delivery -> Seq(AuditRow)]
  /\ StatusIsOnTrail'
  /\ TrailsAreLegal'
  /\ \A c \in Delivery, s \in CaseStatus : Occurs(c, s) => Occurs(c, s)'
  /\ \A c \in Delivery : caseStatus[c] # NoCase => caseStatus'[c] # NoCase

LEMMA QuietTrails ==
  ASSUME TypeOK, StatusIsOnTrail, TrailsAreLegal, UNCHANGED <<caseStatus, audit>>
  PROVE  TrailsGrow
  BY DEF TypeOK, TrailsGrow, StatusIsOnTrail, TrailsAreLegal, Reached, Occurs

LEMMA RecordsGrowTrails ==
  ASSUME TypeOK, StatusIsOnTrail, TrailsAreLegal,
         NEW c \in Delivery, NEW from \in CaseStatus \cup {NoCase},
         NEW to \in CaseStatus, Records(c, from, to),
         to \in DOMAIN Before => Occurs(c, Before[to])
  PROVE  TrailsGrow
  BY RecordsType, RecordsKeepTrails DEF TrailsGrow

\* The three branches of handle_payment_event.
LEMMA CommitGrowsTrails ==
  ASSUME TypeOK, HandlersAreSound, StatusIsOnTrail, TrailsAreLegal,
         NEW d \in Delivery, CloseCase(d) \/ OpenCase(d) \/ KeepCase(d)
  PROVE  TrailsGrow
<1> DEFINE c == work[d].case
<1>1. c \in Delivery \cup {NoCase}
  BY DEF TypeOK, Work
<1>2. c # NoCase => /\ c \in Delivery
                    /\ caseStatus[c] \in CaseStatus
                    /\ Occurs(c, caseStatus[c])
  BY <1>1, StatusOccurs DEF HandlersAreSound
<1>3. CASE UNCHANGED <<caseStatus, audit>>
  BY <1>3, QuietTrails
<1>4. CASE CloseCase(d) /\ c # NoCase
  <2> DEFINE to == IF caseStatus[c] = "OBSERVING" THEN "RECOVERED" ELSE "STOPPED"
  <2>1. WriteCase(c, caseStatus[c], to)
    BY <1>4 DEF CloseCase
  <2>2. to \in CaseStatus /\ (to \in DOMAIN Before => Occurs(c, Before[to]))
    BY <1>2, <1>4 DEF Before, CaseStatus, ActiveCase, TerminalCase
  <2> HIDE DEF to
  <2> QED
    BY <1>2, <1>4, <2>1, <2>2, WriteRecords, RecordsGrowTrails
<1>5. CASE OpenCase(d) /\ c = NoCase
  <2>1. WriteCase(d, NoCase, "NEW") /\ "NEW" \in CaseStatus /\ "NEW" \notin DOMAIN Before
    BY <1>5 DEF OpenCase, CaseStatus, ActiveCase, Before
  <2> QED
    BY <2>1, WriteRecords, RecordsGrowTrails
<1>6. CASE OpenCase(d) /\ c # NoCase
  <2>1. WriteCase(c, caseStatus[c], caseStatus[c])
    BY <1>6 DEF OpenCase
  <2>2. ASSUME caseStatus[c] \in DOMAIN Before
        PROVE  Occurs(c, Before[caseStatus[c]])
    <3>1. PICK i \in DOMAIN audit[c] : audit[c][i].to = caseStatus[c]
      BY <1>2, <1>6 DEF Occurs
    <3>2. 1 .. i - 1 \subseteq DOMAIN audit[c]
      BY <1>2, <1>6, <3>1 DEF TypeOK
    <3> QED
      BY <1>2, <1>6, <2>2, <3>1, <3>2 DEF TrailsAreLegal, Reached, Occurs
  <2> QED
    BY <1>2, <1>6, <2>1, <2>2, WriteRecords, RecordsGrowTrails
<1> QED
  BY <1>3, <1>4, <1>5, <1>6 DEF CloseCase, OpenCase, KeepCase

-----------------------------------------------------------------------------
(***************************************************************************)
(* A step of the intake.                                                   *)
(***************************************************************************)
IntakeIsSound == TypeOK /\ HandlersAreSound /\ StatusIsOnTrail /\ TrailsAreLegal
IntakeStaysSound == TypeOK' /\ HandlersAreSound' /\ TrailsGrow

\* A handler that ends, having written nothing.
LEMMA EndStaysSound ==
  ASSUME IntakeIsSound, NEW d \in Delivery,
         NEW position \in {"replied", "failed"}, NEW answer \in Reply,
         EndsAt(d, position, answer), pc[d] # "idle",
         UNCHANGED <<payload, payStatus, paymentEvents, caseStatus, audit, eventOf>>,
         rawEvents' \subseteq Delivery, crashes' \in 0 .. MaxCrashes
  PROVE  IntakeStaysSound
<1>1. TypeOK'
  BY EndsAtType DEF IntakeIsSound, TypeOK, Position
<1>2. HandlersAreSound'
  BY DEF IntakeIsSound, TypeOK, HandlersAreSound, EndsAt, NoWork
<1> QED
  BY <1>1, <1>2, QuietTrails DEF IntakeIsSound, IntakeStaysSound

\* A handler that goes on, or begins, having written and read nothing.
LEMMA MoveStaysSound ==
  ASSUME IntakeIsSound, NEW d \in Delivery, NEW position \in Position,
         pc' = [pc EXCEPT ![d] = position],
         UNCHANGED <<database, work, reply, crashes>>,
         \/ UNCHANGED eventOf /\ pc[d] # "idle"
         \/ \E e \in Event : eventOf' = [eventOf EXCEPT ![d] = e]
  PROVE  IntakeStaysSound
<1>1. TypeOK'
  BY DEF IntakeIsSound, TypeOK, database
<1>2. HandlersAreSound'
  BY DEF IntakeIsSound, TypeOK, HandlersAreSound, database
<1> QED
  BY <1>1, <1>2, QuietTrails DEF IntakeIsSound, IntakeStaysSound, database

LEMMA LockStaysSound ==
  ASSUME IntakeIsSound, NEW d \in Delivery, LockPayment(d)
  PROVE  IntakeStaysSound
<1> DEFINE read == [status |-> payStatus[PaymentOf(d)],
                    late   |-> \E x \in History(PaymentOf(d)) : Body(d).time < Body(x).time,
                    case   |-> NoCase]
<1>1. PaymentOf(d) \in Payment
  BY BodyType DEF IntakeIsSound, HandlersAreSound, LockPayment
<1>2. read \in Work /\ read.case = NoCase
  BY <1>1 DEF IntakeIsSound, TypeOK, Work
<1>3. /\ work' = [work EXCEPT ![d] = read]
      /\ pc' = [pc EXCEPT ![d] = "locked"] /\ pc[d] # "idle"
      /\ UNCHANGED <<database, eventOf, reply, crashes>>
  BY DEF LockPayment
<1> HIDE DEF read
<1>4. TypeOK'
  BY <1>2, <1>3 DEF IntakeIsSound, TypeOK, Position, database
<1>5. HandlersAreSound'
  BY <1>2, <1>3 DEF IntakeIsSound, TypeOK, HandlersAreSound, database
<1> QED
  BY <1>3, <1>4, <1>5, QuietTrails DEF IntakeIsSound, IntakeStaysSound, database

LEMMA FindStaysSound ==
  ASSUME IntakeIsSound, NEW d \in Delivery, FindActiveCase(d)
  PROVE  IntakeStaysSound
<1> DEFINE active == ActiveCases(PaymentOf(d))
           found == IF active = {} THEN NoCase ELSE CHOOSE c \in active : TRUE
<1>1. found \in Delivery \cup {NoCase} /\ (found # NoCase => caseStatus[found] # NoCase)
  <2>1. \A c \in active : c \in Delivery /\ caseStatus[c] # NoCase
    BY StatusNotAbsent DEF ActiveCases
  <2> HIDE DEF active
  <2> QED
    BY <2>1
<1>2. /\ work' = [work EXCEPT ![d].case = found]
      /\ pc' = [pc EXCEPT ![d] = "found"] /\ pc[d] # "idle"
      /\ UNCHANGED <<database, eventOf, reply, crashes>>
  BY DEF FindActiveCase
<1> HIDE DEF found
<1>3. TypeOK'
  BY <1>1, <1>2 DEF IntakeIsSound, TypeOK, Work, Position, database
<1>4. HandlersAreSound'
  BY <1>1, <1>2 DEF IntakeIsSound, TypeOK, Work, HandlersAreSound, database
<1> QED
  BY <1>2, <1>3, <1>4, QuietTrails DEF IntakeIsSound, IntakeStaysSound, database

LEMMA CommitStaysSound ==
  ASSUME IntakeIsSound, NEW d \in Delivery, Commit(d)
  PROVE  IntakeStaysSound
<1>1. TrailsGrow
  BY CommitGrowsTrails DEF IntakeIsSound, Commit
<1>2. PaymentOf(d) \in Payment /\ Target(d) \in PaymentStatus
  BY BodyType DEF IntakeIsSound, HandlersAreSound, Commit
<1>3. PICK answer \in Reply : EndsAt(d, "replied", answer)
  BY DEF Commit, Reply
<1>4. /\ pc' \in [Delivery -> Position]
      /\ reply' \in [Delivery -> Reply]
      /\ work' \in [Delivery -> Work]
  BY <1>3, EndsAtType DEF IntakeIsSound, Position
<1>5. payStatus' \in [Payment -> PaymentStatus \cup {Absent}]
  BY <1>2 DEF IntakeIsSound, TypeOK, Commit
<1>6. TypeOK'
  BY <1>1, <1>4, <1>5 DEF IntakeIsSound, TypeOK, Commit, TrailsGrow
<1>7. HandlersAreSound'
  <2>1. \A x \in Delivery : work'[x].case # NoCase => work'[x] = work[x]
    BY <1>3 DEF IntakeIsSound, TypeOK, EndsAt, NoWork
  <2>2. \A x \in Delivery : work[x].case \in Delivery \cup {NoCase}
    BY DEF IntakeIsSound, TypeOK, Work
  <2>3. \A x \in Delivery : pc'[x] # "idle" => eventOf'[x] \in Event
    BY <1>3 DEF IntakeIsSound, TypeOK, HandlersAreSound, Commit, EndsAt
  <2> QED
    BY <1>1, <2>1, <2>2, <2>3 DEF IntakeIsSound, HandlersAreSound, TrailsGrow
<1> QED
  BY <1>1, <1>6, <1>7 DEF IntakeStaysSound

LEMMA IntakeStepStaysSound ==
  ASSUME IntakeIsSound, Next
  PROVE  IntakeStaysSound
<1>0. /\ TypeOK /\ rawEvents \subseteq Delivery /\ crashes \in 0 .. MaxCrashes
      /\ MaxCrashes \in Nat
  BY CrashAssumption DEF IntakeIsSound, TypeOK
<1>1. ASSUME NEW d \in Delivery, NEW e \in Event, Deliver(d, e)
      PROVE  IntakeStaysSound
  BY <1>1, MoveStaysSound DEF Deliver, FirstPosition, Position
<1>2. ASSUME NEW d \in Delivery, Retry(d)
      PROVE  IntakeStaysSound
  BY <1>2, MoveStaysSound DEF Retry, FirstPosition, Position
<1>3. ASSUME NEW d \in Delivery, FindRaw(d) \/ InsertRaw(d)
      PROVE  IntakeStaysSound
  <2>1. UNCHANGED <<database, eventOf, crashes>> /\ pc[d] # "idle"
    BY <1>3 DEF FindRaw, InsertRaw
  <2>2. CASE EndsAt(d, "replied", "DUPLICATE")
    BY <1>0, <2>1, <2>2, EndStaysSound DEF database, Reply
  <2>3. CASE /\ UNCHANGED <<work, reply>>
             /\ \E position \in {"inserting", "inserted"} : pc' = [pc EXCEPT ![d] = position]
    BY <2>1, <2>3, MoveStaysSound DEF Position
  <2> QED
    BY <1>3, <2>2, <2>3 DEF FindRaw, InsertRaw
<1>4. ASSUME NEW d \in Delivery, IgnoreUnsupported(d) \/ LeaveUnresolved(d)
      PROVE  IntakeStaysSound
  <2>1. PICK answer \in Reply : CommitRawOnly(d, answer)
    BY <1>4 DEF IgnoreUnsupported, LeaveUnresolved, Reply
  <2>2. pc[d] # "idle"
    BY <1>4 DEF IgnoreUnsupported, LeaveUnresolved
  <2> QED
    BY <1>0, <2>1, <2>2, EndStaysSound DEF CommitRawOnly
<1>5. ASSUME NEW d \in Delivery, RejectEntity(d) \/ RejectTimestamp(d) \/ Crash(d)
      PROVE  IntakeStaysSound
  <2>1. /\ RollBack(d) /\ pc[d] # "idle"
        /\ crashes' = crashes \/ (crashes < MaxCrashes /\ crashes' = crashes + 1)
    BY <1>5 DEF RejectEntity, RejectTimestamp, Crash
  <2>2. crashes' \in 0 .. MaxCrashes
    BY <1>0, <2>1
  <2> QED
    BY <1>0, <2>1, <2>2, EndStaysSound DEF RollBack, database, Reply
<1>6. ASSUME NEW p \in Payment, NEW status \in PaymentStatus, RegisterPayment(p, status)
      PROVE  IntakeStaysSound
  <2>1. TypeOK' /\ HandlersAreSound' /\ UNCHANGED <<caseStatus, audit>>
    BY <1>6 DEF IntakeIsSound, TypeOK, HandlersAreSound, RegisterPayment, handlers
  <2> QED
    BY <2>1, QuietTrails DEF IntakeIsSound, IntakeStaysSound
<1> QED
  BY <1>1, <1>2, <1>3, <1>4, <1>5, <1>6, LockStaysSound, FindStaysSound, CommitStaysSound
     DEF Next, Handle

-----------------------------------------------------------------------------
(***************************************************************************)
(* A step of a worker.                                                     *)
(***************************************************************************)
JobsType == job \in [Worker -> Job \cup {NoJob}]

SameMove(j) == {k \in Job : k.case = j.case /\ k.from = j.from /\ k.to = j.to}

\* A worker's transaction stays, ends, or goes on with the same move.
JobsGoOn ==
  \A w \in Worker :
    \/ job'[w] \in {job[w], NoJob}
    \/ job[w] # NoJob /\ job'[w] \in SameMove(job[w])

\* The trails only grow, so what a worker has read stays on them.
LEMMA JobsKeepTheirTrail ==
  ASSUME JobsType, JobsReadTheTrail, TrailsGrow, JobsGoOn
  PROVE  JobsReadTheTrail'
<1> SUFFICES ASSUME NEW w \in Worker, job'[w] # NoJob
             PROVE  Occurs(job[w].case, job[w].from)' /\ job[w].to \in CaseMoves[job[w].from]
                    /\ job'[w].case = job[w].case /\ job'[w].from = job[w].from
                    /\ job'[w].to = job[w].to
  BY DEF JobsReadTheTrail, Occurs
<1>1. job[w] \in Job \cup {NoJob} /\ job[w] # NoJob
  BY DEF JobsType, JobsGoOn
<1>2. job[w] \in Job
  BY <1>1
<1>3. job'[w].case = job[w].case /\ job'[w].from = job[w].from /\ job'[w].to = job[w].to
  BY <1>2 DEF SameMove, JobsGoOn
<1>4. Occurs(job[w].case, job[w].from) /\ job[w].to \in CaseMoves[job[w].from]
  BY <1>1 DEF JobsReadTheTrail
<1>5. job[w].case \in Delivery /\ job[w].from \in CaseStatus
  BY <1>2 DEF Job
<1>6. \E k \in DOMAIN audit'[job[w].case] : audit'[job[w].case][k].to = job[w].from
  <2> DEFINE c == job[w].case
             s == job[w].from
  <2>1. c \in Delivery /\ s \in CaseStatus /\ Occurs(c, s)
    BY <1>4, <1>5
  <2> HIDE DEF c, s
  <2>2. \E k \in DOMAIN audit'[c] : audit'[c][k].to = s
    BY <2>1 DEF TrailsGrow, Occurs
  <2> QED
    BY <2>2 DEF c, s
<1> QED
  BY <1>3, <1>4, <1>6 DEF Occurs

\* A worker's transaction is about a case that exists.
LEMMA JobsCaseExists ==
  ASSUME TypeOK, StatusIsOnTrail, JobsType, JobsReadTheTrail,
         NEW w \in Worker, job[w] # NoJob
  PROVE  /\ job[w] \in Job
         /\ job[w].case \in Delivery
         /\ caseStatus[job[w].case] \in CaseStatus
<1>1. job[w] \in Job
  BY DEF JobsType
<1>2. job[w].case \in Delivery /\ Occurs(job[w].case, job[w].from)
  BY <1>1 DEF Job, JobsReadTheTrail
<1>3. caseStatus[job[w].case] # NoCase
  BY <1>2 DEF StatusIsOnTrail, Occurs
<1> QED
  BY <1>1, <1>2, <1>3 DEF TypeOK

\* Its save adds a row to the trail, and the status it writes is the one it told.
LEMMA SaveRecords ==
  ASSUME TypeOK, StatusIsOnTrail, JobsType, JobsReadTheTrail, NEW w \in Worker, SaveCase(w)
  PROVE  /\ job[w] # NoJob
         /\ Records(job[w].case, job[w].from, job[w].to)
<1>1. job[w] # NoJob
  BY DEF SaveCase, NoJob
<1>2. job[w].case \in Delivery /\ caseStatus[job[w].case] \in CaseStatus
  BY <1>1, JobsCaseExists
<1>3. \/ caseStatus' = [caseStatus EXCEPT ![job[w].case] = job[w].to]
      \/ UNCHANGED caseStatus
  BY <1>2 DEF SaveCase, TypeOK
<1> QED
  BY <1>1, <1>2, <1>3, StatusNotAbsent DEF SaveCase, Records

LEMMA WorkersStep == TrailInv /\ [WorkersNext]_allVars => TrailInv'
<1> SUFFICES ASSUME TrailInv, [WorkersNext]_allVars
             PROVE  TrailInv'
  OBVIOUS
<1>0. /\ IntakeIsSound /\ TypeOK /\ JobsType /\ JobsReadTheTrail
      /\ transitions \in 0 .. MaxTransitions /\ MaxTransitions \in Nat
  BY TransitionsAssumption DEF TrailInv, IntakeIsSound, WorkersTypeOK, JobsType
<1>1. ASSUME IntakeStaysSound, UNCHANGED workers
      PROVE  TrailInv'
  <2>1. job' = job /\ JobsGoOn
    BY <1>1 DEF workers, JobsGoOn
  <2>2. JobsReadTheTrail'
    BY <1>0, <1>1, <2>1, JobsKeepTheirTrail DEF IntakeStaysSound
  <2> QED
    BY <1>0, <1>1, <2>1, <2>2 DEF IntakeStaysSound, TrailsGrow, TrailInv, WorkersTypeOK, workers, JobsType
<1>2. ASSUME UNCHANGED <<database, handlers>>
      PROVE  IntakeStaysSound
  <2>1. TypeOK' /\ HandlersAreSound' /\ UNCHANGED <<caseStatus, audit>>
    BY <1>0, <1>2 DEF IntakeIsSound, TypeOK, HandlersAreSound, database, handlers
  <2> QED
    BY <1>0, <2>1, QuietTrails DEF IntakeIsSound, IntakeStaysSound
<1>3. ASSUME Next, UNCHANGED workers
      PROVE  TrailInv'
  BY <1>0, <1>1, <1>3, IntakeStepStaysSound
<1>4. ASSUME NEW d \in Delivery, RefuseAmbiguous(d)
      PROVE  TrailInv'
  <2>1. RollBack(d) /\ pc[d] # "idle" /\ UNCHANGED <<crashes, workers>>
    BY <1>4 DEF RefuseAmbiguous
  <2>2. IntakeStaysSound
    BY <1>0, <2>1, EndStaysSound DEF TypeOK, RollBack, database, Reply
  <2> QED
    BY <1>1, <2>1, <2>2
<1>5. ASSUME NEW w \in Worker, NEW c \in Delivery, NEW to \in Asked, ReadCase(w, c, to)
      PROVE  TrailInv'
  <2> DEFINE read == [stage |-> "read", case |-> c, from |-> caseStatus[c], to |-> to,
                      found |-> caseStatus[c]]
  <2>1. /\ caseStatus[c] \in CaseStatus /\ Occurs(c, caseStatus[c])
        /\ to \in CaseMoves[caseStatus[c]]
        /\ job' = [job EXCEPT ![w] = read]
        /\ UNCHANGED <<database, handlers, transitions>>
    BY <1>0, <1>5, StatusOccurs DEF IntakeIsSound, ReadCase
  <2>2. read \in Job /\ read.case = c /\ read.from = caseStatus[c] /\ read.to = to
    BY <2>1, AskedAssumption DEF Job
  <2> HIDE DEF read
  <2>3. IntakeStaysSound
    BY <1>2, <2>1
  <2>4. JobsReadTheTrail'
    BY <1>0, <2>1, <2>2 DEF JobsType, JobsReadTheTrail, Occurs, database
  <2>5. job' \in [Worker -> Job \cup {NoJob}]
    BY <1>0, <2>1, <2>2 DEF JobsType
  <2> QED
    BY <1>0, <2>1, <2>3, <2>4, <2>5
       DEF IntakeStaysSound, TrailsGrow, TrailInv, WorkersTypeOK
<1>6. ASSUME NEW w \in Worker, CheckMove(w) \/ FindAgain(w) \/ Abandon(w)
      PROVE  TrailInv'
  <2>1. /\ UNCHANGED <<database, handlers, transitions>>
        /\ job[w] # NoJob
    BY <1>6 DEF CheckMove, FindAgain, Abandon, NoJob
  <2>2. IntakeStaysSound
    BY <1>2, <2>1
  <2>3. job[w] \in Job
    BY <1>0, <2>1 DEF JobsType
  <2>4. PICK next \in SameMove(job[w]) \cup {NoJob} : job' = [job EXCEPT ![w] = next]
    <3>1. CASE job' = [job EXCEPT ![w] = NoJob]
      BY <3>1
    <3>2. CASE job' = [job EXCEPT ![w] = [job[w] EXCEPT !.stage = "checked"]]
      <4>1. [job[w] EXCEPT !.stage = "checked"] \in SameMove(job[w])
        BY <2>3 DEF Job, SameMove
      <4> QED
        BY <3>2, <4>1
    <3>3. CASE FindAgain(w)
      <4> DEFINE found == caseStatus[job[w].case]
                 next == [job[w] EXCEPT !.stage = "saving", !.found = found]
      <4>1. found \in CaseStatus
        BY <1>0, <2>1, JobsCaseExists DEF IntakeIsSound
      <4>2. job' = [job EXCEPT ![w] = next]
        BY <1>0, <2>3, <3>3 DEF FindAgain, JobsType, Job
      <4>3. next \in SameMove(job[w])
        BY <2>3, <4>1 DEF Job, SameMove
      <4> QED
        BY <4>2, <4>3
    <3> QED
      BY <1>6, <3>1, <3>2, <3>3 DEF CheckMove, Abandon
  <2>5. job' \in [Worker -> Job \cup {NoJob}]
    BY <1>0, <2>4 DEF JobsType, SameMove
  <2>6. JobsGoOn
    BY <1>0, <2>1, <2>4 DEF JobsType, JobsGoOn
  <2>7. JobsReadTheTrail'
    BY <1>0, <2>2, <2>6, JobsKeepTheirTrail DEF IntakeStaysSound
  <2> QED
    BY <1>0, <2>1, <2>2, <2>5, <2>7
       DEF IntakeStaysSound, TrailsGrow, TrailInv, WorkersTypeOK
<1>7. ASSUME NEW w \in Worker, SaveCase(w)
      PROVE  TrailInv'
  <2> DEFINE j == job[w]
  <2>1. /\ j.stage = "saving"
        /\ job' = [job EXCEPT ![w] = NoJob]
        /\ transitions < MaxTransitions /\ transitions' = transitions + 1
        /\ UNCHANGED <<payload, payStatus, rawEvents, paymentEvents, handlers>>
    BY <1>7 DEF SaveCase
  <2>2. j # NoJob
    BY <2>1 DEF NoJob
  <2>3. j \in Job
    BY <1>0, <2>2 DEF JobsType
  <2>4. /\ j.case \in Delivery /\ j.from \in CaseStatus /\ j.to \in CaseStatus
        /\ j.to \in CaseMoves[j.from] /\ Occurs(j.case, j.from)
    BY <1>0, <2>2, <2>3 DEF Job, JobsReadTheTrail
  <2>5. j.to \in DOMAIN Before => Occurs(j.case, Before[j.to])
    BY <2>4, MovesRespectOrder
  <2>6. Records(j.case, j.from, j.to)
    BY <1>0, <1>7, SaveRecords DEF IntakeIsSound
  <2> HIDE DEF j
  <2>7. TrailsGrow
    BY <1>0, <2>6, <2>4, <2>5, RecordsGrowTrails DEF IntakeIsSound
  <2>8. TypeOK'
    BY <1>0, <2>1, <2>7 DEF TypeOK, TrailsGrow, handlers
  <2>9. HandlersAreSound'
    <3>1. \A d \in Delivery : work[d].case \in Delivery \cup {NoCase}
      BY <1>0 DEF TypeOK, Work
    <3> QED
      BY <1>0, <2>1, <2>7, <3>1 DEF IntakeIsSound, HandlersAreSound, TrailsGrow, handlers
  <2>10. JobsReadTheTrail'
    <3>1. JobsGoOn
      BY <1>0, <2>1 DEF JobsType, JobsGoOn
    <3> QED
      BY <1>0, <2>7, <3>1, JobsKeepTheirTrail
  <2>11. job' \in [Worker -> Job \cup {NoJob}]
    BY <1>0, <2>1 DEF JobsType
  <2>12. transitions' \in 0 .. MaxTransitions
    BY <1>0, <2>1
  <2> QED
    BY <2>7, <2>8, <2>9, <2>10, <2>11, <2>12 DEF TrailsGrow, TrailInv, WorkersTypeOK
<1>8. CASE UNCHANGED allVars
  BY <1>1, <1>2, <1>8 DEF allVars
<1> QED
  BY <1>3, <1>4, <1>5, <1>6, <1>7, <1>8 DEF WorkersNext

LEMMA WorkersBegin == WorkersInit => TrailInv
<1> SUFFICES ASSUME WorkersInit PROVE TrailInv
  OBVIOUS
<1>1. TypeOK
  BY AccountInit DEF WorkersInit, AccountInv
<1>2. WorkersTypeOK
  BY <1>1, TransitionsAssumption DEF WorkersInit, WorkersTypeOK
<1>3. HandlersAreSound /\ StatusIsOnTrail /\ TrailsAreLegal /\ JobsReadTheTrail
  BY DEF WorkersInit, Init, NoWork, HandlersAreSound, StatusIsOnTrail, TrailsAreLegal,
         JobsReadTheTrail
<1> QED
  BY <1>2, <1>3 DEF TrailInv

-----------------------------------------------------------------------------
(***************************************************************************)
(* The theorems about cases that workers and webhooks write.               *)
(***************************************************************************)
\* The inductive invariant holds of every behaviour of workers and webhooks.
THEOREM TrailInvariant == WorkersSpec => []TrailInv
  BY WorkersBegin, WorkersStep, PTL DEF WorkersSpec

\* Rows, handlers and workers keep their types (recovery/orchestrator.py).
THEOREM WorkersTypes == WorkersSpec => []WorkersTypeOK
<1>1. TrailInv => WorkersTypeOK
  BY DEF TrailInv
<1> QED
  BY <1>1, TrailInvariant, PTL

\* Whatever updates are lost, a case is executed only after its policy check and
\* its approval, in that order (domain/state_machines.py:42-88).
THEOREM PolicyComesFirst == WorkersSpec => []PolicyBeforeExecution
<1>1. TrailInv => PolicyBeforeExecution
  <2> SUFFICES ASSUME TrailInv, NEW c \in Delivery, NEW i \in DOMAIN audit[c],
                      audit[c][i].to = "EXECUTING"
               PROVE  \E j \in 1 .. i - 1 :
                        audit[c][j].to = "ACTION_APPROVED" /\ Reached(c, j, "POLICY_CHECK")
    BY DEF PolicyBeforeExecution
  <2>1. audit[c] \in Seq(AuditRow)
    BY DEF TrailInv, WorkersTypeOK, TypeOK
  <2>2. PICK j \in 1 .. i - 1 : audit[c][j].to = "ACTION_APPROVED"
    BY DEF TrailInv, TrailsAreLegal, Reached, Before
  <2>3. j \in DOMAIN audit[c]
    BY <2>1, <2>2
  <2>4. Reached(c, j, "POLICY_CHECK")
    BY <2>2, <2>3 DEF TrailInv, TrailsAreLegal, Before
  <2> QED
    BY <2>2, <2>4
<1> QED
  BY <1>1, TrailInvariant, PTL

\* A case is recovered only after it was observed (domain/state_machines.py:71-80,
\* recovery/orchestrator.py:116-131).
THEOREM ObservationComesFirst == WorkersSpec => []RecoveredOnlyAfterObservation
<1>1. TrailInv => RecoveredOnlyAfterObservation
  <2> SUFFICES ASSUME TrailInv, NEW c \in Delivery, caseStatus[c] = "RECOVERED"
               PROVE  Reached(c, Len(audit[c]), "OBSERVING")
    BY DEF RecoveredOnlyAfterObservation
  <2>1. audit[c] \in Seq(AuditRow)
    BY DEF TrailInv, WorkersTypeOK, TypeOK
  <2>2. PICK i \in DOMAIN audit[c] : audit[c][i].to = "RECOVERED"
    BY DEF TrailInv, StatusIsOnTrail, Occurs, NoCase
  <2>3. PICK k \in 1 .. i - 1 : audit[c][k].to = "OBSERVING"
    BY <2>2 DEF TrailInv, TrailsAreLegal, Before, Reached
  <2>4. k \in 1 .. Len(audit[c]) - 1
    BY <2>1, <2>2, <2>3
  <2> QED
    BY <2>3, <2>4 DEF Reached
<1> QED
  BY <1>1, TrailInvariant, PTL

-----------------------------------------------------------------------------
(***************************************************************************)
(* Without workers no update is lost, and a trail has no gaps.             *)
(***************************************************************************)
LEMMA WriteExplains ==
  ASSUME TypeOK, AuditExplainsCase, NEW c \in Delivery, NEW to \in CaseStatus,
         WriteCase(c, caseStatus[c], to)
  PROVE  AuditExplainsCase'
<1>1. /\ caseStatus[c] \in CaseStatus \cup {NoCase}
      /\ audit[c] \in Seq(AuditRow)
  BY DEF TypeOK
<1>2. /\ caseStatus'[c] = to
      /\ audit'[c] = Append(audit[c], [from |-> caseStatus[c], to |-> to])
      /\ Len(audit'[c]) = Len(audit[c]) + 1
      /\ audit'[c][Len(audit'[c])] = [from |-> caseStatus[c], to |-> to]
      /\ \A i \in DOMAIN audit[c] : i \in DOMAIN audit'[c] /\ audit'[c][i] = audit[c][i]
      /\ \A i \in DOMAIN audit'[c] : i \in DOMAIN audit[c] \/ i = Len(audit[c]) + 1
      /\ \A x \in Delivery \ {c} : audit'[x] = audit[x] /\ caseStatus'[x] = caseStatus[x]
  BY <1>1, WriteRecords, RecordsTrail DEF TypeOK, WriteCase
<1>3. audit'[c] # <<>> /\ caseStatus'[c] # NoCase
  BY <1>1, <1>2, StatusNotAbsent
<1>4. \A i \in DOMAIN audit[c] : i \in Nat /\ i # Len(audit[c]) + 1 /\ (i # 1 => i - 1 \in DOMAIN audit[c])
  BY <1>1
<1>5. caseStatus[c] = IF Len(audit[c]) + 1 = 1 THEN NoCase ELSE audit[c][Len(audit[c])].to
  <2>1. CASE audit[c] = <<>>
    BY <1>1, <2>1 DEF AuditExplainsCase
  <2>2. CASE audit[c] # <<>>
    <3>1. Len(audit[c]) \in DOMAIN audit[c] /\ Len(audit[c]) + 1 # 1
      BY <1>1, <2>2
    <3> QED
      BY <3>1 DEF AuditExplainsCase
  <2> QED
    BY <2>1, <2>2
<1>6. ASSUME NEW i \in DOMAIN audit'[c]
      PROVE  /\ audit'[c][i].from = IF i = 1 THEN NoCase ELSE audit'[c][i - 1].to
             /\ i = Len(audit'[c]) => audit'[c][i].to = caseStatus'[c]
  <2>1. CASE i \in DOMAIN audit[c]
    <3>1. audit[c][i].from = IF i = 1 THEN NoCase ELSE audit[c][i - 1].to
      BY <2>1 DEF AuditExplainsCase
    <3> QED
      BY <1>2, <1>4, <2>1, <3>1
  <2>2. CASE i = Len(audit[c]) + 1
    <3>1. i # 1 => i - 1 = Len(audit[c]) /\ i - 1 \in DOMAIN audit[c]
      BY <1>1, <2>2
    <3>2. audit'[c][i] = [from |-> caseStatus[c], to |-> to]
      BY <1>2, <2>2
    <3> QED
      BY <1>2, <1>5, <2>2, <3>1, <3>2
  <2> QED
    BY <1>2, <2>1, <2>2
<1>7. ASSUME NEW x \in Delivery \ {c}
      PROVE  /\ caseStatus'[x] = NoCase <=> audit'[x] = <<>>
             /\ \A i \in DOMAIN audit'[x] :
                  /\ audit'[x][i].from = IF i = 1 THEN NoCase ELSE audit'[x][i - 1].to
                  /\ i = Len(audit'[x]) => audit'[x][i].to = caseStatus'[x]
  BY <1>2 DEF AuditExplainsCase
<1>8. ASSUME NEW x \in Delivery
      PROVE  /\ caseStatus'[x] = NoCase <=> audit'[x] = <<>>
             /\ \A i \in DOMAIN audit'[x] :
                  /\ audit'[x][i].from = IF i = 1 THEN NoCase ELSE audit'[x][i - 1].to
                  /\ i = Len(audit'[x]) => audit'[x][i].to = caseStatus'[x]
  <2>1. CASE x = c
    BY <1>3, <1>6, <2>1
  <2>2. CASE x # c
    BY <1>7, <2>2
  <2> QED
    BY <2>1, <2>2
<1> QED
  BY <1>8 DEF AuditExplainsCase

\* The trail of a case is an unbroken path that ends at its status
\* (recovery/orchestrator.py:60-178).
THEOREM AuditsExplainCases == Spec => []AuditExplainsCase
<1>1. Init => AuditExplainsCase
  BY DEF Init, AuditExplainsCase
<1>2. IntakeInv /\ AuditExplainsCase /\ [Next]_vars => AuditExplainsCase'
  <2> SUFFICES ASSUME IntakeInv, AuditExplainsCase, [Next]_vars
               PROVE  AuditExplainsCase'
    OBVIOUS
  <2>0. TypeOK /\ AccountInv
    BY DEF IntakeInv, AccountInv
  <2>1. CASE UNCHANGED <<caseStatus, audit>>
    BY <2>1 DEF AuditExplainsCase
  <2>2. ASSUME NEW d \in Delivery, Commit(d)
        PROVE  AuditExplainsCase'
    <3> DEFINE c == work[d].case
    <3>1. caseStatus[d] = NoCase
      BY <2>0, <2>2, CommitEffect
    <3>2. c # NoCase => c \in Delivery /\ caseStatus[c] \in CaseStatus
      BY <2>0, <2>2, CommitEffect
    <3>3. CASE UNCHANGED <<caseStatus, audit>>
      BY <2>1, <3>3
    <3>4. CASE CloseCase(d) /\ c # NoCase
      <4> DEFINE to == IF caseStatus[c] = "OBSERVING" THEN "RECOVERED" ELSE "STOPPED"
      <4>1. WriteCase(c, caseStatus[c], to) /\ to \in CaseStatus
        BY <3>4 DEF CloseCase, CaseStatus, TerminalCase
      <4> HIDE DEF to
      <4> QED
        BY <2>0, <3>2, <3>4, <4>1, WriteExplains
    <3>5. CASE OpenCase(d) /\ c = NoCase
      <4>1. WriteCase(d, caseStatus[d], "NEW") /\ "NEW" \in CaseStatus
        BY <3>1, <3>5 DEF OpenCase, CaseStatus, ActiveCase
      <4> QED
        BY <2>0, <4>1, WriteExplains
    <3>6. CASE OpenCase(d) /\ c # NoCase
      <4>1. WriteCase(c, caseStatus[c], caseStatus[c])
        BY <3>6 DEF OpenCase
      <4> QED
        BY <2>0, <3>2, <3>6, <4>1, WriteExplains
    <3> QED
      BY <2>2, <3>3, <3>4, <3>5, <3>6 DEF Commit, CloseCase, OpenCase, KeepCase
  <2>3. UNCHANGED <<caseStatus, audit>> \/ \E d \in Delivery : Commit(d)
    BY DEF Next, Deliver, Retry, Handle, Crash, RollBack, FindRaw, InsertRaw,
         IgnoreUnsupported, LeaveUnresolved, CommitRawOnly, RejectEntity, LockPayment,
         RejectTimestamp, FindActiveCase, RegisterPayment, database, vars
  <2> QED
    BY <2>1, <2>2, <2>3
<1> QED
  BY <1>1, <1>2, IntakeInvariant, PTL DEF Spec
=============================================================================
