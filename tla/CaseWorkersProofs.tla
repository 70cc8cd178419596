------------------------- MODULE CaseWorkersProofs -------------------------
(***************************************************************************)
(* What intake promises while workers write cases at the same time, for    *)
(* any sets of payments, events, deliveries, bodies and workers: workers   *)
(* touch nothing intake says of events and payments, and the order of a    *)
(* payment's cases is lost only where a trail tells of it.                 *)
(***************************************************************************)
EXTENDS CaseTrailProofs, EventLedgerProofs

-----------------------------------------------------------------------------
(***************************************************************************)
(* A worker's write.                                                       *)
(***************************************************************************)
\* It is to a case that exists, which no handler holds.
LEMMA SaveWrites ==
  ASSUME TrailInv, NEW w \in Worker, SaveCase(w)
  PROVE  /\ \E c \in Delivery, from \in CaseStatus, to \in CaseStatus :
              /\ Records(c, from, to)
              /\ caseStatus[c] # NoCase
              /\ \A d \in Delivery : ~ HoldsCase(d, c)
         /\ UNCHANGED <<payload, payStatus, rawEvents, paymentEvents,
                        pc, eventOf, work, reply, crashes>>
<1> DEFINE j == job[w]
<1>1. TypeOK /\ StatusIsOnTrail /\ JobsType /\ JobsReadTheTrail
  BY DEF TrailInv, WorkersTypeOK, JobsType
<1>2. j # NoJob /\ Records(j.case, j.from, j.to)
  BY <1>1, SaveRecords
<1>3. j \in Job /\ caseStatus[j.case] # NoCase
  BY <1>1, <1>2, JobsCaseExists, StatusNotAbsent
<1>4. j.case \in Delivery /\ j.from \in CaseStatus /\ j.to \in CaseStatus
  BY <1>3 DEF Job
<1> QED
  BY <1>2, <1>3, <1>4 DEF SaveCase, handlers

-----------------------------------------------------------------------------
(***************************************************************************)
(* Events and payments.                                                    *)
(***************************************************************************)
LEMMA SaveKeepsAccount ==
  ASSUME TrailInv, AccountInv, NEW w \in Worker, SaveCase(w)
  PROVE  AccountInv'
<1>0. TypeOK
  BY DEF AccountInv
<1>1. /\ \A x \in Delivery : caseStatus[x] # NoCase <=> caseStatus'[x] # NoCase
      /\ TypeOK'
  <2>1. PICK c \in Delivery, from \in CaseStatus, to \in CaseStatus :
               Records(c, from, to) /\ caseStatus[c] # NoCase
    BY SaveWrites
  <2>2. /\ caseStatus'[c] \in {to, caseStatus[c]}
        /\ \A x \in Delivery \ {c} : caseStatus'[x] = caseStatus[x]
    BY <1>0, <2>1 DEF TypeOK, Records
  <2>3. /\ caseStatus' \in [Delivery -> CaseStatus \cup {NoCase}]
        /\ audit' \in [Delivery -> Seq(AuditRow)]
    BY <1>0, <2>1, RecordsType
  <2> QED
    BY <1>0, <2>1, <2>2, <2>3, SaveWrites, StatusNotAbsent DEF TypeOK
<1>2. /\ UNCHANGED <<payload, payStatus, rawEvents, paymentEvents, pc, eventOf, work>>
      /\ BodiesStand
  BY SaveWrites DEF BodiesStand
<1>3. LocksAreExclusive' /\ EventRecordedOnce' /\ AcknowledgedIsRecorded'
  BY <1>2 DEF AccountInv, LocksAreExclusive, EventRecordedOnce, AcknowledgedIsRecorded,
     HoldsPayment, HoldsRawRow, Recorded, PaymentOf, Body
<1>4. RowsAreSettled' /\ HistoryIsKnown'
  BY <1>1, <1>2 DEF AccountInv, RowsAreSettled, HistoryIsKnown, HoldsRawRow, Recorded,
     PaymentOf, Body
<1>5. ReadsAreCurrent'
  BY <1>1, <1>2, ReadsStayCurrent DEF ReadsAreCurrent, HoldsPayment
<1> QED
  BY <1>1, <1>3, <1>4, <1>5 DEF AccountInv

\* The steps of workers, as far as intake is concerned.
WorkersAccount == TrailInv /\ AccountInv

LEMMA WorkersAccountStep == WorkersAccount /\ [WorkersNext]_allVars => WorkersAccount'
<1> SUFFICES ASSUME WorkersAccount, [WorkersNext]_allVars
             PROVE  AccountInv'
  BY WorkersStep DEF WorkersAccount
<1>0. TrailInv /\ AccountInv /\ crashes \in 0 .. MaxCrashes
  BY DEF WorkersAccount, AccountInv, TypeOK
<1>1. ASSUME NEW d \in Delivery, RefuseAmbiguous(d)
      PROVE  AccountInv'
  BY <1>0, <1>1, RollBackKeepsAccount DEF RefuseAmbiguous
<1>2. ASSUME UNCHANGED <<database, handlers>>
      PROVE  AccountInv'
  BY <1>0, <1>2, AccountStep DEF database, handlers, vars
<1> QED
  BY <1>0, <1>1, <1>2, AccountStep, SaveKeepsAccount
     DEF WorkersNext, ReadCase, CheckMove, FindAgain, Abandon, allVars

LEMMA WorkersAccountInit == WorkersInit => WorkersAccount
  BY WorkersBegin, AccountInit DEF WorkersInit, WorkersAccount

\* The account of events and payments holds whatever workers do to the cases.
THEOREM WorkersAccountInvariant == WorkersSpec => []WorkersAccount
  BY WorkersAccountInit, WorkersAccountStep, PTL DEF WorkersSpec

\* Workers or not, each provider event is let in once (events/pipeline.py:112-153).
THEOREM WorkersLeaveEventsOnce == WorkersSpec => []EventRecordedOnce
<1>1. WorkersAccount => EventRecordedOnce
  BY DEF WorkersAccount, AccountInv
<1> QED
  BY <1>1, WorkersAccountInvariant, PTL

\* Workers or not, what is answered with a 2xx is on record, also by a handler that
\* was refused before on account of two active cases (events/pipeline.py:134-153).
THEOREM WorkersLeaveAcknowledged == WorkersSpec => []AcknowledgedIsRecorded
<1>1. WorkersAccount => AcknowledgedIsRecorded
  BY DEF WorkersAccount, AccountInv
<1> QED
  BY <1>1, WorkersAccountInvariant, PTL

\* Workers or not, a captured payment stays captured and gets no new case, although
\* a worker may revive an old one (domain/state_machines.py:40).
THEOREM WorkersLeaveCaptureFinal == WorkersSpec => CapturedIsFinal
<1> DEFINE Final == \A p \in Payment : payStatus[p] = "CAPTURED" =>
       /\ payStatus'[p] = "CAPTURED"
       /\ \A c \in Delivery : (caseStatus[c] = NoCase /\ caseStatus'[c] # NoCase)
                               => PaymentOf(c) # p
<1>1. WorkersAccount /\ [WorkersNext]_allVars => [Final]_vars
  <2> SUFFICES ASSUME WorkersAccount, [WorkersNext]_allVars
               PROVE  Final \/ UNCHANGED vars
    OBVIOUS
  <2>0. AccountInv /\ TrailInv /\ TypeOK
    BY DEF WorkersAccount, AccountInv
  <2>1. CASE Next
    BY <2>0, <2>1, CaptureStands
  <2>2. ASSUME UNCHANGED <<payStatus, caseStatus>>
        PROVE  Final
    BY <2>2
  <2>3. ASSUME NEW w \in Worker, SaveCase(w)
        PROVE  Final
    <3>1. PICK c \in Delivery, from \in CaseStatus, to \in CaseStatus :
                 Records(c, from, to) /\ caseStatus[c] # NoCase
      BY <2>0, <2>3, SaveWrites
    <3>2. \A x \in Delivery \ {c} : caseStatus'[x] = caseStatus[x]
      BY <2>0, <3>1 DEF TypeOK, Records
    <3>3. payStatus' = payStatus
      BY <2>3 DEF SaveCase
    <3> QED
      BY <3>1, <3>2, <3>3
  <2>4. Next \/ UNCHANGED <<payStatus, caseStatus>> \/ \E w \in Worker : SaveCase(w)
    BY DEF WorkersNext, ReadCase, CheckMove, FindAgain, Abandon, RefuseAmbiguous, RollBack, allVars, database
  <2> QED
    BY <2>1, <2>2, <2>3, <2>4
<1>2. WorkersSpec => [][Final]_vars
  BY <1>1, WorkersAccountInvariant, PTL DEF WorkersSpec
<1> QED
  BY <1>2 DEF CapturedIsFinal

-----------------------------------------------------------------------------
(***************************************************************************)
(* The latest event.                                                       *)
(***************************************************************************)
\* Workers touch no payment and no history.
LEMMA WorkersHistoryStep ==
  WorkersAccount /\ HistoryInv /\ [WorkersNext]_allVars => HistoryInv'
<1> SUFFICES ASSUME WorkersAccount, HistoryInv, [WorkersNext]_allVars
             PROVE  HistoryInv'
  OBVIOUS
<1>0. /\ TrailInv /\ AccountInv /\ AccountInv' /\ TypeOK
      /\ LatenessIsCurrent /\ LatestEventWins
  BY WorkersAccountStep DEF WorkersAccount, HistoryInv, AccountInv
<1>1. ASSUME NEW d \in Delivery, RefuseAmbiguous(d)
      PROVE  HistoryInv'
  <2>1. /\ EndsAt(d, "failed", "none") /\ UNCHANGED <<database, eventOf>>
        /\ BodiesStand /\ UNCHANGED <<payStatus, paymentEvents>>
    BY <1>1 DEF RefuseAmbiguous, RollBack, BodiesStand, database
  <2>2. \A x \in Delivery : HoldsPayment(x)' =>
           pc[x] # "idle" /\ HoldsPayment(x) /\ work'[x].late = work[x].late
    BY <1>0, <2>1 DEF TypeOK, EndsAt, HoldsPayment
  <2> QED
    BY <1>0, <2>1, <2>2, LatenessStands, LatestStands DEF HistoryInv
<1>2. ASSUME UNCHANGED <<payload, payStatus, paymentEvents, pc, eventOf, work>>
      PROVE  HistoryInv'
  BY <1>0, <1>2
     DEF HistoryInv, LatenessIsCurrent, LatestEventWins, HoldsPayment, History, PaymentOf, Body,
         Target
<1>3. \/ Next
      \/ \E d \in Delivery : RefuseAmbiguous(d)
      \/ UNCHANGED <<payload, payStatus, paymentEvents, pc, eventOf, work>>
  BY DEF WorkersNext, ReadCase, CheckMove, FindAgain, SaveCase, Abandon, allVars, database, handlers
<1> QED
  BY <1>1, <1>2, <1>3, HistoryStep

\* Workers or not, the latest event decides where a payment that is not captured
\* stands (events/pipeline.py:195-247).
THEOREM WorkersLeaveLatestEvent == WorkersSpec => []LatestEventWins
<1>1. WorkersInit => HistoryInv
  BY HistoryInit DEF WorkersInit
<1>2. HistoryInv => LatestEventWins
  BY DEF HistoryInv
<1> QED
  BY <1>1, <1>2, WorkersHistoryStep, WorkersAccountInvariant, PTL DEF WorkersSpec

-----------------------------------------------------------------------------
(***************************************************************************)
(* The order of a payment's cases is lost only by a revival.               *)
(***************************************************************************)
Unrevived(p) ==
  \A c \in Delivery : caseStatus[c] # NoCase /\ PaymentOf(c) = p => ~ Revived(c)

\* A trail only gets longer, a row at a time.
TrailsAreExtended ==
  \A c \in Delivery : \/ audit'[c] = audit[c]
                      \/ \E row \in AuditRow : audit'[c] = Append(audit[c], row)

LEMMA RecordExtendsTrail ==
  ASSUME TypeOK, NEW c \in Delivery, NEW from \in CaseStatus \cup {NoCase},
         NEW to \in CaseStatus, Records(c, from, to)
  PROVE  TrailsAreExtended
<1>1. [from |-> from, to |-> to] \in AuditRow
  BY DEF AuditRow
<1> QED
  BY <1>1 DEF TypeOK, Records, TrailsAreExtended

LEMMA StepExtendsTrails ==
  ASSUME WorkersAccount, [WorkersNext]_allVars
  PROVE  /\ TrailsAreExtended
         /\ BodiesStand
         /\ \A c \in Delivery : caseStatus[c] # NoCase => caseStatus'[c] # NoCase
<1>0. TypeOK /\ AccountInv /\ TrailInv
  BY DEF WorkersAccount, AccountInv
<1>1. ASSUME NEW c \in Delivery, NEW from \in CaseStatus \cup {NoCase}, NEW to \in CaseStatus,
             Records(c, from, to)
      PROVE  /\ TrailsAreExtended
             /\ \A x \in Delivery : caseStatus[x] # NoCase => caseStatus'[x] # NoCase
  <2>1. TrailsAreExtended
    BY <1>0, <1>1, RecordExtendsTrail
  <2>2. \A x \in Delivery : caseStatus[x] # NoCase => caseStatus'[x] # NoCase
    BY <1>0, <1>1, StatusNotAbsent DEF TypeOK, Records
  <2> QED
    BY <2>1, <2>2
<1>2. ASSUME UNCHANGED <<caseStatus, audit>>
      PROVE  /\ TrailsAreExtended
             /\ \A x \in Delivery : caseStatus[x] # NoCase => caseStatus'[x] # NoCase
  BY <1>2 DEF TrailsAreExtended
<1>3. \/ \E d \in Delivery : Commit(d)
      \/ \E w \in Worker : SaveCase(w)
      \/ UNCHANGED <<caseStatus, audit>>
  <2>1. Next => UNCHANGED <<caseStatus, audit>> \/ \E d \in Delivery : Commit(d)
    BY DEF Next, Deliver, Retry, Handle, Crash, RollBack, FindRaw, InsertRaw,
         IgnoreUnsupported, LeaveUnresolved, CommitRawOnly, RejectEntity, LockPayment,
         RejectTimestamp, FindActiveCase, RegisterPayment, database
  <2> QED
    BY <2>1 DEF WorkersNext, ReadCase, CheckMove, FindAgain, Abandon, RefuseAmbiguous, RollBack, allVars,
                database
<1>4. BodiesStand
  <2>1. Next => BodiesStand
    BY <1>0, Frame
  <2>2. UNCHANGED <<payload, eventOf>> => BodiesStand
    BY DEF BodiesStand
  <2> QED
    BY <2>1, <2>2 DEF WorkersNext, ReadCase, CheckMove, FindAgain, SaveCase, Abandon, RefuseAmbiguous,
                      RollBack, allVars, database, handlers
<1>5. /\ TrailsAreExtended
      /\ \A x \in Delivery : caseStatus[x] # NoCase => caseStatus'[x] # NoCase
  BY <1>0, <1>1, <1>2, <1>3, CommitWrites, WriteRecords, SaveWrites
<1> QED
  BY <1>4, <1>5

\* A revival is on the trail for good.
LEMMA RevivedForGood ==
  ASSUME TypeOK, TrailsAreExtended, NEW c \in Delivery, Revived(c)
  PROVE  Revived(c)'
<1>1. PICK i \in DOMAIN audit[c] : i < Len(audit[c]) /\ audit[c][i].to \in TerminalCase
  BY DEF Revived
<1>2. audit[c] \in Seq(AuditRow)
  BY DEF TypeOK
<1>3. CASE audit'[c] = audit[c]
  BY <1>1, <1>3 DEF Revived
<1>4. ASSUME NEW row \in AuditRow, audit'[c] = Append(audit[c], row)
      PROVE  Revived(c)'
  <2>1. /\ Len(audit'[c]) = Len(audit[c]) + 1
        /\ i \in DOMAIN audit'[c] /\ audit'[c][i] = audit[c][i]
    BY <1>1, <1>2, <1>4
  <2>2. i < Len(audit'[c])
    BY <1>1, <1>2, <2>1
  <2> QED
    BY <1>1, <2>1, <2>2 DEF Revived
<1> QED
  BY <1>3, <1>4 DEF TrailsAreExtended

\* A payment whose cases have not been revived had none revived before.
LEMMA UnrevivedBefore ==
  ASSUME WorkersAccount, [WorkersNext]_allVars, NEW p \in Payment, Unrevived(p)'
  PROVE  Unrevived(p)
<1> SUFFICES ASSUME NEW c \in Delivery, caseStatus[c] # NoCase, PaymentOf(c) = p, Revived(c)
             PROVE  FALSE
  BY DEF Unrevived
<1>1. AccountInv /\ TypeOK
  BY DEF WorkersAccount, AccountInv
<1>2. caseStatus'[c] # NoCase /\ PaymentOf(c)' = p
  BY <1>1, StepExtendsTrails, RowsKeepTheirBody
<1>3. Revived(c)'
  BY <1>1, StepExtendsTrails, RevivedForGood
<1> QED
  BY <1>2, <1>3 DEF Unrevived

\* A worker that moves a case that has not ended, of a payment whose cases are in
\* order, leaves them so: no handler that goes by the active case is between its
\* read and its commit.
LEMMA SaveKeepsOrder ==
  ASSUME WorkersAccount, NEW w \in Worker, SaveCase(w), NEW p \in Payment,
         CasesInOrder(p), Unrevived(p)'
  PROVE  CasesInOrder(p)'
<1>0. TypeOK /\ AccountInv /\ TrailInv
  BY DEF WorkersAccount, AccountInv
<1>1. PICK c \in Delivery, from \in CaseStatus, to \in CaseStatus :
             /\ Records(c, from, to)
             /\ caseStatus[c] # NoCase
             /\ \A d \in Delivery : ~ HoldsCase(d, c)
  BY <1>0, SaveWrites
<1>2. /\ UNCHANGED <<payload, payStatus, pc, eventOf, work>>
      /\ BodiesStand
  BY <1>0, SaveWrites DEF BodiesStand
<1>3. CASE UNCHANGED caseStatus
  <2>1. ActiveCases(p)' = ActiveCases(p)
    BY <1>0, <1>2, <1>3, ActiveCasesStand
  <2> QED
    BY <1>0, <1>2, <2>1, CasesStayInOrder
<1>4. ASSUME caseStatus' = [caseStatus EXCEPT ![c] = to]
      PROVE  /\ caseStatus'[c] = to
             /\ \A q : ActiveCases(q)' =
                  IF q # PaymentOf(c) THEN ActiveCases(q)
                  ELSE IF to \in ActiveCase THEN ActiveCases(q) \cup {c}
                  ELSE ActiveCases(q) \ {c}
  <2>1. WriteCase(c, from, to)
    BY <1>1, <1>4 DEF Records, WriteCase
  <2> QED
    BY <1>0, <1>2, <1>4, <2>1, WriteCaseEffect DEF TypeOK
<1>5. CASE caseStatus' = [caseStatus EXCEPT ![c] = to] /\ PaymentOf(c) # p
  <2>1. ActiveCases(p)' = ActiveCases(p)
    BY <1>4, <1>5
  <2> QED
    BY <1>0, <1>2, <2>1, CasesStayInOrder
<1>6. CASE caseStatus' = [caseStatus EXCEPT ![c] = to] /\ PaymentOf(c) = p
  <2>1. caseStatus[c] \notin TerminalCase
    <3>1. /\ Len(audit'[c]) = Len(audit[c]) + 1
          /\ \A k \in DOMAIN audit[c] : k \in DOMAIN audit'[c] /\ audit'[c][k] = audit[c][k]
      BY <1>0, <1>1, RecordsTrail
    <3>2. PICK i \in DOMAIN audit[c] : audit[c][i].to = caseStatus[c]
      BY <1>0, <1>1 DEF TrailInv, StatusIsOnTrail, Occurs
    <3>3. i < Len(audit[c]) + 1
      BY <1>0, <3>2 DEF TypeOK
    <3>4. ~ Revived(c)'
      <4>1. caseStatus'[c] # NoCase /\ PaymentOf(c)' = p
        BY <1>1, <1>2, <1>4, <1>6, StatusNotAbsent DEF PaymentOf, Body
      <4> QED
        BY <4>1 DEF Unrevived
    <3> QED
      BY <3>1, <3>2, <3>3, <3>4 DEF Revived
  <2>2. c \in ActiveCases(p)
    BY <1>0, <1>1, <1>6, <2>1 DEF ActiveCases, TypeOK, CaseStatus
  <2>3. ActiveCases(p) = {c} /\ payStatus[p] # "CAPTURED"
    <3>1. \A c1, c2 \in ActiveCases(p) : c1 = c2
      BY DEF CasesInOrder, Ambiguous
    <3> QED
      BY <2>2, <3>1 DEF CasesInOrder
  <2>4. ActiveCases(p)' \subseteq {c}
    BY <1>4, <1>6, <2>3
  <2>5. ASSUME NEW x \in Delivery, pc'[x] = "found", PaymentOf(x)' = p,
               ClosesCase(x)' \/ OpensCase(x)'
        PROVE  FALSE
    <3>1. pc[x] = "found" /\ PaymentOf(x) = p /\ (ClosesCase(x) \/ OpensCase(x))
      BY <1>2, <2>5
         DEF ClosesCase, OpensCase, EffectiveStatus, Applies, Target, PaymentOf, Body
    <3>2. {work[x].case} \ {NoCase} = {c}
      BY <2>3, <3>1 DEF CasesInOrder
    <3>3. work[x].case = c
      BY <3>2
    <3> QED
      BY <1>1, <3>1, <3>3 DEF HoldsCase
  <2> QED
    BY <1>2, <2>3, <2>4, <2>5 DEF CasesInOrder, Ambiguous
<1> QED
  BY <1>1, <1>3, <1>5, <1>6 DEF Records

OrderInv == WorkersAccount /\ \A p \in Payment : Unrevived(p) => CasesInOrder(p)

LEMMA OrderStep == OrderInv /\ [WorkersNext]_allVars => OrderInv'
<1> SUFFICES ASSUME OrderInv, [WorkersNext]_allVars,
                    NEW p \in Payment, Unrevived(p)'
             PROVE  CasesInOrder(p)'
  BY WorkersAccountStep DEF OrderInv
<1>0. WorkersAccount /\ TrailInv /\ AccountInv /\ TypeOK /\ CasesInOrder(p)
  BY UnrevivedBefore DEF OrderInv, WorkersAccount, AccountInv
<1>1. CASE Next
  BY <1>0, <1>1, CasesStep
<1>2. ASSUME NEW d \in Delivery, RefuseAmbiguous(d)
      PROVE  CasesInOrder(p)'
  <2>1. /\ EndsAt(d, "failed", "none") /\ UNCHANGED <<database, eventOf>> /\ BodiesStand
        /\ UNCHANGED <<payStatus, caseStatus>>
    BY <1>2 DEF RefuseAmbiguous, RollBack, BodiesStand, database
  <2>2. \A x \in Delivery : pc'[x] = "found" => pc[x] = "found" /\ work'[x] = work[x]
    BY <1>0, <2>1 DEF TypeOK, EndsAt
  <2> QED
    BY <1>0, <2>1, <2>2, ActiveCasesStand, CasesStayInOrder
<1>3. ASSUME UNCHANGED <<database, handlers>>
      PROVE  CasesInOrder(p)'
  BY <1>0, <1>3 DEF database, handlers, CasesInOrder, Ambiguous, ActiveCases, ClosesCase,
     OpensCase, EffectiveStatus, Applies, Target, PaymentOf, Body
<1>4. ASSUME NEW w \in Worker, SaveCase(w)
      PROVE  CasesInOrder(p)'
  BY <1>0, <1>4, SaveKeepsOrder
<1> QED
  BY <1>1, <1>2, <1>3, <1>4 DEF WorkersNext, ReadCase, CheckMove, FindAgain, Abandon, allVars

LEMMA OrderInit == WorkersInit => OrderInv
<1> SUFFICES ASSUME WorkersInit PROVE OrderInv
  OBVIOUS
<1>1. IntakeInv /\ WorkersAccount
  BY IntakeInit, WorkersAccountInit DEF WorkersInit
<1> QED
  BY <1>1 DEF OrderInv, IntakeInv

\* A second active case, or an active case of a captured payment, is always the
\* doing of a worker that wrote over a case that had ended, which that case's trail
\* tells (recovery/orchestrator.py:180-232).
THEOREM RevivalsAreOnTheTrail == WorkersSpec => []RevivalsAreAudited
<1>1. OrderInv => RevivalsAreAudited
  BY DEF OrderInv, Unrevived, CasesInOrder, RevivalsAreAudited
<1> QED
  BY <1>1, OrderInit, OrderStep, PTL DEF WorkersSpec
=============================================================================
