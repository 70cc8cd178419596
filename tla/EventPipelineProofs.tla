------------------------ MODULE EventPipelineProofs ------------------------
(***************************************************************************)
(* Theorems about webhook intake, for any sets of payments, events,        *)
(* deliveries and bodies.                                                  *)
(***************************************************************************)
EXTENDS EventPipeline, TLAPS

-----------------------------------------------------------------------------
(***************************************************************************)
(* Types.                                                                  *)
(***************************************************************************)
\* The body of an event that has arrived is one of Payload.
LEMMA BodyType ==
  ASSUME TypeOK, NEW d \in Delivery, eventOf[d] \in Event
  PROVE  /\ Body(d) \in Payload
         /\ Body(d).time \in Nat
         /\ PaymentOf(d) \in Payment
         /\ Target(d) \in PaymentStatus
<1>1. Body(d) \in Payload
  BY DEF TypeOK, Body
<1> QED
  BY <1>1, PayloadAssumption DEF PaymentOf, Target, StatusOfType, PaymentStatus

\* A handler's position, answer and reads keep their types.
LEMMA EndsAtType ==
  ASSUME TypeOK, NEW d \in Delivery, NEW position \in Position, NEW answer \in Reply,
         EndsAt(d, position, answer)
  PROVE  /\ pc' \in [Delivery -> Position]
         /\ reply' \in [Delivery -> Reply]
         /\ work' \in [Delivery -> Work]
<1>1. NoWork \in Work
  BY DEF NoWork, Work
<1> QED
  BY <1>1 DEF TypeOK, EndsAt

\* A case row and its trail keep their types.
LEMMA WriteCaseType ==
  ASSUME TypeOK, NEW c \in Delivery, NEW from \in CaseStatus \cup {NoCase},
         NEW to \in CaseStatus, WriteCase(c, from, to)
  PROVE  /\ caseStatus' \in [Delivery -> CaseStatus \cup {NoCase}]
         /\ audit' \in [Delivery -> Seq(AuditRow)]
<1>1. caseStatus' \in [Delivery -> CaseStatus \cup {NoCase}]
  BY DEF TypeOK, WriteCase
<1>2. [from |-> from, to |-> to] \in AuditRow
  BY DEF AuditRow
<1>3. Append(audit[c], [from |-> from, to |-> to]) \in Seq(AuditRow)
  BY <1>2 DEF TypeOK
<1>4. audit' \in [Delivery -> Seq(AuditRow)]
  BY <1>3 DEF TypeOK, WriteCase
<1> QED
  BY <1>1, <1>4

\* A status is never the mark of a missing row.
LEMMA StatusNotAbsent ==
  /\ Absent \notin PaymentStatus
  /\ NoCase \notin CaseStatus
  /\ ActiveCase \subseteq CaseStatus
  BY DEF Absent, NoCase, PaymentStatus, CaseStatus, ActiveCase, TerminalCase

-----------------------------------------------------------------------------
(***************************************************************************)
(* What every step leaves alone: the bodies, and the event of a delivery   *)
(* that has arrived, so its body too.                                      *)
(***************************************************************************)
BodiesStand ==
  /\ payload' = payload
  /\ \A d \in Delivery : pc[d] # "idle" => eventOf'[d] = eventOf[d]

LEMMA BodiesKept ==
  ASSUME BodiesStand
  PROVE  \A d \in Delivery : pc[d] # "idle" =>
           /\ eventOf'[d] = eventOf[d]
           /\ Body(d)' = Body(d)
           /\ PaymentOf(d)' = PaymentOf(d)
           /\ Target(d)' = Target(d)
  BY DEF BodiesStand, Body, PaymentOf, Target

LEMMA Frame ==
  ASSUME TypeOK, Next
  PROVE  BodiesStand
<1>1. payload' = payload
  BY DEF Next, Deliver, Retry, Handle, Crash, RollBack, RegisterPayment, FindRaw, InsertRaw,
         IgnoreUnsupported, LeaveUnresolved, CommitRawOnly, RejectEntity, LockPayment,
         RejectTimestamp, FindActiveCase, Commit, database
<1>2. ASSUME NEW d \in Delivery, pc[d] # "idle"
      PROVE  eventOf'[d] = eventOf[d]
  BY <1>2
     DEF TypeOK, Next, Deliver, Retry, Handle, Crash, RollBack, RegisterPayment, FindRaw,
         InsertRaw, IgnoreUnsupported, LeaveUnresolved, CommitRawOnly, RejectEntity,
         LockPayment, RejectTimestamp, FindActiveCase, Commit, handlers
<1> QED
  BY <1>1, <1>2 DEF BodiesStand

-----------------------------------------------------------------------------
(***************************************************************************)
(* The inductive step for events and payments, which does not depend on    *)
(* what becomes of the cases.  First the actions that write no row and     *)
(* leave the handler without a lock, then those that take one, then the    *)
(* commits.                                                                *)
(***************************************************************************)
OthersStand(d) ==
  \A x \in Delivery \ {d} : pc'[x] = pc[x] /\ eventOf'[x] = eventOf[x] /\ work'[x] = work[x]

\* Rows of the database keep their event and payment.
LEMMA RowsKeepTheirBody ==
  ASSUME AccountInv, BodiesStand
  PROVE  \A x \in Delivery :
           x \in rawEvents \/ x \in paymentEvents \/ caseStatus[x] # NoCase =>
             /\ pc[x] = "replied"
             /\ eventOf[x] \in Event
             /\ eventOf'[x] = eventOf[x]
             /\ Body(x)' = Body(x)
             /\ PaymentOf(x)' = PaymentOf(x)
             /\ PaymentOf(x) \in Payment
<1>1. TypeOK
  BY DEF AccountInv
<1>2. \A x \in Delivery :
        x \in rawEvents \/ x \in paymentEvents \/ caseStatus[x] # NoCase => pc[x] = "replied"
  BY DEF AccountInv, RowsAreSettled
<1>3. \A x \in Delivery : pc[x] # "idle" => eventOf[x] \in Event
  BY DEF AccountInv, RowsAreSettled
<1> QED
  BY <1>1, <1>2, <1>3, BodiesKept, BodyType

\* The active cases of a payment stay what they are while no case is written.
LEMMA ActiveCasesStand ==
  ASSUME AccountInv, BodiesStand, UNCHANGED caseStatus
  PROVE  \A p : ActiveCases(p)' = ActiveCases(p)
<1>1. \A c \in Delivery : caseStatus[c] \in ActiveCase => caseStatus[c] # NoCase
  BY StatusNotAbsent
<1> QED
  BY <1>1, RowsKeepTheirBody DEF ActiveCases

\* The history of a payment stays what it is while nothing is added to it.
LEMMA HistoryStands ==
  ASSUME AccountInv, BodiesStand, UNCHANGED paymentEvents
  PROVE  \A p : /\ History(p)' = History(p)
                /\ \A x \in History(p) : Body(x)' = Body(x) /\ Target(x)' = Target(x)
<1>1. paymentEvents \subseteq Delivery
  BY DEF AccountInv, TypeOK
<1>2. \A x \in paymentEvents : PaymentOf(x)' = PaymentOf(x) /\ Body(x)' = Body(x)
  BY <1>1, RowsKeepTheirBody
<1> QED
  BY <1>2 DEF History, Target

\* What concerns the database only survives a step that leaves it alone.
LEMMA QuietDatabase ==
  ASSUME AccountInv, BodiesStand, UNCHANGED database
  PROVE  HistoryIsKnown' /\ EventRecordedOnce'
<1>1. /\ payStatus' = payStatus
      /\ rawEvents' = rawEvents
      /\ paymentEvents' = paymentEvents
      /\ caseStatus' = caseStatus
  BY DEF database
<1>2. rawEvents \subseteq Delivery /\ paymentEvents \subseteq Delivery
  BY DEF AccountInv, TypeOK
<1>3. HistoryIsKnown'
  <2> SUFFICES ASSUME NEW x \in Delivery, x \in paymentEvents \/ caseStatus[x] # NoCase
               PROVE  payStatus[PaymentOf(x)'] # Absent
    BY <1>1 DEF HistoryIsKnown
  <2> QED
    BY RowsKeepTheirBody DEF AccountInv, HistoryIsKnown
<1>4. EventRecordedOnce'
  BY <1>1, <1>2, RowsKeepTheirBody DEF AccountInv, EventRecordedOnce
<1> QED
  BY <1>3, <1>4

\* A handler whose lock, reads and payment stand has read what is still current.
LEMMA ReadsStayCurrent ==
  ASSUME AccountInv, BodiesStand, NEW x \in Delivery, HoldsPayment(x),
         pc'[x] = pc[x], work'[x] = work[x],
         payStatus'[PaymentOf(x)] = payStatus[PaymentOf(x)],
         \A c \in Delivery : caseStatus[c] # NoCase => caseStatus'[c] # NoCase
  PROVE  /\ work'[x].status = payStatus'[PaymentOf(x)']
         /\ work'[x].status # Absent
         /\ pc'[x] = "found" /\ work'[x].case # NoCase =>
              /\ caseStatus'[work'[x].case] # NoCase
              /\ PaymentOf(work[x].case)' = PaymentOf(x)'
<1>1. PaymentOf(x)' = PaymentOf(x)
  BY BodiesKept DEF HoldsPayment
<1>2. work[x].status = payStatus[PaymentOf(x)] /\ work[x].status # Absent
  BY DEF AccountInv, ReadsAreCurrent
<1>3. ASSUME pc[x] = "found", work[x].case # NoCase
      PROVE  /\ caseStatus'[work[x].case] # NoCase
             /\ PaymentOf(work[x].case)' = PaymentOf(x)'
  <2>1. PICK c : c = work[x].case
    OBVIOUS
  <2>2. c \in Delivery /\ caseStatus[c] # NoCase /\ PaymentOf(c) = PaymentOf(x)
    BY <1>3, <2>1 DEF AccountInv, TypeOK, Work, ReadsAreCurrent
  <2>3. PaymentOf(c)' = PaymentOf(x)'
    BY <1>1, <2>2, RowsKeepTheirBody
  <2>4. PaymentOf(work[x].case)' = PaymentOf(c)'
    BY <2>1 DEF PaymentOf, Body
  <2> QED
    BY <2>1, <2>2, <2>3, <2>4
<1> QED
  BY <1>1, <1>2, <1>3

\* A handler that ends up without a lock, having written nothing.
LEMMA LetGo ==
  ASSUME AccountInv, BodiesStand, TypeOK', UNCHANGED database,
         NEW d \in Delivery, OthersStand(d),
         pc[d] # "replied",
         eventOf'[d] \in Event,
         pc'[d] \in {"checking", "inserting", "replied", "failed"},
         pc'[d] = "replied" => Recorded(d) /\ pc[d] # "idle"
  PROVE  AccountInv'
<1>1. rawEvents' = rawEvents /\ paymentEvents' = paymentEvents /\ caseStatus' = caseStatus
      /\ payStatus' = payStatus /\ payload' = payload /\ rawEvents \subseteq Delivery
  BY DEF database, AccountInv, TypeOK
<1>2. \A x \in Delivery : HoldsRawRow(x)' => x # d /\ HoldsRawRow(x)
  BY DEF OthersStand, HoldsRawRow
<1>3. \A x \in Delivery : HoldsPayment(x)' => x # d /\ HoldsPayment(x)
  BY DEF OthersStand, HoldsPayment
<1>4. \A x \in Delivery \ {d} : PaymentOf(x)' = PaymentOf(x)
  BY <1>1 DEF OthersStand, PaymentOf, Body
<1>5. \A x \in Delivery \ {d} : Recorded(x)' <=> Recorded(x)
  BY <1>1, RowsKeepTheirBody DEF OthersStand, Recorded
<1>6. LocksAreExclusive'
  BY <1>2, <1>3, <1>4 DEF OthersStand, AccountInv, LocksAreExclusive
<1>7. RowsAreSettled'
  <2>1. ASSUME NEW x \in Delivery
        PROVE  pc'[x] # "idle" => eventOf'[x] \in Event
    BY DEF OthersStand, AccountInv, RowsAreSettled
  <2>2. ASSUME NEW x \in Delivery
        PROVE  (x \in rawEvents \/ x \in paymentEvents \/ caseStatus[x] # NoCase)
                 => pc'[x] = "replied"
    BY DEF OthersStand, AccountInv, RowsAreSettled
  <2>3. ASSUME NEW x \in Delivery
        PROVE  HoldsRawRow(x)' => ~ Recorded(x)'
    BY <1>2, <1>5 DEF AccountInv, RowsAreSettled
  <2> QED
    BY <1>1, <2>1, <2>2, <2>3 DEF RowsAreSettled
<1>8. ReadsAreCurrent'
  <2>1. ASSUME NEW x \in Delivery, HoldsPayment(x)'
        PROVE  /\ HoldsPayment(x) /\ pc'[x] = pc[x] /\ work'[x] = work[x]
               /\ payStatus'[PaymentOf(x)] = payStatus[PaymentOf(x)]
    BY <1>1, <1>3, <2>1 DEF OthersStand
  <2> QED
    BY <1>1, <2>1, ReadsStayCurrent DEF ReadsAreCurrent, HoldsPayment
<1>9. AcknowledgedIsRecorded'
  <2>1. pc'[d] = "replied" => Recorded(d)'
    BY <1>1, RowsKeepTheirBody, BodiesKept DEF Recorded
  <2>2. ASSUME NEW x \in Delivery \ {d}, pc'[x] = "replied"
        PROVE  Recorded(x)'
    BY <1>5, <2>2 DEF OthersStand, AccountInv, AcknowledgedIsRecorded
  <2> QED
    BY <2>1, <2>2 DEF AcknowledgedIsRecorded
<1> QED
  BY <1>6, <1>7, <1>8, <1>9, QuietDatabase DEF AccountInv

\* An open transaction that is rolled back.
LEMMA RollBackKeepsAccount ==
  ASSUME AccountInv, NEW d \in Delivery, RollBack(d), crashes' \in 0 .. MaxCrashes,
         pc[d] \notin {"idle", "replied"}
  PROVE  AccountInv'
<1>0. TypeOK
  BY DEF AccountInv
<1>1. EndsAt(d, "failed", "none") /\ UNCHANGED <<database, eventOf>>
  BY DEF RollBack
<1>2. TypeOK'
  BY <1>0, <1>1, EndsAtType DEF TypeOK, Position, Reply, database
<1>3. /\ OthersStand(d) /\ pc'[d] = "failed" /\ eventOf'[d] \in Event
      /\ BodiesStand
  BY <1>0, <1>1 DEF TypeOK, EndsAt, OthersStand, AccountInv, RowsAreSettled, BodiesStand,
       database
<1> QED
  BY <1>1, <1>2, <1>3, LetGo

\* A handler that takes a lock, or reads under one, with the conditions under
\* which the lock is granted and what is read is current.
LEMMA TakeLock ==
  ASSUME AccountInv, TypeOK', UNCHANGED <<database, eventOf>>,
         NEW d \in Delivery, OthersStand(d),
         pc[d] \in {"inserting", "inserted", "locked"},
         pc'[d] \in {"inserted", "locked", "found"},
         pc[d] = "inserting" => ~ RawRowContended(d) /\ ~ Recorded(d),
         HoldsPayment(d)' =>
           /\ ~ PaymentContended(d)
           /\ work'[d].status = payStatus[PaymentOf(d)]
           /\ work'[d].status # Absent,
         NEW c, work'[d].case = c,
         pc'[d] = "found" /\ c # NoCase =>
           c \in Delivery /\ caseStatus[c] # NoCase /\ PaymentOf(c) = PaymentOf(d)
  PROVE  AccountInv'
<1>1. /\ rawEvents' = rawEvents /\ paymentEvents' = paymentEvents /\ caseStatus' = caseStatus
      /\ payStatus' = payStatus /\ payload' = payload /\ eventOf' = eventOf /\ BodiesStand
  BY DEF database, BodiesStand
<1>2. ASSUME NEW x \in Delivery
      PROVE  /\ Recorded(x)' <=> Recorded(x)
             /\ PaymentOf(x)' = PaymentOf(x)
  BY <1>1 DEF Recorded, PaymentOf, Body
<1>3. \A x \in Delivery \ {d} : pc'[x] = pc[x] /\ work'[x] = work[x]
  BY DEF OthersStand
<1>4. LocksAreExclusive'
  <2>1. ASSUME NEW x \in Delivery \ {d}, HoldsPayment(x)', HoldsPayment(d)'
        PROVE  PaymentOf(x)' # PaymentOf(d)'
    BY <1>2, <1>3, <2>1 DEF HoldsPayment, PaymentContended
  <2>2. ASSUME NEW x \in Delivery \ {d}, HoldsRawRow(x)', HoldsRawRow(d)'
        PROVE  eventOf'[x] # eventOf'[d]
    <3>1. HoldsRawRow(x)
      BY <1>3, <2>2 DEF HoldsRawRow
    <3>2. CASE pc[d] = "inserting"
      BY <1>1, <3>1, <3>2 DEF RawRowContended
    <3>3. CASE pc[d] \in {"inserted", "locked"}
      BY <1>1, <3>1, <3>3 DEF HoldsRawRow, AccountInv, LocksAreExclusive
    <3> QED
      BY <3>2, <3>3
  <2>3. ASSUME NEW x \in Delivery \ {d}, NEW y \in Delivery \ {d}, x # y
        PROVE  /\ HoldsPayment(x)' /\ HoldsPayment(y)' => PaymentOf(x)' # PaymentOf(y)'
               /\ HoldsRawRow(x)' /\ HoldsRawRow(y)' => eventOf'[x] # eventOf'[y]
    BY <1>1, <1>2, <1>3, <2>3
       DEF HoldsPayment, HoldsRawRow, AccountInv, LocksAreExclusive
  <2> QED
    BY <2>1, <2>2, <2>3 DEF LocksAreExclusive
<1>5. RowsAreSettled'
  <2>1. ASSUME NEW x \in Delivery
        PROVE  /\ pc'[x] # "idle" => eventOf'[x] \in Event
               /\ x \in rawEvents' \/ x \in paymentEvents' \/ caseStatus'[x] # NoCase
                    => pc'[x] = "replied"
    BY <1>1, <1>3 DEF AccountInv, RowsAreSettled
  <2>2. ASSUME NEW x \in Delivery
        PROVE  HoldsRawRow(x)' => ~ Recorded(x)'
    BY <1>2, <1>3 DEF HoldsRawRow, AccountInv, RowsAreSettled
  <2> QED
    BY <2>1, <2>2 DEF RowsAreSettled
<1>6. ReadsAreCurrent'
  <2>1. ASSUME NEW x \in Delivery \ {d}, HoldsPayment(x)'
        PROVE  /\ work'[x].status = payStatus'[PaymentOf(x)']
               /\ work'[x].status # Absent
               /\ pc'[x] = "found" /\ work'[x].case # NoCase =>
                    /\ caseStatus'[work'[x].case] # NoCase
                    /\ PaymentOf(work[x].case)' = PaymentOf(x)'
    <3>1. HoldsPayment(x) /\ pc'[x] = pc[x] /\ work'[x] = work[x]
      BY <1>3, <2>1 DEF HoldsPayment
    <3> QED
      BY <1>1, <3>1, ReadsStayCurrent
  <2>2. ASSUME HoldsPayment(d)'
        PROVE  /\ work'[d].status = payStatus'[PaymentOf(d)']
               /\ work'[d].status # Absent
    BY <1>1, <1>2, <2>2
  <2>3. ASSUME pc'[d] = "found", c # NoCase
        PROVE  /\ caseStatus'[work'[d].case] # NoCase
               /\ PaymentOf(work[d].case)' = PaymentOf(d)'
    <3>1. c \in Delivery /\ PaymentOf(c)' = PaymentOf(d)'
      BY <1>2, <2>3
    <3>2. PaymentOf(work[d].case)' = PaymentOf(c)'
      BY DEF PaymentOf, Body
    <3> QED
      BY <1>1, <2>3, <3>1, <3>2
  <2> QED
    BY <2>1, <2>2, <2>3 DEF ReadsAreCurrent, HoldsPayment
<1>7. AcknowledgedIsRecorded'
  BY <1>2, <1>3 DEF AccountInv, AcknowledgedIsRecorded
<1> QED
  BY <1>1, <1>4, <1>5, <1>6, <1>7, QuietDatabase DEF AccountInv

\* What a commit's new rows do to the relations between rows and handlers that
\* every commit has to keep: d's row becomes visible, its locks are freed.
LEMMA CommitFreesLocks ==
  ASSUME AccountInv, NEW d \in Delivery, OthersStand(d), UNCHANGED <<payload, eventOf>>,
         HoldsRawRow(d), pc'[d] = "replied",
         rawEvents' = rawEvents \cup {d},
         paymentEvents' \subseteq paymentEvents \cup {d},
         \A x \in Delivery \ {d} : caseStatus[x] = NoCase => caseStatus'[x] = NoCase
  PROVE  /\ LocksAreExclusive'
         /\ RowsAreSettled'
         /\ EventRecordedOnce'
         /\ AcknowledgedIsRecorded'
<1>1. \A x \in Delivery \ {d} : pc'[x] = pc[x]
  BY DEF OthersStand
<1>2. \A x \in Delivery : (HoldsRawRow(x)' => x # d /\ HoldsRawRow(x))
                        /\ (HoldsPayment(x)' => x # d /\ HoldsPayment(x))
  BY <1>1 DEF HoldsRawRow, HoldsPayment
<1>3. \A x \in Delivery : PaymentOf(x)' = PaymentOf(x)
  BY DEF PaymentOf, Body
<1>4. LocksAreExclusive'
  BY <1>2, <1>3 DEF AccountInv, LocksAreExclusive
<1>5. \A x \in Delivery : Recorded(x)' <=> Recorded(x) \/ eventOf[d] = eventOf[x]
  BY DEF Recorded
<1>6. RowsAreSettled'
  <2>1. ASSUME NEW x \in Delivery
        PROVE  /\ pc'[x] # "idle" => eventOf'[x] \in Event
               /\ x \in rawEvents' \/ x \in paymentEvents' \/ caseStatus'[x] # NoCase
                    => pc'[x] = "replied"
    BY <1>1 DEF HoldsRawRow, AccountInv, RowsAreSettled
  <2>2. ASSUME NEW x \in Delivery, HoldsRawRow(x)'
        PROVE  ~ Recorded(x)'
    BY <1>2, <1>5, <2>2 DEF AccountInv, RowsAreSettled, LocksAreExclusive
  <2> QED
    BY <2>1, <2>2 DEF RowsAreSettled
<1>7. EventRecordedOnce'
  <2>1. ~ Recorded(d)
    BY DEF AccountInv, RowsAreSettled
  <2> QED
    BY <2>1 DEF Recorded, AccountInv, EventRecordedOnce
<1>8. AcknowledgedIsRecorded'
  BY <1>1, <1>5 DEF AccountInv, AcknowledgedIsRecorded
<1> QED
  BY <1>4, <1>6, <1>7, <1>8

\* A transaction that commits nothing but the raw event.
LEMMA RawOnlyKeepsAccount ==
  ASSUME AccountInv, NEW d \in Delivery, NEW answer \in Reply,
         pc[d] = "inserted", CommitRawOnly(d, answer)
  PROVE  AccountInv'
<1>0. TypeOK
  BY DEF AccountInv
<1>1. /\ paymentEvents' = paymentEvents /\ caseStatus' = caseStatus
      /\ payStatus' = payStatus /\ payload' = payload /\ eventOf' = eventOf
      /\ rawEvents' = rawEvents \cup {d} /\ audit' = audit /\ crashes' = crashes
      /\ BodiesStand
  BY DEF CommitRawOnly, BodiesStand
<1>2. EndsAt(d, "replied", answer)
  BY DEF CommitRawOnly
<1>3. TypeOK'
  BY <1>0, <1>1, <1>2, EndsAtType DEF TypeOK, Position
<1>4. OthersStand(d) /\ pc'[d] = "replied"
  BY <1>0, <1>1, <1>2 DEF TypeOK, EndsAt, OthersStand
<1>5. HoldsRawRow(d)
  BY DEF HoldsRawRow
<1>6. /\ LocksAreExclusive' /\ RowsAreSettled'
      /\ EventRecordedOnce' /\ AcknowledgedIsRecorded'
  BY <1>1, <1>4, <1>5, CommitFreesLocks
<1>7. HistoryIsKnown'
  BY <1>1 DEF AccountInv, HistoryIsKnown, PaymentOf, Body
<1>8. ReadsAreCurrent'
  <2>1. ASSUME NEW x \in Delivery, HoldsPayment(x)'
        PROVE  HoldsPayment(x) /\ pc'[x] = pc[x] /\ work'[x] = work[x]
    BY <1>4, <2>1 DEF HoldsPayment, OthersStand
  <2> QED
    BY <1>1, <2>1, ReadsStayCurrent DEF ReadsAreCurrent, HoldsPayment
<1> QED
  BY <1>3, <1>6, <1>7, <1>8 DEF AccountInv

\* A payment that becomes known has no history and no handler has locked it.
LEMMA RegisterKeepsAccount ==
  ASSUME AccountInv, NEW p \in Payment, NEW status \in PaymentStatus,
         RegisterPayment(p, status)
  PROVE  AccountInv'
<1>0. TypeOK
  BY DEF AccountInv
<1>1. /\ payStatus[p] = Absent
      /\ payStatus' = [payStatus EXCEPT ![p] = status]
      /\ UNCHANGED <<payload, rawEvents, paymentEvents, caseStatus, audit,
                     pc, eventOf, work, reply, crashes>>
      /\ BodiesStand
  BY DEF RegisterPayment, handlers, BodiesStand
<1>2. TypeOK'
  BY <1>0, <1>1 DEF TypeOK
<1>3. \A q \in Payment : payStatus[q] # Absent => payStatus'[q] = payStatus[q]
  BY <1>0, <1>1 DEF TypeOK
<1>4. LocksAreExclusive' /\ RowsAreSettled' /\ EventRecordedOnce' /\ AcknowledgedIsRecorded'
  BY <1>1 DEF AccountInv, LocksAreExclusive, RowsAreSettled, EventRecordedOnce,
       AcknowledgedIsRecorded, HoldsPayment, HoldsRawRow, Recorded, PaymentOf, Body
<1>5. HistoryIsKnown'
  <2> SUFFICES ASSUME NEW x \in Delivery, x \in paymentEvents \/ caseStatus[x] # NoCase
               PROVE  payStatus'[PaymentOf(x)'] # Absent
    BY <1>1 DEF HistoryIsKnown
  <2>1. PaymentOf(x)' = PaymentOf(x) /\ PaymentOf(x) \in Payment
    BY <1>1, RowsKeepTheirBody
  <2>2. payStatus[PaymentOf(x)] # Absent
    BY DEF AccountInv, HistoryIsKnown
  <2> QED
    BY <1>3, <2>1, <2>2
<1>6. ReadsAreCurrent'
  <2>1. ASSUME NEW x \in Delivery, HoldsPayment(x)
        PROVE  payStatus'[PaymentOf(x)] = payStatus[PaymentOf(x)]
    <3>1. PaymentOf(x) \in Payment
      BY <1>0, <2>1, BodyType DEF HoldsPayment, AccountInv, RowsAreSettled
    <3>2. payStatus[PaymentOf(x)] # Absent
      BY <2>1 DEF AccountInv, ReadsAreCurrent
    <3> QED
      BY <1>3, <3>1, <3>2
  <2> QED
    BY <1>1, <2>1, ReadsStayCurrent DEF ReadsAreCurrent, HoldsPayment
<1> QED
  BY <1>2, <1>4, <1>5, <1>6 DEF AccountInv

-----------------------------------------------------------------------------
(***************************************************************************)
(* The commit of a handler that reached its decision.                      *)
(***************************************************************************)
\* Where the payment stands after the commit of d: its new status is the effective
\* one, on which the choice of the branch was made.
LEMMA CommitEffect ==
  ASSUME AccountInv, NEW d \in Delivery, Commit(d)
  PROVE  /\ PaymentOf(d) \in Payment
         /\ EffectiveStatus(d) \in PaymentStatus
         /\ payStatus' = [payStatus EXCEPT ![PaymentOf(d)] = EffectiveStatus(d)]
         /\ payStatus[PaymentOf(d)] = "CAPTURED" => EffectiveStatus(d) = "CAPTURED"
         /\ work[d].case \in Delivery \cup {NoCase}
         /\ work[d].case # NoCase => /\ work[d].case \in Delivery
                                     /\ caseStatus[work[d].case] \in CaseStatus
                                     /\ PaymentOf(work[d].case) = PaymentOf(d)
         /\ caseStatus[d] = NoCase
         /\ d \notin paymentEvents
<1>0. TypeOK
  BY DEF AccountInv
<1>1. pc[d] = "found" /\ HoldsPayment(d) /\ eventOf[d] \in Event
  BY DEF Commit, HoldsPayment, AccountInv, RowsAreSettled
<1>2. PaymentOf(d) \in Payment /\ Target(d) \in PaymentStatus
  BY <1>0, <1>1, BodyType
<1>3. /\ work[d].status = payStatus[PaymentOf(d)]
      /\ work[d].status # Absent
      /\ work[d].case # NoCase => /\ caseStatus[work[d].case] # NoCase
                                  /\ PaymentOf(work[d].case) = PaymentOf(d)
  BY <1>1 DEF AccountInv, ReadsAreCurrent
<1>4. work[d].status \in PaymentStatus /\ work[d].case \in Delivery \cup {NoCase}
  BY <1>0, <1>3 DEF TypeOK, Work
<1>5. EffectiveStatus(d) \in PaymentStatus
  BY <1>2, <1>4 DEF EffectiveStatus
<1>6. payStatus' = [payStatus EXCEPT ![PaymentOf(d)] = EffectiveStatus(d)]
  BY <1>0, <1>2, <1>3 DEF TypeOK, Commit, EffectiveStatus
<1>7. payStatus[PaymentOf(d)] = "CAPTURED" => EffectiveStatus(d) = "CAPTURED"
  <2>1. "CAPTURED" \in PaymentStatus /\ PaymentMoves["CAPTURED"] = {}
    BY DEF PaymentMoves, PaymentStatus
  <2> QED
    BY <1>3, <2>1 DEF EffectiveStatus, Applies, MayMovePayment
<1>8. caseStatus[d] = NoCase /\ d \notin paymentEvents
  BY <1>1 DEF AccountInv, RowsAreSettled
<1>9. work[d].case # NoCase => work[d].case \in Delivery /\ caseStatus[work[d].case] \in CaseStatus
  BY <1>0, <1>3, <1>4 DEF TypeOK
<1> QED
  BY <1>2, <1>3, <1>4, <1>5, <1>6, <1>7, <1>8, <1>9

\* What a write to one case row does to the active cases of every payment.
LEMMA WriteCaseEffect ==
  ASSUME TypeOK, UNCHANGED <<payload, eventOf>>,
         NEW c \in Delivery, NEW from, NEW to \in CaseStatus, WriteCase(c, from, to)
  PROVE  /\ \A x \in Delivery \ {c} : caseStatus'[x] = caseStatus[x]
         /\ \A q : ActiveCases(q)' =
              IF q # PaymentOf(c) THEN ActiveCases(q)
              ELSE IF to \in ActiveCase THEN ActiveCases(q) \cup {c}
              ELSE ActiveCases(q) \ {c}
<1>1. \A x \in Delivery : PaymentOf(x)' = PaymentOf(x)
  BY DEF PaymentOf, Body
<1>2. \A x \in Delivery : caseStatus'[x] = IF x = c THEN to ELSE caseStatus[x]
  BY DEF TypeOK, WriteCase
<1>3. \A q : ActiveCases(q)' =
        {x \in Delivery : caseStatus'[x] \in ActiveCase /\ PaymentOf(x) = q}
  BY <1>1 DEF ActiveCases
<1> QED
  BY <1>2, <1>3 DEF ActiveCases

\* What the commit writes is one row at most, of a case of its payment.
LEMMA CommitWrites ==
  ASSUME AccountInv, NEW d \in Delivery, Commit(d)
  PROVE  \/ UNCHANGED <<caseStatus, audit>>
         \/ \E c \in Delivery, from \in CaseStatus \cup {NoCase}, to \in CaseStatus :
              /\ WriteCase(c, from, to)
              /\ PaymentOf(c) = PaymentOf(d)
              /\ c = d \/ caseStatus[c] # NoCase
<1> DEFINE c == work[d].case
           to == IF caseStatus[c] = "OBSERVING" THEN "RECOVERED" ELSE "STOPPED"
<1>1. c # NoCase => /\ c \in Delivery
                    /\ caseStatus[c] \in CaseStatus
                    /\ caseStatus[c] # NoCase
                    /\ PaymentOf(c) = PaymentOf(d)
  BY CommitEffect, StatusNotAbsent
<1>2. to \in CaseStatus /\ "NEW" \in CaseStatus
  BY DEF CaseStatus, TerminalCase, ActiveCase
<1>3. CASE CloseCase(d) /\ c # NoCase
  <2>1. WriteCase(c, caseStatus[c], to)
    BY <1>3 DEF CloseCase
  <2> HIDE DEF to
  <2> QED
    BY <1>1, <1>2, <1>3, <2>1
<1>4. CASE OpenCase(d) /\ c # NoCase
  <2>1. WriteCase(c, caseStatus[c], caseStatus[c])
    BY <1>4 DEF OpenCase
  <2> QED
    BY <1>1, <1>4, <2>1
<1>5. CASE OpenCase(d) /\ c = NoCase
  <2>1. WriteCase(d, NoCase, "NEW")
    BY <1>5 DEF OpenCase
  <2> QED
    BY <1>2, <2>1
<1>6. CASE UNCHANGED <<caseStatus, audit>>
  BY <1>6
<1> QED
  BY <1>3, <1>4, <1>5, <1>6 DEF Commit, CloseCase, OpenCase, KeepCase

\* So it keeps the cases there are, makes one at most, and leaves those of other
\* payments as they are.
LEMMA CommitKeepsCases ==
  ASSUME AccountInv, NEW d \in Delivery, Commit(d)
  PROVE  /\ caseStatus' \in [Delivery -> CaseStatus \cup {NoCase}]
         /\ audit' \in [Delivery -> Seq(AuditRow)]
         /\ \A x \in Delivery : caseStatus[x] # NoCase => caseStatus'[x] # NoCase
         /\ \A x \in Delivery \ {d} : caseStatus[x] = NoCase => caseStatus'[x] = NoCase
         /\ \A q : q # PaymentOf(d) => ActiveCases(q)' = ActiveCases(q)
<1>0. TypeOK /\ UNCHANGED <<payload, eventOf>>
  BY DEF AccountInv, Commit
<1>1. CASE UNCHANGED <<caseStatus, audit>>
  BY <1>0, <1>1 DEF TypeOK, ActiveCases, PaymentOf, Body
<1>2. ASSUME NEW c \in Delivery, NEW from \in CaseStatus \cup {NoCase}, NEW to \in CaseStatus,
             WriteCase(c, from, to), PaymentOf(c) = PaymentOf(d),
             c = d \/ caseStatus[c] # NoCase
      PROVE  /\ caseStatus' \in [Delivery -> CaseStatus \cup {NoCase}]
             /\ audit' \in [Delivery -> Seq(AuditRow)]
             /\ \A x \in Delivery : caseStatus[x] # NoCase => caseStatus'[x] # NoCase
             /\ \A x \in Delivery \ {d} : caseStatus[x] = NoCase => caseStatus'[x] = NoCase
             /\ \A q : q # PaymentOf(d) => ActiveCases(q)' = ActiveCases(q)
  <2>1. /\ caseStatus' \in [Delivery -> CaseStatus \cup {NoCase}]
        /\ audit' \in [Delivery -> Seq(AuditRow)]
    BY <1>0, <1>2, WriteCaseType
  <2>2. caseStatus'[c] = to /\ to # NoCase
    BY <1>0, <1>2, StatusNotAbsent DEF TypeOK, WriteCase
  <2>3. /\ \A x \in Delivery \ {c} : caseStatus'[x] = caseStatus[x]
        /\ \A q : q # PaymentOf(c) => ActiveCases(q)' = ActiveCases(q)
    BY <1>0, <1>2, WriteCaseEffect
  <2> QED
    BY <1>2, <2>1, <2>2, <2>3
<1> QED
  BY <1>1, <1>2, CommitWrites

LEMMA CommitKeepsAccount ==
  ASSUME AccountInv, NEW d \in Delivery, Commit(d)
  PROVE  AccountInv'
<1> DEFINE p == PaymentOf(d)
<1>0. TypeOK
  BY DEF AccountInv
<1>1. /\ pc[d] = "found"
      /\ rawEvents' = rawEvents \cup {d}
      /\ paymentEvents' = paymentEvents \cup {d}
      /\ UNCHANGED <<payload, eventOf, crashes>>
      /\ \E answer \in Reply : EndsAt(d, "replied", answer)
      /\ BodiesStand
  BY DEF Commit, Reply, BodiesStand
<1>2. /\ p \in Payment
      /\ EffectiveStatus(d) \in PaymentStatus
      /\ payStatus' = [payStatus EXCEPT ![p] = EffectiveStatus(d)]
  BY CommitEffect
<1>3. /\ caseStatus' \in [Delivery -> CaseStatus \cup {NoCase}]
      /\ audit' \in [Delivery -> Seq(AuditRow)]
      /\ \A x \in Delivery : caseStatus[x] # NoCase => caseStatus'[x] # NoCase
      /\ \A x \in Delivery \ {d} : caseStatus[x] = NoCase => caseStatus'[x] = NoCase
  BY CommitKeepsCases
<1>4. TypeOK'
  <2>1. /\ pc' \in [Delivery -> Position]
        /\ reply' \in [Delivery -> Reply]
        /\ work' \in [Delivery -> Work]
    BY <1>0, <1>1, EndsAtType DEF Position
  <2> QED
    BY <1>0, <1>1, <1>2, <1>3, <2>1 DEF TypeOK
<1>5. OthersStand(d) /\ pc'[d] = "replied"
  BY <1>0, <1>1 DEF TypeOK, EndsAt, OthersStand
<1>6. HoldsRawRow(d) /\ HoldsPayment(d)
  BY <1>1 DEF HoldsRawRow, HoldsPayment
<1>7. /\ LocksAreExclusive' /\ RowsAreSettled'
      /\ EventRecordedOnce' /\ AcknowledgedIsRecorded'
  BY <1>1, <1>3, <1>5, <1>6, CommitFreesLocks
<1>8. \A q \in Payment \ {p} : payStatus'[q] = payStatus[q]
  BY <1>0, <1>2 DEF TypeOK
<1>9. HistoryIsKnown'
  <2> SUFFICES ASSUME NEW x \in Delivery, x \in paymentEvents' \/ caseStatus'[x] # NoCase
               PROVE  payStatus'[PaymentOf(x)] # Absent
    BY <1>1 DEF HistoryIsKnown, PaymentOf, Body
  <2>1. CASE PaymentOf(x) = p
    <3>1. payStatus'[p] = EffectiveStatus(d)
      BY <1>0, <1>2 DEF TypeOK
    <3> QED
      BY <1>2, <2>1, <3>1, StatusNotAbsent
  <2>2. CASE PaymentOf(x) # p
    <3>1. x \in paymentEvents \/ caseStatus[x] # NoCase
      BY <1>1, <1>3, <2>2
    <3>2. PaymentOf(x) \in Payment
      BY <1>1, <3>1, RowsKeepTheirBody
    <3> QED
      BY <1>8, <2>2, <3>1, <3>2 DEF AccountInv, HistoryIsKnown
  <2> QED
    BY <2>1, <2>2
<1>10. ReadsAreCurrent'
  <2>1. ASSUME NEW x \in Delivery, HoldsPayment(x)'
        PROVE  /\ HoldsPayment(x) /\ pc'[x] = pc[x] /\ work'[x] = work[x]
               /\ payStatus'[PaymentOf(x)] = payStatus[PaymentOf(x)]
    <3>1. x # d /\ HoldsPayment(x) /\ pc'[x] = pc[x] /\ work'[x] = work[x]
      BY <1>5, <2>1 DEF HoldsPayment, OthersStand
    <3>2. PaymentOf(x) # p
      BY <1>6, <3>1 DEF AccountInv, LocksAreExclusive
    <3>3. PaymentOf(x) \in Payment
      BY <1>0, <3>1, BodyType DEF HoldsPayment, AccountInv, RowsAreSettled
    <3> QED
      BY <1>8, <3>1, <3>2, <3>3
  <2> QED
    BY <1>1, <1>3, <2>1, ReadsStayCurrent DEF ReadsAreCurrent, HoldsPayment
<1> QED
  BY <1>4, <1>7, <1>9, <1>10 DEF AccountInv

-----------------------------------------------------------------------------
(***************************************************************************)
(* Events and payments, one step per action.                               *)
(***************************************************************************)
LEMMA AccountStep == AccountInv /\ [Next]_vars => AccountInv'
<1> SUFFICES ASSUME AccountInv, [Next]_vars
             PROVE  AccountInv'
  OBVIOUS
<1>0. TypeOK
  BY DEF AccountInv
<1>1. ASSUME Next, NEW d \in Delivery, NEW e \in Event, Deliver(d, e)
      PROVE  AccountInv'
  <2>1. /\ OthersStand(d) /\ UNCHANGED database /\ BodiesStand
        /\ pc[d] = "idle" /\ eventOf'[d] = e
        /\ pc'[d] \in {"checking", "failed"}
    BY <1>0, <1>1, Frame DEF TypeOK, Deliver, FirstPosition, OthersStand
  <2>2. TypeOK'
    BY <1>0, <1>1 DEF TypeOK, Deliver, FirstPosition, Position, database
  <2> QED
    BY <2>1, <2>2, LetGo
<1>2. ASSUME Next, NEW d \in Delivery, Retry(d)
      PROVE  AccountInv'
  <2>1. /\ OthersStand(d) /\ UNCHANGED database /\ BodiesStand
        /\ pc[d] = "failed" /\ eventOf'[d] \in Event
        /\ pc'[d] \in {"checking", "failed"}
    BY <1>0, <1>2, Frame
       DEF TypeOK, Retry, FirstPosition, OthersStand, AccountInv, RowsAreSettled
  <2>2. TypeOK'
    BY <1>0, <1>2 DEF TypeOK, Retry, FirstPosition, Position, database
  <2> QED
    BY <2>1, <2>2, LetGo
<1>3. ASSUME NEW d \in Delivery, UNCHANGED <<database, eventOf, crashes>>,
             EndsAt(d, "replied", "DUPLICATE"), Recorded(d),
             pc[d] \in {"checking", "inserting"}
      PROVE  AccountInv'
  <2>1. TypeOK'
    BY <1>0, <1>3, EndsAtType DEF TypeOK, Position, Reply, database
  <2>2. /\ OthersStand(d) /\ pc'[d] = "replied" /\ eventOf'[d] \in Event /\ BodiesStand
    BY <1>0, <1>3
       DEF TypeOK, EndsAt, OthersStand, AccountInv, RowsAreSettled, BodiesStand, database
  <2> QED
    BY <1>3, <2>1, <2>2, LetGo
<1>4. ASSUME Next, NEW d \in Delivery, FindRaw(d)
      PROVE  AccountInv'
  <2>1. CASE Recorded(d)
    BY <1>3, <1>4, <2>1 DEF FindRaw
  <2>2. CASE ~ Recorded(d)
    <3>1. /\ OthersStand(d) /\ UNCHANGED database /\ BodiesStand
          /\ pc[d] = "checking" /\ pc'[d] = "inserting" /\ eventOf'[d] \in Event
      BY <1>0, <1>4, <2>2, Frame DEF TypeOK, FindRaw, OthersStand, AccountInv, RowsAreSettled
    <3>2. TypeOK'
      BY <1>0, <1>4, <2>2 DEF TypeOK, FindRaw, Position, database
    <3> QED
      BY <3>1, <3>2, LetGo
  <2> QED
    BY <2>1, <2>2
<1>5. ASSUME NEW d \in Delivery, InsertRaw(d)
      PROVE  AccountInv'
  <2>1. CASE Recorded(d)
    BY <1>3, <1>5, <2>1 DEF InsertRaw
  <2>2. CASE ~ Recorded(d)
    <3>1. /\ OthersStand(d) /\ UNCHANGED <<database, eventOf>>
          /\ pc[d] = "inserting" /\ pc'[d] = "inserted" /\ ~ RawRowContended(d)
      BY <1>0, <1>5, <2>2 DEF TypeOK, InsertRaw, OthersStand
    <3>2. TypeOK'
      BY <1>0, <1>5, <2>2 DEF TypeOK, InsertRaw, Position, database
    <3>3. ~ HoldsPayment(d)' /\ pc'[d] # "found"
      BY <3>1 DEF HoldsPayment
    <3> QED
      BY <2>2, <3>1, <3>2, <3>3, TakeLock
  <2> QED
    BY <2>1, <2>2
<1>6. ASSUME NEW d \in Delivery, IgnoreUnsupported(d) \/ LeaveUnresolved(d)
      PROVE  AccountInv'
  BY <1>6, RawOnlyKeepsAccount DEF IgnoreUnsupported, LeaveUnresolved, Reply
<1>7. ASSUME NEW d \in Delivery, LockPayment(d)
      PROVE  AccountInv'
  <2>1. PaymentOf(d) \in Payment
    BY <1>0, <1>7, BodyType DEF LockPayment, AccountInv, RowsAreSettled
  <2>2. /\ OthersStand(d) /\ UNCHANGED <<database, eventOf>>
        /\ pc[d] = "inserted" /\ pc'[d] = "locked"
        /\ ~ PaymentContended(d)
        /\ work'[d].status = payStatus[PaymentOf(d)]
        /\ work'[d].status # Absent
    BY <1>0, <1>7 DEF TypeOK, LockPayment, OthersStand
  <2>3. TypeOK'
    <3> DEFINE read == [status |-> payStatus[PaymentOf(d)],
                        late   |-> \E x \in History(PaymentOf(d)) : Body(d).time < Body(x).time,
                        case   |-> NoCase]
    <3>1. read \in Work
      BY <1>0, <2>1 DEF TypeOK, Work
    <3>2. work' = [work EXCEPT ![d] = read]
      BY <1>7 DEF LockPayment
    <3> HIDE DEF read
    <3> QED
      BY <1>0, <1>7, <3>1, <3>2 DEF TypeOK, LockPayment, Position, database
  <2> QED
    BY <2>2, <2>3, TakeLock
<1>8. ASSUME NEW d \in Delivery, FindActiveCase(d)
      PROVE  AccountInv'
  <2> DEFINE active == ActiveCases(PaymentOf(d))
             found == IF active = {} THEN NoCase ELSE CHOOSE c \in active : TRUE
  <2>1. found # NoCase =>
          found \in Delivery /\ caseStatus[found] # NoCase /\ PaymentOf(found) = PaymentOf(d)
    BY StatusNotAbsent DEF ActiveCases
  <2>2. work' = [work EXCEPT ![d].case = found]
    BY <1>8 DEF FindActiveCase
  <2> HIDE DEF found, active
  <2>3. /\ pc[d] = "locked" /\ pc' = [pc EXCEPT ![d] = "found"]
        /\ UNCHANGED <<database, eventOf, reply, crashes>>
    BY <1>8 DEF FindActiveCase
  <2>4. TypeOK'
    BY <1>0, <2>1, <2>2, <2>3 DEF TypeOK, Work, Position, database
  <2>5. /\ OthersStand(d) /\ pc'[d] = "found"
        /\ work'[d].case = found /\ work'[d].status = work[d].status
    BY <1>0, <2>2, <2>3 DEF TypeOK, Work, OthersStand
  <2>6. /\ work[d].status = payStatus[PaymentOf(d)] /\ work[d].status # Absent
        /\ ~ PaymentContended(d)
    BY <2>3 DEF HoldsPayment, AccountInv, ReadsAreCurrent, LocksAreExclusive, PaymentContended
  <2> QED
    BY <2>1, <2>3, <2>4, <2>5, <2>6, TakeLock
<1>9. ASSUME NEW d \in Delivery, RejectEntity(d) \/ RejectTimestamp(d) \/ Crash(d)
      PROVE  AccountInv'
  <2>1. /\ RollBack(d)
        /\ crashes' = crashes \/ (crashes < MaxCrashes /\ crashes' = crashes + 1)
        /\ pc[d] \notin {"idle", "replied"}
    BY <1>9 DEF RejectEntity, RejectTimestamp, Crash
  <2>2. crashes' \in 0 .. MaxCrashes
    BY <1>0, <2>1, CrashAssumption DEF TypeOK
  <2> QED
    BY <2>1, <2>2, RollBackKeepsAccount
<1>10. CASE UNCHANGED vars
  <2>1. TypeOK'
    BY <1>0, <1>10 DEF vars, TypeOK
  <2>2. LocksAreExclusive' /\ RowsAreSettled' /\ AcknowledgedIsRecorded'
    BY <1>10 DEF vars, AccountInv, LocksAreExclusive, RowsAreSettled, AcknowledgedIsRecorded,
         HoldsPayment, HoldsRawRow, Recorded, PaymentOf, Body
  <2>3. EventRecordedOnce' /\ HistoryIsKnown' /\ ReadsAreCurrent'
    BY <1>10 DEF vars, AccountInv, EventRecordedOnce, HistoryIsKnown, ReadsAreCurrent,
         HoldsPayment, PaymentOf, Body
  <2> QED
    BY <2>1, <2>2, <2>3 DEF AccountInv
<1> QED
  BY <1>1, <1>2, <1>4, <1>5, <1>6, <1>7, <1>8, <1>9, <1>10, CommitKeepsAccount,
     RegisterKeepsAccount
     DEF Next, Handle

LEMMA AccountInit == Init => AccountInv
<1> SUFFICES ASSUME Init PROVE AccountInv
  OBVIOUS
<1>1. TypeOK
  BY CrashAssumption DEF Init, TypeOK, Position, Reply, Work, NoWork
<1>2. LocksAreExclusive /\ RowsAreSettled
  BY DEF Init, LocksAreExclusive, RowsAreSettled, HoldsPayment, HoldsRawRow
<1>3. HistoryIsKnown /\ ReadsAreCurrent
  BY DEF Init, HistoryIsKnown, ReadsAreCurrent, HoldsPayment
<1>4. EventRecordedOnce /\ AcknowledgedIsRecorded
  BY DEF Init, EventRecordedOnce, AcknowledgedIsRecorded
<1> QED
  BY <1>1, <1>2, <1>3, <1>4 DEF AccountInv

-----------------------------------------------------------------------------
(***************************************************************************)
(* The cases of a payment, and the inductive step for one payment's cases. *)
(***************************************************************************)
\* The three branches of the orchestrator, by what they do to the active cases
\* of the payment, which are those in after from then on.
CasesFollow(d, after) ==
  \/ EffectiveStatus(d) = "CAPTURED" /\ after = {}
  \/ /\ EffectiveStatus(d) # "CAPTURED"
     /\ Body(d).type = "payment.failed"
     /\ \E c \in Delivery : after = {c}
  \/ /\ EffectiveStatus(d) # "CAPTURED"
     /\ Body(d).type # "payment.failed"
     /\ after = ActiveCases(PaymentOf(d))

\* A handler that locks the active case it has found knows of all there are.
LEMMA CommitCases ==
  ASSUME AccountInv, NEW d \in Delivery, Commit(d), CasesInOrder(PaymentOf(d))
  PROVE  \A q : q = PaymentOf(d) => CasesFollow(d, ActiveCases(q)')
<1> DEFINE p == PaymentOf(d)
           c == work[d].case
<1>0. TypeOK /\ pc[d] = "found" /\ UNCHANGED <<payload, eventOf>>
  BY DEF AccountInv, Commit
<1>1. /\ c # NoCase => /\ c \in Delivery
                       /\ caseStatus[c] \in CaseStatus
                       /\ PaymentOf(c) = p
      /\ c \in Delivery \cup {NoCase}
  BY CommitEffect
<1>2. ClosesCase(d) \/ OpensCase(d) => ActiveCases(p) = {c} \ {NoCase}
  BY <1>0 DEF CasesInOrder
<1>3. UNCHANGED <<caseStatus, audit>> => \A q : ActiveCases(q)' = ActiveCases(q)
  BY <1>0 DEF ActiveCases, PaymentOf, Body
<1>4. CASE CloseCase(d)
  <2>0. EffectiveStatus(d) = "CAPTURED" /\ ActiveCases(p) = {c} \ {NoCase}
    BY <1>2, <1>4 DEF CloseCase, ClosesCase
  <2>1. CASE c = NoCase
    BY <1>3, <1>4, <2>0, <2>1 DEF CloseCase, CasesFollow
  <2>2. CASE c # NoCase
    <3> DEFINE to == IF caseStatus[c] = "OBSERVING" THEN "RECOVERED" ELSE "STOPPED"
    <3>1. WriteCase(c, caseStatus[c], to)
      BY <1>4, <2>2 DEF CloseCase
    <3>2. to \in CaseStatus /\ to \notin ActiveCase
      BY DEF CaseStatus, TerminalCase, ActiveCase
    <3> HIDE DEF to
    <3>3. \A q : q = p => ActiveCases(q)' = ActiveCases(q) \ {c}
      BY <1>0, <1>1, <2>2, <3>1, <3>2, WriteCaseEffect
    <3> QED
      BY <2>0, <3>3 DEF CasesFollow
  <2> QED
    BY <2>1, <2>2
<1>5. CASE OpenCase(d)
  <2>0. /\ EffectiveStatus(d) # "CAPTURED" /\ Body(d).type = "payment.failed"
        /\ ActiveCases(p) = {c} \ {NoCase}
    BY <1>2, <1>5 DEF OpenCase, OpensCase, ClosesCase
  <2>1. CASE c = NoCase
    <3>1. "NEW" \in CaseStatus /\ "NEW" \in ActiveCase /\ WriteCase(d, NoCase, "NEW")
      BY <1>5, <2>1 DEF OpenCase, CaseStatus, ActiveCase
    <3>2. \A q : q = p => ActiveCases(q)' = ActiveCases(q) \cup {d}
      BY <1>0, <3>1, WriteCaseEffect
    <3> QED
      BY <2>0, <2>1, <3>2 DEF CasesFollow
  <2>2. CASE c # NoCase
    <3>1. WriteCase(c, caseStatus[c], caseStatus[c]) /\ caseStatus[c] \in ActiveCase
      BY <1>5, <2>0, <2>2 DEF OpenCase, ActiveCases
    <3>2. \A q : q = p => ActiveCases(q)' = ActiveCases(q) \cup {c}
      BY <1>0, <1>1, <2>2, <3>1, WriteCaseEffect
    <3> QED
      BY <1>1, <2>0, <2>2, <3>2 DEF CasesFollow
  <2> QED
    BY <2>1, <2>2
<1>6. CASE KeepCase(d)
  BY <1>3, <1>6 DEF KeepCase, ClosesCase, OpensCase, CasesFollow
<1> QED
  BY <1>4, <1>5, <1>6 DEF Commit

\* A payment's cases stay in order under a step that leaves them and its status
\* alone, if each handler that has found its case has done so before or does so now.
LEMMA CasesStayInOrder ==
  ASSUME AccountInv, BodiesStand, NEW p \in Payment, CasesInOrder(p),
         payStatus'[p] = payStatus[p], ActiveCases(p)' = ActiveCases(p),
         \A x \in Delivery : pc'[x] = "found" =>
           \/ pc[x] = "found" /\ work'[x] = work[x]
           \/ pc[x] # "idle" /\ (PaymentOf(x) = p => ActiveCases(p) = {work'[x].case} \ {NoCase})
  PROVE  CasesInOrder(p)'
<1>1. ~ Ambiguous(p)'
  BY DEF CasesInOrder, Ambiguous
<1>2. ASSUME NEW x \in Delivery, pc'[x] = "found", PaymentOf(x)' = p,
             ClosesCase(x)' \/ OpensCase(x)'
      PROVE  ActiveCases(p) = {work'[x].case} \ {NoCase}
  <2>1. pc[x] # "idle"
    BY <1>2
  <2>2. /\ Body(x)' = Body(x) /\ PaymentOf(x)' = PaymentOf(x) /\ Target(x)' = Target(x)
        /\ PaymentOf(x) = p
    BY <1>2, <2>1, BodiesKept
  <2>3. CASE pc[x] = "found" /\ work'[x] = work[x]
    <3>1. Applies(x)' <=> Applies(x)
      BY <2>2, <2>3 DEF Applies
    <3>2. EffectiveStatus(x)' = EffectiveStatus(x)
      BY <2>2, <2>3, <3>1 DEF EffectiveStatus
    <3>3. ClosesCase(x) \/ OpensCase(x)
      BY <1>2, <2>2, <3>2 DEF ClosesCase, OpensCase
    <3> QED
      BY <2>2, <2>3, <3>3 DEF CasesInOrder
  <2> QED
    BY <1>2, <2>2, <2>3
<1> QED
  BY <1>1, <1>2 DEF CasesInOrder

\* One step per action, for one payment.
LEMMA CasesStep ==
  ASSUME AccountInv, Next, NEW p \in Payment, CasesInOrder(p)
  PROVE  CasesInOrder(p)'
<1>0. TypeOK /\ BodiesStand
  BY Frame DEF AccountInv
<1>1. ASSUME UNCHANGED <<payStatus, caseStatus>>,
             \A x \in Delivery : pc'[x] = "found" => pc[x] = "found" /\ work'[x] = work[x]
      PROVE  CasesInOrder(p)'
  BY <1>0, <1>1, ActiveCasesStand, CasesStayInOrder
<1>2. ASSUME NEW d \in Delivery, NEW e \in Event, Deliver(d, e)
      PROVE  CasesInOrder(p)'
  BY <1>0, <1>1, <1>2 DEF TypeOK, Deliver, FirstPosition, database
<1>3. ASSUME NEW d \in Delivery,
             \/ Retry(d) \/ FindRaw(d) \/ InsertRaw(d) \/ IgnoreUnsupported(d)
             \/ LeaveUnresolved(d) \/ RejectEntity(d) \/ LockPayment(d)
             \/ RejectTimestamp(d) \/ Crash(d)
      PROVE  CasesInOrder(p)'
  <2>1. UNCHANGED <<payStatus, caseStatus>>
    BY <1>3
       DEF Retry, FindRaw, InsertRaw, IgnoreUnsupported, LeaveUnresolved, CommitRawOnly,
           RejectEntity, LockPayment, RejectTimestamp, Crash, RollBack, database
  <2>2. pc'[d] # "found"
        /\ \A x \in Delivery \ {d} : pc'[x] = pc[x] /\ work'[x] = work[x]
    BY <1>0, <1>3
       DEF TypeOK, Retry, FirstPosition, FindRaw, InsertRaw, IgnoreUnsupported,
           LeaveUnresolved, CommitRawOnly, RejectEntity, LockPayment, RejectTimestamp, Crash,
           RollBack, EndsAt
  <2> QED
    BY <1>1, <2>1, <2>2
<1>4. ASSUME NEW d \in Delivery, FindActiveCase(d)
      PROVE  CasesInOrder(p)'
  <2> DEFINE active == ActiveCases(PaymentOf(d))
             found == IF active = {} THEN NoCase ELSE CHOOSE c \in active : TRUE
  <2>1. active = {found} \ {NoCase}
    <3>1. NoCase \notin active
      BY NoCaseAssumption DEF ActiveCases
    <3>2. \A c1, c2 \in active : c1 = c2
      BY <1>4 DEF FindActiveCase, Ambiguous
    <3> HIDE DEF active
    <3>3. active # {} => found \in active
      BY DEF found
    <3> QED
      BY <3>1, <3>2, <3>3 DEF found
  <2>2. work' = [work EXCEPT ![d].case = found]
    BY <1>4 DEF FindActiveCase
  <2> HIDE DEF found
  <2>3. /\ pc[d] = "locked" /\ work'[d].case = found
        /\ \A x \in Delivery \ {d} : pc'[x] = pc[x] /\ work'[x] = work[x]
        /\ UNCHANGED <<payStatus, caseStatus>>
    BY <1>0, <1>4, <2>2 DEF TypeOK, Work, FindActiveCase, database
  <2> QED
    BY <1>0, <2>1, <2>3, ActiveCasesStand, CasesStayInOrder
<1>5. ASSUME NEW d \in Delivery, Commit(d)
      PROVE  CasesInOrder(p)'
  <2>1. /\ pc'[d] = "replied" /\ HoldsPayment(d) /\ UNCHANGED <<payload, eventOf>>
        /\ \A x \in Delivery \ {d} : pc'[x] = pc[x] /\ work'[x] = work[x]
    BY <1>0, <1>5 DEF TypeOK, Commit, EndsAt, HoldsPayment
  <2>2. PICK q \in Payment : q = PaymentOf(d)
    BY <1>5, CommitEffect
  <2>3. payStatus' = [payStatus EXCEPT ![q] = EffectiveStatus(d)]
    BY <1>5, <2>2, CommitEffect
  <2>4. CASE p # q
    <3>1. payStatus'[p] = payStatus[p] /\ ActiveCases(p)' = ActiveCases(p)
      BY <1>0, <1>5, <2>2, <2>3, <2>4, CommitKeepsCases DEF TypeOK
    <3> QED
      BY <1>0, <2>1, <3>1, CasesStayInOrder
  <2>5. CASE p = q
    <3>1. CasesFollow(d, ActiveCases(p)') /\ payStatus'[p] = EffectiveStatus(d)
      BY <1>0, <1>5, <2>2, <2>3, <2>5, CommitCases DEF TypeOK
    <3>2. ~ Ambiguous(p)' /\ (payStatus'[p] = "CAPTURED" => ActiveCases(p)' = {})
      <4>1. \A c1, c2 \in ActiveCases(p) : c1 = c2
        BY DEF CasesInOrder, Ambiguous
      <4>2. \A c1, c2 \in ActiveCases(p)' : c1 = c2
        BY <2>2, <2>5, <3>1, <4>1 DEF CasesFollow
      <4> QED
        BY <3>1, <4>2 DEF CasesFollow, Ambiguous
    <3>3. ASSUME NEW x \in Delivery, pc'[x] = "found", PaymentOf(x)' = p
          PROVE  FALSE
      <4>1. x # d /\ HoldsPayment(x) /\ PaymentOf(x) = p
        BY <2>1, <3>3 DEF HoldsPayment, PaymentOf, Body
      <4> QED
        BY <2>1, <2>2, <2>5, <4>1 DEF AccountInv, LocksAreExclusive
    <3> QED
      BY <3>2, <3>3 DEF CasesInOrder
  <2> QED
    BY <2>4, <2>5
<1>6. ASSUME NEW q \in Payment, NEW s \in PaymentStatus, RegisterPayment(q, s)
      PROVE  CasesInOrder(p)'
  <2>1. /\ payStatus[q] = Absent /\ payStatus' = [payStatus EXCEPT ![q] = s]
        /\ UNCHANGED <<payload, caseStatus, pc, eventOf, work>>
    BY <1>6 DEF RegisterPayment, handlers
  <2>2. CASE p # q
    <3>1. payStatus'[p] = payStatus[p]
      BY <1>0, <2>1, <2>2 DEF TypeOK
    <3> QED
      BY <1>0, <2>1, <3>1, ActiveCasesStand, CasesStayInOrder
  <2>3. CASE p = q
    <3>1. ActiveCases(p) = {}
      BY <2>1, <2>3, StatusNotAbsent DEF ActiveCases, AccountInv, HistoryIsKnown
    <3>2. ActiveCases(p)' = {}
      BY <1>0, <2>1, <3>1, ActiveCasesStand
    <3>3. \A x \in Delivery : pc[x] = "found" => PaymentOf(x) # p
      BY <2>1, <2>3 DEF AccountInv, ReadsAreCurrent, HoldsPayment
    <3>4. \A x \in Delivery : pc'[x] = "found" => PaymentOf(x)' # p
      BY <2>1, <3>3 DEF PaymentOf, Body
    <3> QED
      BY <3>2, <3>4 DEF CasesInOrder, Ambiguous
  <2> QED
    BY <2>2, <2>3
<1> QED
  BY <1>2, <1>3, <1>4, <1>5, <1>6 DEF Next, Handle

-----------------------------------------------------------------------------
(***************************************************************************)
(* The invariant of the intake: recovery follows the payment.              *)
(***************************************************************************)
LEMMA RecoveryStands ==
  ASSUME AccountInv, BodiesStand, RecoveryTracksPayment,
         UNCHANGED <<paymentEvents, caseStatus>>,
         \A p \in Payment : ActiveCases(p) # {} \/ History(p) # {} => payStatus'[p] = payStatus[p]
  PROVE  RecoveryTracksPayment'
<1>1. \A p \in Payment : /\ ActiveCases(p)' = ActiveCases(p)
                         /\ History(p)' = History(p)
                         /\ \A x \in History(p) : Body(x)' = Body(x)
  BY ActiveCasesStand, HistoryStands
<1> QED
  BY <1>1 DEF RecoveryTracksPayment

LEMMA CommitKeepsRecovery ==
  ASSUME IntakeInv, NEW d \in Delivery, Commit(d)
  PROVE  RecoveryTracksPayment'
<1>0. AccountInv /\ TypeOK /\ paymentEvents \subseteq Delivery /\ UNCHANGED <<payload, eventOf>>
  BY DEF IntakeInv, AccountInv, TypeOK, Commit
<1>1. PICK p \in Payment : p = PaymentOf(d)
  BY <1>0, CommitEffect
<1>2. /\ payStatus' = [payStatus EXCEPT ![p] = EffectiveStatus(d)]
      /\ payStatus[p] = "CAPTURED" => EffectiveStatus(d) = "CAPTURED"
      /\ CasesFollow(d, ActiveCases(p)')
      /\ \A q : q # p => ActiveCases(q)' = ActiveCases(q)
  BY <1>0, <1>1, CommitEffect, CommitCases, CommitKeepsCases DEF IntakeInv
<1>3. \A q : History(q)' = IF q = p THEN History(q) \cup {d} ELSE History(q)
  BY <1>0, <1>1 DEF History, Commit, PaymentOf, Body
<1>4. \A x \in Delivery : Body(x)' = Body(x)
  BY <1>0 DEF Body
<1>5. \A q : History(q) \subseteq Delivery
  BY <1>0 DEF History
<1> SUFFICES ASSUME NEW q \in Payment
             PROVE  ActiveCases(q)' # {} <=>
                      /\ \E x \in History(q)' : Body(x)'.type = "payment.failed"
                      /\ payStatus'[q] # "CAPTURED"
  BY DEF RecoveryTracksPayment
<1>6. ActiveCases(q) # {} <=>
        /\ \E x \in History(q) : Body(x).type = "payment.failed"
        /\ payStatus[q] # "CAPTURED"
  BY DEF IntakeInv, RecoveryTracksPayment
<1>7. CASE q # p
  <2>1. payStatus'[q] = payStatus[q] /\ ActiveCases(q)' = ActiveCases(q)
    BY <1>0, <1>2, <1>7 DEF TypeOK
  <2> QED
    BY <1>3, <1>4, <1>5, <1>6, <1>7, <2>1
<1>8. CASE q = p
  <2>1. payStatus'[q] = EffectiveStatus(d) /\ CasesFollow(d, ActiveCases(q)')
    BY <1>0, <1>2, <1>8 DEF TypeOK
  <2>2. (\E x \in History(q)' : Body(x)'.type = "payment.failed")
          <=> \/ \E x \in History(q) : Body(x).type = "payment.failed"
              \/ Body(d).type = "payment.failed"
    BY <1>3, <1>4, <1>5, <1>8
  <2>3. payStatus[q] = "CAPTURED" => EffectiveStatus(d) = "CAPTURED"
    BY <1>2, <1>8
  <2> QED
    BY <1>1, <1>6, <1>8, <2>1, <2>2, <2>3 DEF CasesFollow
<1> QED
  BY <1>7, <1>8

LEMMA IntakeStep == IntakeInv /\ [Next]_vars => IntakeInv'
<1> SUFFICES ASSUME IntakeInv, [Next]_vars
             PROVE  (\A p \in Payment : CasesInOrder(p)') /\ RecoveryTracksPayment'
  BY AccountStep DEF IntakeInv
<1>0. AccountInv /\ TypeOK /\ RecoveryTracksPayment
  BY DEF IntakeInv, AccountInv
<1>1. \A p \in Payment : CasesInOrder(p)'
  <2>1. CASE Next
    BY <1>0, <2>1, CasesStep DEF IntakeInv
  <2>2. CASE UNCHANGED vars
    BY <2>2 DEF vars, IntakeInv, CasesInOrder, Ambiguous, ActiveCases, ClosesCase, OpensCase,
         EffectiveStatus, Applies, Target, PaymentOf, Body
  <2> QED
    BY <2>1, <2>2
<1>2. RecoveryTracksPayment'
  <2>1. ASSUME Next, UNCHANGED <<payStatus, paymentEvents, caseStatus>>
        PROVE  RecoveryTracksPayment'
    BY <1>0, <2>1, Frame, RecoveryStands
  <2>2. ASSUME Next, NEW q \in Payment, NEW s \in PaymentStatus, RegisterPayment(q, s)
        PROVE  RecoveryTracksPayment'
    <3>1. /\ payStatus[q] = Absent /\ payStatus' = [payStatus EXCEPT ![q] = s]
          /\ UNCHANGED <<paymentEvents, caseStatus>>
      BY <2>2 DEF RegisterPayment
    <3>2. ActiveCases(q) = {} /\ History(q) = {}
      BY <1>0, <3>1, StatusNotAbsent
         DEF ActiveCases, History, AccountInv, HistoryIsKnown, TypeOK
    <3>3. \A p \in Payment : p # q => payStatus'[p] = payStatus[p]
      BY <1>0, <3>1 DEF TypeOK
    <3> QED
      BY <1>0, <2>2, <3>1, <3>2, <3>3, Frame, RecoveryStands
  <2>3. CASE UNCHANGED vars
    BY <1>0, <2>3 DEF vars, RecoveryTracksPayment, History, ActiveCases, PaymentOf, Body
  <2>4. ASSUME Next
        PROVE  \/ \E d \in Delivery : Commit(d)
               \/ \E q \in Payment, s \in PaymentStatus : RegisterPayment(q, s)
               \/ UNCHANGED <<payStatus, paymentEvents, caseStatus>>
    BY <2>4
       DEF Next, Deliver, Retry, Handle, Crash, RollBack, FindRaw, InsertRaw,
         IgnoreUnsupported, LeaveUnresolved, CommitRawOnly, RejectEntity, LockPayment,
         RejectTimestamp, FindActiveCase, database
  <2> QED
    BY <2>1, <2>2, <2>3, <2>4, CommitKeepsRecovery
<1> QED
  BY <1>1, <1>2

LEMMA IntakeInit == Init => IntakeInv
<1> SUFFICES ASSUME Init PROVE IntakeInv
  OBVIOUS
<1>1. \A p \in Payment : ActiveCases(p) = {} /\ History(p) = {}
  BY StatusNotAbsent DEF Init, ActiveCases, History
<1>2. \A d \in Delivery : pc[d] # "found"
  BY DEF Init
<1>3. RecoveryTracksPayment /\ \A p \in Payment : CasesInOrder(p)
  BY <1>1, <1>2 DEF RecoveryTracksPayment, CasesInOrder, Ambiguous
<1> QED
  BY <1>3, AccountInit DEF IntakeInv

-----------------------------------------------------------------------------
(***************************************************************************)
(* The theorems.                                                           *)
(***************************************************************************)
\* The inductive invariant holds of every behaviour of the intake.
THEOREM IntakeInvariant == Spec => []IntakeInv
  BY IntakeInit, IntakeStep, PTL DEF Spec

\* Every row, and every handler's state, keeps its type (events/pipeline.py).
THEOREM IntakeTypeOK == Spec => []TypeOK
<1>1. IntakeInv => TypeOK
  BY DEF IntakeInv, AccountInv
<1> QED
  BY <1>1, IntakeInvariant, PTL

\* No interleaving of deliveries gives a payment two active recovery cases
\* (events/pipeline.py:177, recovery/orchestrator.py:46).
THEOREM AtMostOneActiveCase == Spec => []OneActiveCase
<1>1. IntakeInv => OneActiveCase
  BY DEF IntakeInv, OneActiveCase, CasesInOrder
<1> QED
  BY <1>1, IntakeInvariant, PTL

\* A payment is being recovered exactly when a failure of it is on record and it
\* is not captured (events/pipeline.py:239-269).
THEOREM RecoveryFollowsPayment == Spec => []RecoveryTracksPayment
<1>1. IntakeInv => RecoveryTracksPayment
  BY DEF IntakeInv
<1> QED
  BY <1>1, IntakeInvariant, PTL

\* The lookup and the unique index let each provider event in once
\* (events/pipeline.py:112-153).
THEOREM EventsRecordedOnce == Spec => []EventRecordedOnce
<1>1. IntakeInv => EventRecordedOnce
  BY DEF IntakeInv, AccountInv
<1> QED
  BY <1>1, IntakeInvariant, PTL

\* An event answered with a 2xx is on record, also when it was answered as a
\* duplicate of a delivery that was still open (events/pipeline.py:134-153).
THEOREM AcknowledgedEventsRecorded == Spec => []AcknowledgedIsRecorded
<1>1. IntakeInv => AcknowledgedIsRecorded
  BY DEF IntakeInv, AccountInv
<1> QED
  BY <1>1, IntakeInvariant, PTL

\* Once a payment is captured, no commit moves it or makes a case of it, whatever
\* the cases it has: a handler that began before goes by the status under the lock.
LEMMA CaptureStands ==
  ASSUME AccountInv, Next, NEW p \in Payment, payStatus[p] = "CAPTURED"
  PROVE  /\ payStatus'[p] = "CAPTURED"
         /\ \A c \in Delivery : (caseStatus[c] = NoCase /\ caseStatus'[c] # NoCase)
                               => PaymentOf(c) # p
<1>0. TypeOK
  BY DEF AccountInv
<1>1. ASSUME NEW d \in Delivery, Commit(d)
      PROVE  /\ payStatus'[p] = "CAPTURED"
             /\ \A c \in Delivery : (caseStatus[c] = NoCase /\ caseStatus'[c] # NoCase)
                      => PaymentOf(c) # p
  <2>1. payStatus'[p] = "CAPTURED"
    BY <1>0, <1>1, CommitEffect DEF TypeOK
  <2>2. \A c \in Delivery \ {d} : caseStatus[c] = NoCase => caseStatus'[c] = NoCase
    BY <1>1, CommitKeepsCases
  <2>3. CASE PaymentOf(d) # p
    BY <2>1, <2>2, <2>3
  <2>4. CASE PaymentOf(d) = p
    <3>1. EffectiveStatus(d) = "CAPTURED"
      BY <1>1, <2>4, CommitEffect
    <3>2. CloseCase(d)
      BY <1>1, <3>1 DEF Commit, OpenCase, KeepCase, OpensCase, ClosesCase
    <3>3. work[d].case # NoCase => work[d].case \in Delivery /\ caseStatus[work[d].case] # NoCase
      BY <1>1, CommitEffect, StatusNotAbsent
    <3>4. \A c \in Delivery : caseStatus[c] = NoCase => caseStatus'[c] = NoCase
      BY <1>0, <3>2, <3>3 DEF TypeOK, CloseCase, WriteCase
    <3> QED
      BY <2>1, <3>4
  <2> QED
    BY <2>3, <2>4
<1>2. ASSUME NEW q \in Payment, NEW s \in PaymentStatus, RegisterPayment(q, s)
      PROVE  payStatus'[p] = "CAPTURED" /\ caseStatus' = caseStatus
  BY <1>0, <1>2 DEF TypeOK, RegisterPayment, Absent
<1>3. ASSUME UNCHANGED <<payStatus, caseStatus>>
      PROVE  payStatus'[p] = "CAPTURED" /\ caseStatus' = caseStatus
  BY <1>3
<1>4. \/ \E d \in Delivery : Commit(d)
      \/ \E q \in Payment, s \in PaymentStatus : RegisterPayment(q, s)
      \/ UNCHANGED <<payStatus, caseStatus>>
  BY DEF Next, Deliver, Retry, Handle, Crash, RollBack, FindRaw, InsertRaw,
       IgnoreUnsupported, LeaveUnresolved, CommitRawOnly, RejectEntity, LockPayment,
       RejectTimestamp, FindActiveCase, database
<1> QED
  BY <1>1, <1>2, <1>3, <1>4

\* A captured payment stays captured and gets no new case
\* (domain/state_machines.py:40, recovery/orchestrator.py:28).
THEOREM CaptureIsFinal == Spec => CapturedIsFinal
<1> DEFINE Final == \A p \in Payment : payStatus[p] = "CAPTURED" =>
       /\ payStatus'[p] = "CAPTURED"
       /\ \A c \in Delivery : (caseStatus[c] = NoCase /\ caseStatus'[c] # NoCase)
                               => PaymentOf(c) # p
<1>1. IntakeInv /\ [Next]_vars => [Final]_vars
  BY CaptureStands DEF IntakeInv
<1>2. Spec => [][Final]_vars
  BY <1>1, IntakeInvariant, PTL DEF Spec
<1> QED
  BY <1>2 DEF CapturedIsFinal

=============================================================================
