------------------------- MODULE EventLedgerProofs -------------------------
(***************************************************************************)
(* Webhook intake, for any sets of payments, events, deliveries and        *)
(* bodies: the latest event decides where a payment stands, and the        *)
(* transactions of EventPipeline implement the one-step ledger.            *)
(***************************************************************************)
EXTENDS EventPipelineProofs

-----------------------------------------------------------------------------
(***************************************************************************)
(* What a step does to the history of a payment.                           *)
(***************************************************************************)
\* A handler's verdict on whether its event is late stands until it commits.
LatenessIsCurrent ==
  \A d \in Delivery : HoldsPayment(d) =>
    (work[d].late <=> \E x \in History(PaymentOf(d)) : Body(d).time < Body(x).time)

HistoryInv == AccountInv /\ LatenessIsCurrent /\ LatestEventWins

\* A step that leaves the histories alone, and the lateness of those who know it.
LEMMA LatenessStands ==
  ASSUME AccountInv, BodiesStand, UNCHANGED paymentEvents, LatenessIsCurrent,
         \A x \in Delivery : HoldsPayment(x)' =>
           /\ pc[x] # "idle"
           /\ \/ HoldsPayment(x) /\ work'[x].late = work[x].late
              \/ work'[x].late = \E y \in History(PaymentOf(x)) : Body(x).time < Body(y).time
  PROVE  LatenessIsCurrent'
<1> SUFFICES ASSUME NEW d \in Delivery, HoldsPayment(d)'
             PROVE  work'[d].late <=>
                      \E x \in History(PaymentOf(d))' : Body(d)'.time < Body(x)'.time
  BY DEF LatenessIsCurrent
<1>1. PaymentOf(d)' = PaymentOf(d) /\ Body(d)' = Body(d)
  BY BodiesKept
<1>0. PICK p : p = PaymentOf(d)
  OBVIOUS
<1>2. History(PaymentOf(d))' = History(p)
  <2>1. History(p)' = History(p)
    BY HistoryStands
  <2> QED
    BY <1>0, <1>1, <2>1 DEF History
<1>3. \A x \in History(p) : Body(x)' = Body(x)
  BY HistoryStands
<1>4. work'[d].late <=> \E x \in History(p) : Body(d).time < Body(x).time
  BY <1>0 DEF LatenessIsCurrent
<1> QED
  BY <1>1, <1>2, <1>3, <1>4

\* A payment that stands still under the same history stands where it did.
LEMMA LatestStands ==
  ASSUME AccountInv, BodiesStand, UNCHANGED paymentEvents, LatestEventWins,
         \A p \in Payment : History(p) # {} => payStatus'[p] = payStatus[p]
  PROVE  LatestEventWins'
<1> SUFFICES ASSUME NEW p \in Payment, NEW x \in History(p)',
                    payStatus'[p] # "CAPTURED",
                    \A y \in History(p)' : Body(y)'.time < Body(x)'.time \/ y = x
             PROVE  \/ payStatus'[p] = Target(x)'
                    \/ Target(x)' = "CAPTURED" /\ payStatus'[p] = "CREATED"
  BY DEF LatestEventWins
<1>1. /\ History(p)' = History(p)
      /\ \A y \in History(p) : Body(y)' = Body(y) /\ Target(y)' = Target(y)
  BY HistoryStands
<1>2. x \in History(p) /\ payStatus'[p] = payStatus[p]
  BY <1>1
<1>3. \A y \in History(p) : Body(y).time < Body(x).time \/ y = x
  BY <1>1, <1>2
<1> QED
  BY <1>1, <1>2, <1>3 DEF LatestEventWins

-----------------------------------------------------------------------------
(***************************************************************************)
(* The latest event decides.                                               *)
(***************************************************************************)
\* Where a payment is put by an event that is not late.
LEMMA AppliesOrIsThere ==
  ASSUME NEW d \in Delivery, work[d].status \in PaymentStatus, work[d].status # "CAPTURED",
         ~ work[d].late, payStatus[PaymentOf(d)] = work[d].status
  PROVE  \/ EffectiveStatus(d) = Target(d)
         \/ Target(d) = "CAPTURED" /\ EffectiveStatus(d) = "CREATED"
<1>1. Target(d) \in {"CAPTURED", "FAILED", "AUTHORIZED"}
  BY DEF Target, StatusOfType
<1>2. work[d].status \in {"CREATED", "AUTHORIZED", "FAILED", "PENDING"}
  BY DEF PaymentStatus
<1>3. \/ Target(d) = work[d].status
      \/ MayMovePayment(work[d].status, Target(d))
      \/ Target(d) = "CAPTURED" /\ work[d].status = "CREATED"
  BY <1>1, <1>2 DEF MayMovePayment, PaymentMoves
<1> QED
  BY <1>3 DEF EffectiveStatus, Applies

LEMMA CommitKeepsHistory ==
  ASSUME HistoryInv, NEW d \in Delivery, Commit(d)
  PROVE  LatenessIsCurrent' /\ LatestEventWins'
<1>0. /\ AccountInv /\ LatenessIsCurrent /\ LatestEventWins /\ TypeOK
      /\ paymentEvents \subseteq Delivery
  BY DEF HistoryInv, AccountInv, TypeOK
<1>1. PICK p : p = PaymentOf(d)
  OBVIOUS
<1>2. /\ p \in Payment
      /\ payStatus' = [payStatus EXCEPT ![p] = EffectiveStatus(d)]
      /\ payStatus[p] = "CAPTURED" => EffectiveStatus(d) = "CAPTURED"
      /\ d \notin paymentEvents
  BY <1>0, <1>1, CommitEffect
<1>3. /\ UNCHANGED <<payload, eventOf>>
      /\ paymentEvents' = paymentEvents \cup {d}
      /\ HoldsPayment(d) /\ pc[d] = "found"
      /\ \A x \in Delivery \ {d} : pc'[x] = pc[x] /\ work'[x] = work[x]
      /\ ~ HoldsPayment(d)'
  BY <1>0 DEF Commit, EndsAt, TypeOK, HoldsPayment
<1>4. \A x \in Delivery : PaymentOf(x)' = PaymentOf(x) /\ Body(x)' = Body(x) /\ Target(x)' = Target(x)
  BY <1>3 DEF PaymentOf, Target, Body
<1>5. \A q : History(q)' = IF q = p THEN History(q) \cup {d} ELSE History(q)
  BY <1>0, <1>1, <1>3, <1>4 DEF History
<1>6. \A q : History(q) \subseteq Delivery
  BY <1>0 DEF History
<1>7. LatenessIsCurrent'
  <2> SUFFICES ASSUME NEW x \in Delivery, HoldsPayment(x)'
               PROVE  work'[x].late <=>
                        \E y \in History(PaymentOf(x))' : Body(x)'.time < Body(y)'.time
    BY DEF LatenessIsCurrent
  <2>1. x # d /\ HoldsPayment(x) /\ work'[x] = work[x]
    BY <1>3 DEF HoldsPayment
  <2>2. PICK q : q = PaymentOf(x)
    OBVIOUS
  <2>3. q # p
    BY <1>0, <1>1, <1>3, <2>1, <2>2 DEF AccountInv, LocksAreExclusive
  <2>4. History(PaymentOf(x))' = History(q)
    <3>1. History(q)' = History(q)
      BY <1>5, <2>3
    <3> QED
      BY <1>4, <2>2, <3>1 DEF History
  <2>5. work[x].late <=> \E y \in History(q) : Body(x).time < Body(y).time
    BY <1>0, <2>1, <2>2 DEF LatenessIsCurrent
  <2> QED
    BY <1>4, <1>6, <2>1, <2>4, <2>5
<1>8. LatestEventWins'
  <2> SUFFICES ASSUME NEW q \in Payment, NEW x \in History(q)',
                      payStatus'[q] # "CAPTURED",
                      \A y \in History(q)' : Body(y)'.time < Body(x)'.time \/ y = x
               PROVE  \/ payStatus'[q] = Target(x)'
                      \/ Target(x)' = "CAPTURED" /\ payStatus'[q] = "CREATED"
    BY DEF LatestEventWins
  <2>1. x \in Delivery /\ Target(x)' = Target(x)
    BY <1>4, <1>5, <1>6
  <2>2. \A y \in History(q) : Body(y).time < Body(x).time \/ y = x
    BY <1>4, <1>5, <1>6, <2>1
  <2>3. CASE q # p
    <3>1. payStatus'[q] = payStatus[q] /\ x \in History(q)
      BY <1>0, <1>2, <1>5, <2>3 DEF TypeOK
    <3> QED
      BY <1>0, <2>1, <2>2, <3>1 DEF LatestEventWins
  <2>4. CASE q = p
    <3>1. /\ payStatus'[q] = EffectiveStatus(d) /\ payStatus[q] # "CAPTURED"
          /\ work[d].status = payStatus[q] /\ work[d].status \in PaymentStatus
      BY <1>0, <1>1, <1>2, <1>3, <2>4 DEF TypeOK, AccountInv, ReadsAreCurrent
    <3>2. work[d].late <=> \E y \in History(q) : Body(d).time < Body(y).time
      BY <1>0, <1>1, <1>3, <2>4 DEF LatenessIsCurrent
    <3>3. CASE x = d
      <4>1. \A y \in History(q) : Body(y).time < Body(d).time
        BY <1>2, <2>2, <3>3 DEF History
      <4>2. \A y \in History(q) : ~ (Body(d).time < Body(y).time)
        <5>1. \A y \in History(q) : Body(y).time \in Nat /\ Body(d).time \in Nat
          BY <1>0, <1>3, <1>6, BodyType DEF History, AccountInv, RowsAreSettled
        <5> QED
          BY <4>1, <5>1
      <4> QED
        BY <1>1, <2>1, <2>4, <3>1, <3>2, <3>3, <4>2, AppliesOrIsThere
    <3>4. CASE x # d
      <4>1. x \in History(q)
        BY <1>5, <2>4, <3>4
      <4>2. Body(d).time < Body(x).time
        <5>1. d \in History(q)'
          BY <1>5, <2>4
        <5> QED
          BY <1>4, <2>1, <3>4, <5>1
      <4>3. EffectiveStatus(d) = payStatus[q]
        BY <3>1, <3>2, <4>1, <4>2 DEF EffectiveStatus, Applies
      <4> QED
        BY <1>0, <2>1, <2>2, <3>1, <4>1, <4>3 DEF LatestEventWins
    <3> QED
      BY <3>3, <3>4
  <2> QED
    BY <2>3, <2>4
<1> QED
  BY <1>7, <1>8

LEMMA HistoryStep == HistoryInv /\ [Next]_vars => HistoryInv'
<1> SUFFICES ASSUME HistoryInv, [Next]_vars
             PROVE  LatenessIsCurrent' /\ LatestEventWins'
  BY AccountStep DEF HistoryInv
<1>0. AccountInv /\ TypeOK /\ LatenessIsCurrent /\ LatestEventWins
  BY DEF HistoryInv, AccountInv
<1>1. ASSUME Next, UNCHANGED <<paymentEvents, payStatus>>,
             NEW d \in Delivery, pc[d] # "idle" \/ ~ HoldsPayment(d)',
             \A x \in Delivery \ {d} : pc'[x] = pc[x] /\ work'[x] = work[x],
             \/ ~ HoldsPayment(d)'
             \/ HoldsPayment(d) /\ work'[d].late = work[d].late
             \/ work'[d].late = \E y \in History(PaymentOf(d)) : Body(d).time < Body(y).time
      PROVE  LatenessIsCurrent' /\ LatestEventWins'
  <2>1. \A x \in Delivery : HoldsPayment(x)' =>
           /\ pc[x] # "idle"
           /\ \/ HoldsPayment(x) /\ work'[x].late = work[x].late
              \/ work'[x].late = \E y \in History(PaymentOf(x)) : Body(x).time < Body(y).time
    BY <1>1 DEF HoldsPayment
  <2> QED
    BY <1>0, <1>1, <2>1, Frame, LatenessStands, LatestStands
<1>2. ASSUME Next, NEW d \in Delivery, NEW e \in Event, Deliver(d, e)
      PROVE  LatenessIsCurrent' /\ LatestEventWins'
  <2>1. /\ UNCHANGED <<paymentEvents, payStatus>> /\ ~ HoldsPayment(d)'
        /\ \A x \in Delivery \ {d} : pc'[x] = pc[x] /\ work'[x] = work[x]
    BY <1>0, <1>2 DEF TypeOK, Deliver, FirstPosition, HoldsPayment, database
  <2> QED
    BY <1>1, <1>2, <2>1
<1>3. ASSUME Next, NEW d \in Delivery,
             \/ Retry(d) \/ FindRaw(d) \/ InsertRaw(d) \/ IgnoreUnsupported(d)
             \/ LeaveUnresolved(d) \/ RejectEntity(d) \/ RejectTimestamp(d) \/ Crash(d)
      PROVE  LatenessIsCurrent' /\ LatestEventWins'
  <2>1. /\ UNCHANGED <<paymentEvents, payStatus>> /\ ~ HoldsPayment(d)'
        /\ \A x \in Delivery \ {d} : pc'[x] = pc[x] /\ work'[x] = work[x]
    BY <1>0, <1>3
       DEF TypeOK, Retry, FirstPosition, FindRaw, InsertRaw, IgnoreUnsupported, LeaveUnresolved,
           CommitRawOnly, RejectEntity, RejectTimestamp, Crash, RollBack, EndsAt,
           HoldsPayment, database
  <2> QED
    BY <1>1, <1>3, <2>1
<1>4. ASSUME Next, NEW d \in Delivery, LockPayment(d)
      PROVE  LatenessIsCurrent' /\ LatestEventWins'
  <2>1. /\ UNCHANGED <<paymentEvents, payStatus>> /\ pc[d] # "idle"
        /\ \A x \in Delivery \ {d} : pc'[x] = pc[x] /\ work'[x] = work[x]
        /\ work'[d].late = \E y \in History(PaymentOf(d)) : Body(d).time < Body(y).time
    BY <1>0, <1>4 DEF TypeOK, LockPayment, database
  <2> QED
    BY <1>1, <1>4, <2>1
<1>5. ASSUME Next, NEW d \in Delivery, FindActiveCase(d)
      PROVE  LatenessIsCurrent' /\ LatestEventWins'
  <2>1. /\ UNCHANGED <<paymentEvents, payStatus>> /\ HoldsPayment(d) /\ pc[d] # "idle"
        /\ \A x \in Delivery \ {d} : pc'[x] = pc[x] /\ work'[x] = work[x]
    BY <1>0, <1>5 DEF TypeOK, FindActiveCase, HoldsPayment, database
  <2>2. work'[d].late = work[d].late
    BY <1>0, <1>5 DEF TypeOK, Work, FindActiveCase
  <2> QED
    BY <1>1, <1>5, <2>1, <2>2
<1>6. ASSUME Next, NEW p \in Payment, NEW status \in PaymentStatus, RegisterPayment(p, status)
      PROVE  LatenessIsCurrent' /\ LatestEventWins'
  <2>1. UNCHANGED paymentEvents /\ pc' = pc /\ work' = work
    BY <1>6 DEF RegisterPayment, handlers
  <2>2. \A x \in Delivery : HoldsPayment(x)' =>
           pc[x] # "idle" /\ HoldsPayment(x) /\ work'[x].late = work[x].late
    BY <2>1 DEF HoldsPayment
  <2>3. \A q \in Payment : History(q) # {} => payStatus'[q] = payStatus[q]
    BY <1>0, <1>6 DEF TypeOK, RegisterPayment, AccountInv, HistoryIsKnown, History
  <2> QED
    BY <1>0, <1>6, <2>1, <2>2, <2>3, Frame, LatenessStands, LatestStands
<1>7. ASSUME Next, NEW d \in Delivery, Commit(d)
      PROVE  LatenessIsCurrent' /\ LatestEventWins'
  BY <1>7, CommitKeepsHistory
<1>8. CASE UNCHANGED vars
  BY <1>0, <1>8
     DEF vars, LatenessIsCurrent, LatestEventWins, HoldsPayment, History, PaymentOf, Body, Target
<1> QED
  BY <1>2, <1>3, <1>4, <1>5, <1>6, <1>7, <1>8 DEF Next, Handle

LEMMA HistoryInit == Init => HistoryInv
<1> SUFFICES ASSUME Init PROVE HistoryInv
  OBVIOUS
<1>1. LatenessIsCurrent /\ LatestEventWins
  BY DEF Init, LatenessIsCurrent, LatestEventWins, HoldsPayment, History
<1> QED
  BY <1>1, AccountInit DEF HistoryInv

\* In whatever order events are delivered, a payment that is not captured stands
\* where its latest event puts it, unless that is a capture that came while it was
\* CREATED (events/pipeline.py:195-247).
THEOREM LatestEventDecides == Spec => []LatestEventWins
<1>1. HistoryInv => LatestEventWins
  BY DEF HistoryInv
<1> QED
  BY <1>1, HistoryInit, HistoryStep, PTL DEF Spec

-----------------------------------------------------------------------------
(***************************************************************************)
(* The refinement: every step is a step of the ledger or changes none of   *)
(* what it sees.                                                           *)
(***************************************************************************)
AbsorbedEvents == {eventOf[x] : x \in rawEvents}
Recovering == {p \in Payment : ActiveCases(p) # {}}

\* A step that commits nothing is none of the ledger's.
LEMMA QuietIsStutter ==
  ASSUME AccountInv, BodiesStand, UNCHANGED database
  PROVE  UNCHANGED <<payStatus, AbsorbedEvents, Recovering>>
<1>1. payStatus' = payStatus /\ rawEvents' = rawEvents /\ rawEvents \subseteq Delivery
  BY DEF AccountInv, TypeOK, database
<1>2. AbsorbedEvents' = AbsorbedEvents
  BY <1>1, RowsKeepTheirBody DEF AbsorbedEvents
<1>3. Recovering' = Recovering
  BY ActiveCasesStand DEF Recovering, database
<1> QED
  BY <1>1, <1>2, <1>3

\* A commit adds its event, which no committed transaction has recorded.
LEMMA EventIsAbsorbed ==
  ASSUME AccountInv, NEW d \in Delivery, HoldsRawRow(d), eventOf' = eventOf,
         rawEvents' = rawEvents \cup {d}
  PROVE  /\ eventOf[d] \in Event
         /\ eventOf[d] \notin AbsorbedEvents
         /\ AbsorbedEvents' = AbsorbedEvents \cup {eventOf[d]}
<1>1. pc[d] # "idle" /\ ~ Recorded(d)
  BY DEF HoldsRawRow, AccountInv, RowsAreSettled
<1> QED
  BY <1>1 DEF AccountInv, RowsAreSettled, Recorded, AbsorbedEvents

\* The transaction of a handler that holds its payment is one of three promises.
LEMMA CommitIsPromised ==
  ASSUME IntakeInv, NEW d \in Delivery, Commit(d)
  PROVE  Ledger!Next
<1>0. TypeOK /\ AccountInv
  BY DEF IntakeInv, AccountInv
<1>1. /\ pc[d] = "found" /\ HoldsRawRow(d) /\ HoldsPayment(d)
      /\ eventOf' = eventOf /\ rawEvents' = rawEvents \cup {d}
  BY DEF Commit, HoldsRawRow, HoldsPayment
<1>2. PICK p : p = PaymentOf(d)
  OBVIOUS
<1>3. PICK e : e = eventOf[d]
  OBVIOUS
<1>4. /\ e \in Event /\ e \notin AbsorbedEvents
      /\ AbsorbedEvents' = AbsorbedEvents \cup {e}
  BY <1>0, <1>1, <1>3, EventIsAbsorbed
<1>5. /\ p \in Payment
      /\ EffectiveStatus(d) \in PaymentStatus
      /\ payStatus' = [payStatus EXCEPT ![p] = EffectiveStatus(d)]
      /\ payStatus[p] = "CAPTURED" => EffectiveStatus(d) = "CAPTURED"
  BY <1>0, <1>2, CommitEffect
<1>6. /\ \A q \in Payment \ {p} : ActiveCases(q)' = ActiveCases(q)
      /\ CasesFollow(d, ActiveCases(p)')
  BY <1>0, <1>2, <1>5, CommitCases, CommitKeepsCases DEF IntakeInv
<1>7. work[d].status = payStatus[p] /\ payStatus[p] \in PaymentStatus
  BY <1>0, <1>1, <1>2, <1>5 DEF AccountInv, ReadsAreCurrent, TypeOK
<1>8. /\ Applies(d) => EffectiveStatus(d) = Target(d) /\ MayMovePayment(payStatus[p], Target(d))
      /\ ~ Applies(d) => EffectiveStatus(d) = payStatus[p] /\ payStatus' = payStatus
  BY <1>0, <1>5, <1>7 DEF TypeOK, Applies, EffectiveStatus
<1>9. CASE ClosesCase(d)
  <2>1. ActiveCases(p)' = {} /\ EffectiveStatus(d) = "CAPTURED"
    BY <1>6, <1>9 DEF CasesFollow, ClosesCase
  <2>2. Recovering' = Recovering \ {p}
    BY <1>5, <1>6, <2>1 DEF Recovering
  <2>3. Ledger!Moves(p, "CAPTURED") \/ (payStatus[p] = "CAPTURED" /\ Ledger!Stays(p))
    BY <1>5, <1>8, <2>1
       DEF Ledger!Moves, Ledger!Stays, Ledger!MayMovePayment, MayMovePayment,
           Ledger!PaymentMoves, PaymentMoves
  <2>4. Ledger!Captured(e, p)
    BY <1>4, <2>2, <2>3 DEF Ledger!Captured, AbsorbedEvents, Recovering
  <2> QED
    BY <1>4, <1>5, <2>4 DEF Ledger!Next
<1>10. CASE OpensCase(d)
  <2>1. ActiveCases(p)' # {} /\ EffectiveStatus(d) # "CAPTURED" /\ Target(d) = "FAILED"
    BY <1>6, <1>10 DEF CasesFollow, ClosesCase, OpensCase, Target, StatusOfType
  <2>2. Recovering' = Recovering \cup {p}
    BY <1>5, <1>6, <2>1 DEF Recovering
  <2>3. Ledger!Moves(p, "FAILED") \/ Ledger!Stays(p)
    <3>1. CASE Applies(d)
      <4>1. MayMovePayment(payStatus[p], "FAILED") /\ payStatus' = [payStatus EXCEPT ![p] = "FAILED"]
        BY <1>5, <1>8, <2>1, <3>1
      <4> QED
        BY <4>1 DEF Ledger!Moves, Ledger!MayMovePayment, MayMovePayment, Ledger!PaymentMoves,
                    PaymentMoves
    <3>2. CASE ~ Applies(d)
      BY <1>8, <3>2 DEF Ledger!Stays
    <3> QED
      BY <3>1, <3>2
  <2>4. payStatus[p] \in PaymentStatus \ {"CAPTURED"}
    BY <1>5, <1>7, <2>1
  <2>5. Ledger!Failed(e, p)
    BY <1>4, <2>2, <2>3, <2>4
       DEF Ledger!Failed, AbsorbedEvents, Recovering, Ledger!PaymentStatus, PaymentStatus
  <2> QED
    BY <1>4, <1>5, <2>5 DEF Ledger!Next
<1>11. CASE ~ ClosesCase(d) /\ ~ OpensCase(d)
  <2>1. ActiveCases(p)' = ActiveCases(p)
    BY <1>2, <1>6, <1>11 DEF CasesFollow, ClosesCase, OpensCase
  <2>2. Recovering' = Recovering
    BY <1>6, <2>1 DEF Recovering
  <2>3. CASE Applies(d)
    <3>1. Target(d) = "AUTHORIZED"
      BY <1>8, <1>11, <2>3 DEF ClosesCase, OpensCase, Target, StatusOfType, Applies
    <3>2. Ledger!Authorized(e, p)
      BY <1>4, <1>5, <1>8, <2>2, <2>3, <3>1
         DEF Ledger!Authorized, Ledger!Moves, AbsorbedEvents, Recovering, Ledger!MayMovePayment,
             MayMovePayment, Ledger!PaymentMoves, PaymentMoves
    <3> QED
      BY <1>4, <1>5, <3>2 DEF Ledger!Next
  <2>4. CASE ~ Applies(d)
    <3>1. Ledger!Note(e)
      BY <1>4, <1>8, <2>2, <2>4 DEF Ledger!Note, AbsorbedEvents, Recovering
    <3> QED
      BY <1>4, <3>1 DEF Ledger!Next
  <2> QED
    BY <2>3, <2>4
<1> QED
  BY <1>9, <1>10, <1>11

\* What commits the raw event alone is noted.
LEMMA RawOnlyIsNoted ==
  ASSUME AccountInv, NEW d \in Delivery, IgnoreUnsupported(d) \/ LeaveUnresolved(d)
  PROVE  Ledger!Next
<1>1. /\ HoldsRawRow(d) /\ eventOf' = eventOf /\ rawEvents' = rawEvents \cup {d}
      /\ payStatus' = payStatus /\ caseStatus' = caseStatus /\ payload' = payload
  BY DEF IgnoreUnsupported, LeaveUnresolved, CommitRawOnly, HoldsRawRow
<1>2. PICK e : e = eventOf[d]
  OBVIOUS
<1>3. /\ e \in Event /\ e \notin AbsorbedEvents
      /\ AbsorbedEvents' = AbsorbedEvents \cup {e}
  BY <1>1, <1>2, EventIsAbsorbed
<1>4. Recovering' = Recovering
  BY <1>1 DEF Recovering, ActiveCases, PaymentOf, Body
<1>5. Ledger!Note(e)
  BY <1>1, <1>3, <1>4 DEF Ledger!Note, AbsorbedEvents, Recovering
<1> QED
  BY <1>3, <1>5 DEF Ledger!Next

LEMMA StepIsPromised == IntakeInv /\ [Next]_vars => [Ledger!Next]_(Ledger!vars)
<1> SUFFICES ASSUME IntakeInv, [Next]_vars
             PROVE  Ledger!Next \/ UNCHANGED <<payStatus, AbsorbedEvents, Recovering>>
  BY DEF Ledger!vars, AbsorbedEvents, Recovering
<1>0. AccountInv /\ TypeOK
  BY DEF IntakeInv, AccountInv
<1>1. ASSUME Next, NEW d \in Delivery, NEW e \in Event, Deliver(d, e)
      PROVE  UNCHANGED <<payStatus, AbsorbedEvents, Recovering>>
  <2>1. UNCHANGED database
    BY <1>1 DEF Deliver
  <2> QED
    BY <1>0, <1>1, <2>1, Frame, QuietIsStutter
<1>2. ASSUME Next, NEW d \in Delivery,
             \/ Retry(d) \/ FindRaw(d) \/ InsertRaw(d) \/ RejectEntity(d)
             \/ LockPayment(d) \/ RejectTimestamp(d) \/ FindActiveCase(d) \/ Crash(d)
      PROVE  UNCHANGED <<payStatus, AbsorbedEvents, Recovering>>
  <2>1. UNCHANGED database
    BY <1>2 DEF Retry, FindRaw, InsertRaw, RejectEntity, LockPayment, RejectTimestamp,
                FindActiveCase, Crash, RollBack
  <2> QED
    BY <1>0, <1>2, <2>1, Frame, QuietIsStutter
<1>3. ASSUME NEW p \in Payment, NEW status \in PaymentStatus, RegisterPayment(p, status)
      PROVE  Ledger!Next
  <2>1. /\ payStatus[p] = Absent /\ payStatus' = [payStatus EXCEPT ![p] = status]
        /\ UNCHANGED <<rawEvents, eventOf, caseStatus, payload>>
    BY <1>3 DEF RegisterPayment, handlers
  <2>2. AbsorbedEvents' = AbsorbedEvents /\ Recovering' = Recovering
    BY <2>1 DEF AbsorbedEvents, Recovering, ActiveCases, PaymentOf, Body
  <2>3. Ledger!Register(p, status)
    BY <2>1, <2>2 DEF Ledger!Register, AbsorbedEvents, Recovering
  <2> QED
    BY <2>3 DEF Ledger!Next, Ledger!PaymentStatus, PaymentStatus
<1>4. CASE UNCHANGED vars
  BY <1>4 DEF vars, AbsorbedEvents, Recovering, ActiveCases, PaymentOf, Body
<1> QED
  BY <1>0, <1>1, <1>2, <1>3, <1>4, CommitIsPromised, RawOnlyIsNoted DEF Next, Handle

\* The transactions of webhook intake, with their locks, crashes and redeliveries,
\* do what the one-step ledger promises: each provider event takes effect at most
\* once, on the payment and its recovery together (events/pipeline.py:85-295).
THEOREM IntakeImplementsLedger == Spec => ImplementsLedger
<1>1. Init => Ledger!Init
  BY StatusNotAbsent
     DEF Init, Ledger!Init, ActiveCases, Ledger!PaymentStatus, PaymentStatus
<1>2. Spec => []IntakeInv
  BY IntakeInvariant
<1> QED
  BY <1>1, <1>2, StepIsPromised, PTL DEF Spec, ImplementsLedger, Ledger!Spec
=============================================================================
