-------------------------- MODULE ExecutionProofs --------------------------
(***************************************************************************)
(* Proofs about ExecutionOrchestrator: ExecutionInv is inductive, and the  *)
(* safety properties follow from it, for any number of workers, actions,   *)
(* keys, calls and crashes.                                                *)
(***************************************************************************)
EXTENDS ExecutionOrchestrator, TLAPS

\* What every open claim has been called with.
LEMMA CallFields ==
  ASSUME ExecutionTypeOK, NEW w \in Worker, pc[w] # "idle"
  PROVE  /\ call[w] \in CallRecord
         /\ call[w].action \in Action
         /\ KeyAt(w) \in Key
         /\ CaseAt(w) \in Case
         /\ KindOf[call[w].action] \in Kind
BY ActionAssumption DEF ExecutionTypeOK, CallRecord, KeyAt, CaseAt

\* The row of an action tells of no other status than its own.
LEMMA NoRowTellsNothing ==
  ASSUME NEW a \in Action, NEW status \in ExecutionStatus, executions[KeyOf[a]] = NoRow
  PROVE  ~ Executed(a, status)
<1>1. SUFFICES ASSUME NoRow = [action |-> a, status |-> status] PROVE FALSE
  BY DEF Executed
<1>2. NoRow.status = status
  BY <1>1
<1> QED
  BY <1>2 DEF NoRow, ExecutionStatus, TerminalExecution

\* Steps that leave the tables alone keep what is said of the tables alone.
LEMMA TablesFrame ==
  ASSUME ActionsFollowExecutions, CasesMoveForAReason, UNCHANGED tables
  PROVE  ActionsFollowExecutions' /\ CasesMoveForAReason'
<1>1. UNCHANGED <<payStatus, caseStatus, actionStatus, executions>>
  BY DEF tables
<1>2. ActionsFollowExecutions'
  BY <1>1 DEF ActionsFollowExecutions, Executed
<1>3. CasesMoveForAReason'
  BY <1>1 DEF CasesMoveForAReason, HasReason, SucceededOn, Executed
<1> QED
  BY <1>2, <1>3

-----------------------------------------------------------------------------
\* A worker that ends its call holds no key any more; the others hold what they held.
LEMMA EndsReleases ==
  ASSUME ExecutionTypeOK, NEW w \in Worker, NEW row \in Row \cup {NoRow}, Ends(w, row)
  PROVE  /\ pc' \in [Worker -> Position]
         /\ call' \in [Worker -> CallRecord \cup {NoCall}]
         /\ reply' \in [Worker -> Row \cup {NoRow}]
         /\ reply'[w] = row
         /\ pc'[w] = "idle"
         /\ calls' = calls
         /\ \A x \in Worker \ {w} : /\ pc'[x] = pc[x] /\ call'[x] = call[x]
                                    /\ reply'[x] = reply[x]
BY DEF ExecutionTypeOK, Ends, Position

\* A step of one worker that touches neither the tables nor the executor, and takes
\* no key but a free one.
LEMMA QuietStep ==
  ASSUME ExecutionInv, NEW w \in Worker, UNCHANGED tables, UNCHANGED effects,
         \A x \in Worker \ {w} : pc'[x] = pc[x] /\ call'[x] = call[x],
         pc[w] # "dispatched", pc'[w] # "dispatched",
         \A k \in Key : HoldsKey(w, k)' =>
           \/ HoldsKey(w, k)
           \/ executions[k] = NoRow /\ \A x \in Worker \ {w} : ~ HoldsKey(x, k)
  PROVE  /\ ClaimsAreExclusive'
         /\ DispatchesAreCounted'
         /\ ResultsArePossible'
         /\ OneSurvivingDispatch'
         /\ ExecutionsEnd'
         /\ ActionsFollowExecutions'
         /\ CasesMoveForAReason'
<1>1. \A x \in Worker \ {w}, k \in Key : HoldsKey(x, k)' <=> HoldsKey(x, k)
  BY DEF HoldsKey, KeyAt
<1>2. executions' = executions /\ dispatched' = dispatched /\ lost' = lost
  BY DEF tables, effects
<1>3. ClaimsAreExclusive'
  BY <1>1, <1>2 DEF ExecutionInv, ClaimsAreExclusive
<1>4. \A k \in Key : (\E x \in Worker : pc'[x] = "dispatched" /\ HoldsKey(x, k)')
                     <=> (\E x \in Worker : pc[x] = "dispatched" /\ HoldsKey(x, k))
  BY <1>1
<1>5. DispatchesAreCounted'
  <2>1. ASSUME NEW k \in Key, executions'[k] = NoRow
        PROVE  \/ dispatched'[k] = lost'[k]
               \/ \E x \in Worker : pc'[x] = "dispatched" /\ HoldsKey(x, k)'
    BY <2>1, <1>2, <1>4 DEF ExecutionInv, DispatchesAreCounted
  <2>2. ASSUME NEW x \in Worker, NEW k \in Key, HoldsKey(x, k)'
        PROVE  dispatched'[k] = IF pc'[x] = "dispatched" THEN lost'[k] + 1 ELSE lost'[k]
    <3>1. CASE HoldsKey(x, k)
      BY <3>1, <1>2, <1>1 DEF ExecutionInv, DispatchesAreCounted
    <3>2. CASE ~ HoldsKey(x, k)
      <4>1. x = w /\ executions[k] = NoRow /\ \A y \in Worker \ {w} : ~ HoldsKey(y, k)
        BY <3>2, <2>2, <1>1
      <4>2. dispatched[k] = lost[k]
        BY <4>1 DEF ExecutionInv, DispatchesAreCounted
      <4> QED
        BY <4>1, <4>2, <1>2
    <3> QED
      BY <3>1, <3>2
  <2> QED
    BY <2>1, <2>2 DEF DispatchesAreCounted
<1>6. ResultsArePossible'
  BY DEF ExecutionInv, ResultsArePossible
<1>7. OneSurvivingDispatch'
  BY <1>2 DEF ExecutionInv, OneSurvivingDispatch
<1>8. ExecutionsEnd'
  <2>1. ASSUME NEW k \in Key
        PROVE  /\ executions'[k] # NoRow => executions'[k].status \in TerminalExecution
               /\ dispatched'[k] > lost'[k] =>
                    \/ executions'[k] # NoRow
                    \/ \E x \in Worker : pc'[x] = "dispatched" /\ HoldsKey(x, k)'
    BY <1>2, <1>4 DEF ExecutionInv, ExecutionsEnd
  <2> QED
    BY <2>1 DEF ExecutionsEnd
<1> QED
  BY <1>3, <1>5, <1>6, <1>7, <1>8, TablesFrame DEF ExecutionInv

\* Answers stay on record while rows do.
LEMMA AnswersStay ==
  ASSUME AnswersAreOnRecord, NEW w \in Worker,
         \A x \in Worker \ {w} : reply'[x] = reply[x],
         \A k \in Key : executions[k] # NoRow => executions'[k] = executions[k],
         reply'[w] # NoRow => reply'[w] = reply[w] \/ \E k \in Key : executions'[k] = reply'[w]
  PROVE  AnswersAreOnRecord'
<1>1. SUFFICES ASSUME NEW x \in Worker, reply'[x] # NoRow
               PROVE  \E k \in Key : executions'[k] = reply'[x]
  BY DEF AnswersAreOnRecord
<1>2. CASE reply'[x] = reply[x]
  <2>1. PICK k \in Key : executions[k] = reply[x]
    BY <1>1, <1>2 DEF AnswersAreOnRecord
  <2> QED
    BY <2>1, <1>1, <1>2
<1>3. CASE reply'[x] # reply[x]
  BY <1>1, <1>3
<1> QED
  BY <1>2, <1>3

-----------------------------------------------------------------------------
\* A worker that ends with nothing written, before it has called the executor.
LEMMA EndsQuietly ==
  ASSUME ExecutionInv, NEW w \in Worker, pc[w] # "dispatched", UNCHANGED tables,
         UNCHANGED effects, crashes' \in 0 .. MaxCrashes,
         NEW row \in Row \cup {NoRow}, Ends(w, row),
         row # NoRow => \E k \in Key : executions[k] = row
  PROVE  ExecutionInv'
<1>1. ExecutionTypeOK
  BY DEF ExecutionInv
<1>2. /\ pc' \in [Worker -> Position]
      /\ call' \in [Worker -> CallRecord \cup {NoCall}]
      /\ reply' \in [Worker -> Row \cup {NoRow}]
      /\ reply'[w] = row
      /\ pc'[w] = "idle"
      /\ calls' = calls
      /\ \A x \in Worker \ {w} : /\ pc'[x] = pc[x] /\ call'[x] = call[x]
                                 /\ reply'[x] = reply[x]
  BY <1>1, EndsReleases
<1>3. ExecutionTypeOK'
  BY <1>1, <1>2 DEF ExecutionTypeOK, tables, effects
<1>4. \A k \in Key : ~ HoldsKey(w, k)'
  BY <1>2 DEF HoldsKey
<1>5. AnswersAreOnRecord'
  BY <1>2, AnswersStay DEF ExecutionInv, tables
<1> QED
  BY <1>2, <1>3, <1>4, <1>5, QuietStep DEF ExecutionInv

\* A worker that goes on, short of calling the executor.
LEMMA GoesOnQuietly ==
  ASSUME ExecutionInv, NEW w \in Worker, pc[w] # "dispatched",
         NEW position \in Position \ {"dispatched"}, pc' = [pc EXCEPT ![w] = position],
         call' \in [Worker -> CallRecord \cup {NoCall}], call'[w] \in CallRecord,
         \A x \in Worker \ {w} : call'[x] = call[x],
         reply' = reply \/ reply' = [reply EXCEPT ![w] = NoRow],
         calls' \in 0 .. MaxCalls, UNCHANGED crashes, UNCHANGED tables, UNCHANGED effects,
         \A k \in Key : HoldsKey(w, k)' =>
           \/ HoldsKey(w, k)
           \/ executions[k] = NoRow /\ \A x \in Worker \ {w} : ~ HoldsKey(x, k)
  PROVE  ExecutionInv'
<1>1. /\ pc' \in [Worker -> Position]
      /\ pc'[w] # "dispatched"
      /\ \A x \in Worker \ {w} : pc'[x] = pc[x]
  BY DEF ExecutionInv, ExecutionTypeOK
<1>2. reply' \in [Worker -> Row \cup {NoRow}]
  BY DEF ExecutionInv, ExecutionTypeOK
<1>3. ExecutionTypeOK'
  <2>1. \A x \in Worker : pc'[x] # "idle" => call'[x] \in CallRecord
    BY <1>1 DEF ExecutionInv, ExecutionTypeOK
  <2> QED
    BY <1>1, <1>2, <2>1 DEF ExecutionInv, ExecutionTypeOK, tables, effects
<1>4. AnswersAreOnRecord'
  <2>1. /\ \A x \in Worker \ {w} : reply'[x] = reply[x]
        /\ reply'[w] # NoRow => reply'[w] = reply[w]
    BY DEF ExecutionInv, ExecutionTypeOK
  <2> QED
    BY <2>1, AnswersStay DEF ExecutionInv, tables
<1> QED
  BY <1>1, <1>3, <1>4, QuietStep DEF ExecutionInv

LEMMA CallStep ==
  ASSUME ExecutionInv, NEW w \in Worker, NEW a \in Action, Call(w, a)
  PROVE  ExecutionInv'
<1>1. /\ pc[w] = "idle"
      /\ pc' = [pc EXCEPT ![w] = "finding"]
      /\ UNCHANGED <<tables, effects, crashes>>
      /\ reply' = [reply EXCEPT ![w] = NoRow]
  BY DEF Call
<1>2. /\ call' \in [Worker -> CallRecord \cup {NoCall}]
      /\ call'[w] \in CallRecord
      /\ \A x \in Worker \ {w} : call'[x] = call[x]
  <2>1. CaseOf[a] \in Case /\ caseStatus[CaseOf[a]] \in CaseStatus
        /\ payStatus[CaseOf[a]] \in PaymentStatus /\ actionStatus[a] \in ActionStatus
    BY ActionAssumption DEF ExecutionInv, ExecutionTypeOK
  <2> QED
    BY <2>1 DEF Call, ExecutionInv, ExecutionTypeOK, CallRecord, ExecutionStatus
<1>3. calls' \in 0 .. MaxCalls
  BY BoundAssumption DEF Call, ExecutionInv, ExecutionTypeOK
<1>4. \A k \in Key : ~ HoldsKey(w, k)'
  BY <1>1 DEF HoldsKey, ExecutionInv, ExecutionTypeOK
<1> QED
  BY <1>1, <1>2, <1>3, <1>4, GoesOnQuietly DEF Position

LEMMA FindKeyStep ==
  ASSUME ExecutionInv, NEW w \in Worker, FindKey(w)
  PROVE  ExecutionInv'
<1>1. ExecutionTypeOK /\ KeyAt(w) \in Key /\ call[w] \in CallRecord
  BY CallFields DEF FindKey, ExecutionInv
<1>2. UNCHANGED <<tables, effects, crashes>> /\ pc[w] = "finding"
  BY DEF FindKey
<1>3. CASE executions[KeyAt(w)] = NoRow
  <2>1. GoesOn(w, "claiming")
    BY <1>3 DEF FindKey
  <2>2. pc' = [pc EXCEPT ![w] = "claiming"] /\ UNCHANGED <<call, reply, calls>>
    BY <2>1 DEF GoesOn
  <2>3. \A k \in Key : ~ HoldsKey(w, k)'
    BY <2>2, <1>1 DEF HoldsKey, ExecutionTypeOK
  <2> QED
    BY <1>1, <1>2, <2>2, <2>3, GoesOnQuietly DEF Position, ExecutionTypeOK
<1>4. CASE executions[KeyAt(w)] # NoRow
  <2> DEFINE row == IF executions[KeyAt(w)].action = call[w].action
                    THEN executions[KeyAt(w)] ELSE NoRow
  <2>1. Ends(w, row)
    BY <1>4 DEF FindKey
  <2>2. row \in Row \cup {NoRow}
    BY <1>1 DEF ExecutionTypeOK
  <2>3. row # NoRow => \E k \in Key : executions[k] = row
    BY <1>1
  <2>4. crashes' \in 0 .. MaxCrashes
    BY <1>1, <1>2 DEF ExecutionTypeOK
  <2> HIDE DEF row
  <2> QED
    BY <1>2, <2>1, <2>2, <2>3, <2>4, EndsQuietly
<1> QED
  BY <1>3, <1>4

LEMMA ClaimStep ==
  ASSUME ExecutionInv, NEW w \in Worker, Claim(w)
  PROVE  ExecutionInv'
<1>1. ExecutionTypeOK /\ KeyAt(w) \in Key /\ call[w] \in CallRecord
  BY CallFields DEF Claim, ExecutionInv
<1>2. UNCHANGED <<tables, effects, crashes>> /\ pc[w] = "claiming" /\ ~ KeyContended(w)
  BY DEF Claim
<1>3. CASE executions[KeyAt(w)] = NoRow
  <2>1. GoesOn(w, "claimed")
    BY <1>3 DEF Claim
  <2>2. pc' = [pc EXCEPT ![w] = "claimed"] /\ UNCHANGED <<call, reply, calls>>
    BY <2>1 DEF GoesOn
  <2>3. \A k \in Key : HoldsKey(w, k)' => k = KeyAt(w)
    BY <2>2 DEF HoldsKey, KeyAt
  <2>4. \A x \in Worker \ {w} : ~ HoldsKey(x, KeyAt(w))
    BY <1>2 DEF KeyContended
  <2> QED
    BY <1>1, <1>2, <1>3, <2>2, <2>3, <2>4, GoesOnQuietly DEF Position, ExecutionTypeOK
<1>4. CASE executions[KeyAt(w)] # NoRow
  <2>1. Ends(w, executions[KeyAt(w)])
    BY <1>4 DEF Claim
  <2>2. executions[KeyAt(w)] \in Row \cup {NoRow} /\ crashes' \in 0 .. MaxCrashes
    BY <1>1, <1>2 DEF ExecutionTypeOK
  <2> QED
    BY <1>1, <1>2, <2>1, <2>2, EndsQuietly
<1> QED
  BY <1>3, <1>4

LEMMA PassGateStep ==
  ASSUME ExecutionInv, NEW w \in Worker, PassGate(w)
  PROVE  ExecutionInv'
<1>1. /\ pc[w] = "claimed" /\ pc' = [pc EXCEPT ![w] = "gated"]
      /\ UNCHANGED <<call, reply, calls, crashes>> /\ UNCHANGED tables /\ UNCHANGED effects
  BY DEF PassGate, GoesOn
<1>2. \A k \in Key : HoldsKey(w, k)' => HoldsKey(w, k)
  BY <1>1 DEF HoldsKey, KeyAt
<1>3. call[w] \in CallRecord /\ call \in [Worker -> CallRecord \cup {NoCall}]
      /\ calls \in 0 .. MaxCalls
  BY <1>1 DEF ExecutionInv, ExecutionTypeOK
<1> QED
  BY <1>1, <1>2, <1>3, GoesOnQuietly DEF Position

LEMMA StartStep ==
  ASSUME ExecutionInv, NEW w \in Worker, Start(w)
  PROVE  ExecutionInv'
<1>1. /\ pc[w] = "gated" /\ pc' = [pc EXCEPT ![w] = "running"]
      /\ UNCHANGED <<reply, calls, crashes>> /\ UNCHANGED tables /\ UNCHANGED effects
  BY DEF Start
<1>2. PICK writes \in BOOLEAN : call' = [call EXCEPT ![w].wrote = writes]
  BY DEF Start
<1>3. call[w] \in CallRecord /\ call \in [Worker -> CallRecord \cup {NoCall}]
      /\ calls \in 0 .. MaxCalls
  BY <1>1 DEF ExecutionInv, ExecutionTypeOK
<1>4. /\ call' \in [Worker -> CallRecord \cup {NoCall}]
      /\ call'[w] \in CallRecord
      /\ call'[w].action = call[w].action
      /\ \A x \in Worker \ {w} : call'[x] = call[x]
  BY <1>2, <1>3 DEF CallRecord
<1>5. \A k \in Key : HoldsKey(w, k)' => HoldsKey(w, k)
  BY <1>1, <1>4 DEF HoldsKey, KeyAt
<1> QED
  BY <1>1, <1>3, <1>4, <1>5, GoesOnQuietly DEF Position

LEMMA RefuseStartStep ==
  ASSUME ExecutionInv, NEW w \in Worker, RefuseStart(w)
  PROVE  ExecutionInv'
<1>1. /\ pc[w] = "gated" /\ Ends(w, NoRow)
      /\ UNCHANGED crashes /\ UNCHANGED tables /\ UNCHANGED effects
  BY DEF RefuseStart
<1>2. crashes' \in 0 .. MaxCrashes
  BY <1>1 DEF ExecutionInv, ExecutionTypeOK
<1> QED
  BY <1>1, <1>2, EndsQuietly

-----------------------------------------------------------------------------
\* A worker that holds a key writes its row and ends: what is said of claims and
\* of dispatches carries over, whichever way the row ended.
LEMMA RecordRow ==
  ASSUME ExecutionInv, NEW w \in Worker, HoldsKey(w, KeyAt(w)),
         NEW row \in Row, row.status \in TerminalExecution,
         executions' = [executions EXCEPT ![KeyAt(w)] = row], UNCHANGED effects,
         NEW answer \in {row, NoRow}, Ends(w, answer)
  PROVE  /\ ClaimsAreExclusive'
         /\ DispatchesAreCounted'
         /\ ResultsArePossible'
         /\ OneSurvivingDispatch'
         /\ ExecutionsEnd'
         /\ AnswersAreOnRecord'
<1> DEFINE k0 == KeyAt(w)
<1>1. ExecutionTypeOK /\ k0 \in Key /\ pc[w] # "idle"
  BY CallFields DEF ExecutionInv, HoldsKey
<1>2. /\ pc'[w] = "idle"
      /\ reply'[w] = answer
      /\ \A x \in Worker \ {w} : /\ pc'[x] = pc[x] /\ call'[x] = call[x]
                                 /\ reply'[x] = reply[x]
  BY <1>1, EndsReleases
<1>3. /\ executions[k0] = NoRow
      /\ executions'[k0] = row
      /\ \A k \in Key \ {k0} : executions'[k] = executions[k]
      /\ dispatched' = dispatched /\ lost' = lost
  BY <1>1 DEF ExecutionInv, ClaimsAreExclusive, ExecutionTypeOK, effects
<1>4. row # NoRow
  <2>1. SUFFICES ASSUME row = NoRow PROVE FALSE
    OBVIOUS
  <2>2. row.status = "no row"
    BY <2>1 DEF NoRow
  <2> QED
    BY <2>2 DEF TerminalExecution
<1>5. \A k \in Key : ~ HoldsKey(w, k)'
  BY <1>2 DEF HoldsKey
<1>6. \A x \in Worker \ {w}, k \in Key : HoldsKey(x, k)' <=> HoldsKey(x, k)
  BY <1>2 DEF HoldsKey, KeyAt
<1>7. \A x \in Worker \ {w} : ~ HoldsKey(x, k0)
  BY <1>1 DEF ExecutionInv, ClaimsAreExclusive
<1> HIDE DEF k0
<1>8. ClaimsAreExclusive'
  <2>1. ASSUME NEW x \in Worker, NEW k \in Key, HoldsKey(x, k)'
        PROVE  /\ executions'[k] = NoRow
               /\ \A y \in Worker \ {x} : ~ HoldsKey(y, k)'
    <3>1. x # w /\ k # k0 /\ HoldsKey(x, k)
      BY <2>1, <1>5, <1>6, <1>7
    <3>2. executions[k] = NoRow /\ \A y \in Worker \ {x} : ~ HoldsKey(y, k)
      BY <3>1 DEF ExecutionInv, ClaimsAreExclusive
    <3> QED
      BY <3>1, <3>2, <1>3, <1>5, <1>6
  <2> QED
    BY <2>1 DEF ClaimsAreExclusive
<1>9. \A k \in Key \ {k0} :
        (\E x \in Worker : pc[x] = "dispatched" /\ HoldsKey(x, k))
          => (\E x \in Worker : pc'[x] = "dispatched" /\ HoldsKey(x, k)')
  <2>1. SUFFICES ASSUME NEW k \in Key \ {k0}, NEW x \in Worker,
                        pc[x] = "dispatched", HoldsKey(x, k)
                 PROVE  pc'[x] = "dispatched" /\ HoldsKey(x, k)'
    OBVIOUS
  <2>2. x # w
    BY <2>1 DEF HoldsKey, k0
  <2> QED
    BY <2>1, <2>2, <1>2, <1>6
<1>10. DispatchesAreCounted'
  <2>1. ASSUME NEW k \in Key, executions'[k] = NoRow
        PROVE  \/ dispatched'[k] = lost'[k]
               \/ \E x \in Worker : pc'[x] = "dispatched" /\ HoldsKey(x, k)'
    <3>1. k # k0 /\ executions[k] = NoRow
      BY <2>1, <1>3, <1>4
    <3> QED
      BY <3>1, <1>3, <1>9 DEF ExecutionInv, DispatchesAreCounted
  <2>2. ASSUME NEW x \in Worker, NEW k \in Key, HoldsKey(x, k)'
        PROVE  dispatched'[k] = IF pc'[x] = "dispatched" THEN lost'[k] + 1 ELSE lost'[k]
    <3>1. x # w /\ HoldsKey(x, k)
      BY <2>2, <1>5, <1>6
    <3> QED
      BY <3>1, <1>2, <1>3 DEF ExecutionInv, DispatchesAreCounted
  <2> QED
    BY <2>1, <2>2 DEF DispatchesAreCounted
<1>11. ResultsArePossible'
  BY <1>2 DEF ExecutionInv, ResultsArePossible
<1>12. OneSurvivingDispatch'
  BY <1>3 DEF ExecutionInv, OneSurvivingDispatch
<1>13. ExecutionsEnd'
  <2>1. ASSUME NEW k \in Key
        PROVE  /\ executions'[k] # NoRow => executions'[k].status \in TerminalExecution
               /\ dispatched'[k] > lost'[k] =>
                    \/ executions'[k] # NoRow
                    \/ \E x \in Worker : pc'[x] = "dispatched" /\ HoldsKey(x, k)'
    <3>1. CASE k = k0
      BY <3>1, <1>3, <1>4
    <3>2. CASE k # k0
      BY <3>2, <1>3, <1>9 DEF ExecutionInv, ExecutionsEnd
    <3> QED
      BY <3>1, <3>2
  <2> QED
    BY <2>1 DEF ExecutionsEnd
<1>14. AnswersAreOnRecord'
  <2>1. reply'[w] # NoRow => \E k \in Key : executions'[k] = reply'[w]
    BY <1>1, <1>2, <1>3 DEF k0
  <2>2. \A k \in Key : executions[k] # NoRow => executions'[k] = executions[k]
    BY <1>3
  <2> QED
    BY <2>1, <2>2, <1>2, AnswersStay DEF ExecutionInv
<1> QED
  BY <1>8, <1>10, <1>11, <1>12, <1>13, <1>14

\* The same row, for the actions: those of another key or another action keep their
\* execution, and none of this key had one.
Records(w, a0, status) ==
  /\ HoldsKey(w, KeyAt(w))
  /\ call[w].action = a0
  /\ executions' = [executions EXCEPT ![KeyAt(w)] = [action |-> a0, status |-> status]]
OnlyExecutes(a0, status) ==
  /\ \A s \in ExecutionStatus : ~ Executed(a0, s)
  /\ \A s \in ExecutionStatus : Executed(a0, s)' <=> s = status
  /\ \A a \in Action \ {a0}, s \in ExecutionStatus : Executed(a, s)' <=> Executed(a, s)

LEMMA RecordActions ==
  ASSUME ExecutionInv, NEW w \in Worker, NEW a0 \in Action, NEW status \in ExecutionStatus,
         Records(w, a0, status)
  PROVE  OnlyExecutes(a0, status)
<1> DEFINE k0 == KeyOf[a0]
<1>0. /\ HoldsKey(w, KeyAt(w)) /\ call[w].action = a0
      /\ executions' = [executions EXCEPT ![KeyAt(w)] = [action |-> a0, status |-> status]]
  BY DEF Records
<1>1. ExecutionTypeOK /\ k0 \in Key /\ k0 = KeyAt(w)
  BY <1>0, CallFields DEF ExecutionInv, HoldsKey, KeyAt
<1>2. executions[k0] = NoRow
  BY <1>0, <1>1 DEF ExecutionInv, ClaimsAreExclusive
<1>3. \A s \in ExecutionStatus : ~ Executed(a0, s)
  BY <1>1, <1>2, NoRowTellsNothing
<1>4. executions'[k0] = [action |-> a0, status |-> status]
  BY <1>0, <1>1 DEF ExecutionTypeOK
<1>5. \A s \in ExecutionStatus : Executed(a0, s)' <=> s = status
  BY <1>1, <1>4 DEF Executed
<1>6. ASSUME NEW a \in Action \ {a0}, NEW s \in ExecutionStatus
      PROVE  Executed(a, s)' <=> Executed(a, s)
  <2>1. CASE KeyOf[a] = k0
    <3>1. ~ Executed(a, s)
      BY <2>1, <1>2, NoRowTellsNothing
    <3>2. ~ Executed(a, s)'
      BY <2>1, <1>4 DEF Executed
    <3> QED
      BY <3>1, <3>2
  <2>2. CASE KeyOf[a] # k0
    <3>1. KeyOf[a] \in Key
      BY ActionAssumption
    <3>2. executions'[KeyOf[a]] = executions[KeyOf[a]]
      BY <2>2, <3>1, <1>0, <1>1 DEF ExecutionTypeOK
    <3> QED
      BY <3>2 DEF Executed
  <2> QED
    BY <2>1, <2>2
<1> QED
  BY <1>3, <1>5, <1>6 DEF OnlyExecutes

\* What a case is explained by stays on record when a row is added.
LEMMA ReasonsStay ==
  ASSUME NEW c \in Case, NEW status, HasReason(c, status),
         \A a \in Action : Executed(a, "SUCCEEDED") => Executed(a, "SUCCEEDED")',
         payStatus[c] = "CAPTURED" => payStatus'[c] = "CAPTURED"
  PROVE  HasReason(c, status)'
BY DEF HasReason, SucceededOn

LEMMA FailGateStep ==
  ASSUME ExecutionInv, NEW w \in Worker, FailGate(w)
  PROVE  ExecutionInv'
<1>1. /\ pc[w] = "claimed" /\ Ends(w, NoRow)
      /\ UNCHANGED <<payStatus, caseStatus, actionStatus, crashes>> /\ UNCHANGED effects
      /\ executions' = [executions EXCEPT
           ![KeyAt(w)] = [action |-> call[w].action, status |-> "CANCELLED"]]
  BY DEF FailGate
<1>2. PICK a0 \in Action : call[w].action = a0
  BY <1>1, CallFields DEF ExecutionInv
<1>3. HoldsKey(w, KeyAt(w)) /\ ExecutionTypeOK /\ KeyAt(w) \in Key
  BY <1>1, CallFields DEF HoldsKey, ExecutionInv
<1> DEFINE row == [action |-> a0, status |-> "CANCELLED"]
<1>4. row \in Row /\ row.status \in TerminalExecution
  BY DEF Row, ExecutionStatus, TerminalExecution
<1>5. /\ ClaimsAreExclusive' /\ DispatchesAreCounted' /\ ResultsArePossible'
      /\ OneSurvivingDispatch' /\ ExecutionsEnd' /\ AnswersAreOnRecord'
  <2> HIDE DEF row
  <2>1. executions' = [executions EXCEPT ![KeyAt(w)] = row]
    BY <1>1, <1>2 DEF row
  <2> QED
    BY <1>1, <1>3, <1>4, <2>1, RecordRow
<1>6. /\ \A s \in ExecutionStatus : ~ Executed(a0, s)
      /\ \A s \in ExecutionStatus : Executed(a0, s)' <=> s = "CANCELLED"
      /\ \A a \in Action \ {a0}, s \in ExecutionStatus : Executed(a, s)' <=> Executed(a, s)
  <2>1. "CANCELLED" \in ExecutionStatus
    BY DEF ExecutionStatus, TerminalExecution
  <2>2. Records(w, a0, "CANCELLED")
    BY <1>1, <1>2, <1>3 DEF Records
  <2>3. OnlyExecutes(a0, "CANCELLED")
    BY <2>1, <2>2, RecordActions
  <2> QED
    BY <2>3 DEF OnlyExecutes
<1>7. {"SUCCEEDED", "FAILED", "UNKNOWN", "CANCELLED"} \subseteq ExecutionStatus
  BY DEF ExecutionStatus, TerminalExecution
<1>8. ActionsFollowExecutions'
  <2>1. ASSUME NEW a \in Action
        PROVE  /\ actionStatus'[a] = "COMPLETED" <=> Executed(a, "SUCCEEDED")'
               /\ actionStatus'[a] = "FAILED" <=> Executed(a, "FAILED")'
               /\ actionStatus'[a] = "EXECUTING" <=> Executed(a, "UNKNOWN")'
               /\ actionStatus'[a] = "CANCELLED" => Executed(a, "CANCELLED")'
    BY <1>1, <1>6, <1>7 DEF ExecutionInv, ActionsFollowExecutions
  <2> QED
    BY <2>1 DEF ActionsFollowExecutions
<1>9. CasesMoveForAReason'
  <2>1. \A a \in Action : Executed(a, "SUCCEEDED") => Executed(a, "SUCCEEDED")'
    BY <1>6, <1>7
  <2> QED
    BY <1>1, <2>1, ReasonsStay DEF ExecutionInv, CasesMoveForAReason
<1>10. ExecutionTypeOK'
  <2>1. executions' \in [Key -> Row \cup {NoRow}]
    BY <1>1, <1>2, <1>3, <1>4 DEF ExecutionTypeOK
  <2> QED
    BY <1>1, <1>3, <2>1, EndsReleases DEF ExecutionTypeOK, effects
<1> QED
  BY <1>5, <1>8, <1>9, <1>10 DEF ExecutionInv

LEMMA CommitStep ==
  ASSUME ExecutionInv, NEW w \in Worker, Commit(w)
  PROVE  ExecutionInv'
<1>1. PICK a0 \in Action : call[w].action = a0
  BY CallFields DEF Commit, ExecutionInv
<1>2. PICK result : call[w].result = result
  OBVIOUS
<1> DEFINE row == [action |-> a0, status |-> result]
<1>3. /\ pc[w] = "dispatched" /\ Ends(w, row)
      /\ UNCHANGED <<payStatus, crashes>> /\ UNCHANGED effects
      /\ executions' = [executions EXCEPT ![KeyOf[a0]] = row]
      /\ actionStatus' = [actionStatus EXCEPT ![a0] = ActionAfter(result)]
      /\ caseStatus' = [caseStatus EXCEPT ![CaseOf[a0]] = CaseAfter(w)]
  BY <1>1, <1>2 DEF Commit
<1>4. /\ HoldsKey(w, KeyAt(w)) /\ ExecutionTypeOK
      /\ KeyAt(w) = KeyOf[a0] /\ KeyOf[a0] \in Key
      /\ CaseAt(w) = CaseOf[a0] /\ CaseOf[a0] \in Case /\ KindOf[a0] \in Kind
  BY <1>1, <1>3, CallFields DEF HoldsKey, ExecutionInv, KeyAt, CaseAt
<1>5. result \in TerminalExecution
  BY <1>1, <1>2, <1>3 DEF ExecutionInv, ResultsArePossible, Results, TerminalExecution
<1>6. row \in Row /\ row.status \in TerminalExecution /\ result \in ExecutionStatus
  BY <1>5 DEF Row, ExecutionStatus
<1>7. /\ ClaimsAreExclusive' /\ DispatchesAreCounted' /\ ResultsArePossible'
      /\ OneSurvivingDispatch' /\ ExecutionsEnd' /\ AnswersAreOnRecord'
  <2> HIDE DEF row
  <2> QED
    BY <1>3, <1>4, <1>6, RecordRow
<1>8. /\ \A s \in ExecutionStatus : ~ Executed(a0, s)
      /\ \A s \in ExecutionStatus : Executed(a0, s)' <=> s = result
      /\ \A a \in Action \ {a0}, s \in ExecutionStatus : Executed(a, s)' <=> Executed(a, s)
  <2>1. Records(w, a0, result)
    BY <1>1, <1>3, <1>4 DEF Records
  <2>2. OnlyExecutes(a0, result)
    BY <1>6, <2>1, RecordActions
  <2> QED
    BY <2>2 DEF OnlyExecutes
<1>9. {"SUCCEEDED", "FAILED", "UNKNOWN", "CANCELLED"} \subseteq ExecutionStatus
  BY DEF ExecutionStatus, TerminalExecution
<1>10. /\ actionStatus' \in [Action -> ActionStatus]
       /\ actionStatus'[a0] = ActionAfter(result)
       /\ \A a \in Action \ {a0} : actionStatus'[a] = actionStatus[a]
  BY <1>3, <1>4, <1>5
     DEF ExecutionTypeOK, ActionAfter, TerminalExecution, ActionStatus, ActionMoves
<1>11. ActionsFollowExecutions'
  <2>1. /\ ActionAfter(result) = "COMPLETED" <=> result = "SUCCEEDED"
        /\ ActionAfter(result) = "FAILED" <=> result = "FAILED"
        /\ ActionAfter(result) = "EXECUTING" <=> result = "UNKNOWN"
        /\ ActionAfter(result) = "CANCELLED" => result = "CANCELLED"
    BY <1>5 DEF ActionAfter, TerminalExecution
  <2>2. ASSUME NEW a \in Action
        PROVE  /\ actionStatus'[a] = "COMPLETED" <=> Executed(a, "SUCCEEDED")'
               /\ actionStatus'[a] = "FAILED" <=> Executed(a, "FAILED")'
               /\ actionStatus'[a] = "EXECUTING" <=> Executed(a, "UNKNOWN")'
               /\ actionStatus'[a] = "CANCELLED" => Executed(a, "CANCELLED")'
    <3>1. CASE a = a0
      BY <3>1, <1>8, <1>9, <1>10, <2>1
    <3>2. CASE a # a0
      BY <3>2, <1>8, <1>9, <1>10 DEF ExecutionInv, ActionsFollowExecutions
    <3> QED
      BY <3>1, <3>2
  <2> QED
    BY <2>2 DEF ActionsFollowExecutions
<1>12. /\ CaseAfter(w) \in {caseStatus[CaseOf[a0]], CaseTarget(w)}
       /\ CaseTarget(w) = IF result = "SUCCEEDED" THEN Goal[KindOf[a0]] ELSE "EXECUTING"
  BY <1>1, <1>2, <1>4 DEF CaseAfter, CaseTarget
<1>13. /\ CaseTarget(w) \in CaseStatus
       /\ caseStatus' \in [Case -> CaseStatus]
       /\ caseStatus'[CaseOf[a0]] = CaseAfter(w)
       /\ \A c \in Case \ {CaseOf[a0]} : caseStatus'[c] = caseStatus[c]
  <2>1. CaseTarget(w) \in CaseStatus
    BY <1>4, <1>12 DEF Goal, Kind, CaseStatus, ActiveCase, TerminalCase
  <2> QED
    BY <2>1, <1>3, <1>4, <1>12 DEF ExecutionTypeOK
<1>14. CasesMoveForAReason'
  <2>1. \A a \in Action : Executed(a, "SUCCEEDED") => Executed(a, "SUCCEEDED")'
    BY <1>8, <1>9
  <2>2. \A c \in Case : HasReason(c, caseStatus[c])
    BY DEF ExecutionInv, CasesMoveForAReason
  <2>3. ASSUME NEW c \in Case PROVE HasReason(c, caseStatus[c])'
    <3>1. PICK status : caseStatus'[c] = status
      OBVIOUS
    <3>2. CASE status = caseStatus[c]
      <4>1. HasReason(c, status)'
        BY <1>3, <2>1, <2>2, <3>2, ReasonsStay
      <4> QED
        BY <3>1, <4>1 DEF HasReason
    <3>3. CASE status # caseStatus[c]
      <4>1. c = CaseOf[a0] /\ status = CaseTarget(w)
        BY <3>1, <3>3, <1>12, <1>13
      <4>2. CASE result = "SUCCEEDED"
        <5>1. SucceededOn(CaseOf[a0], KindOf[a0])'
          BY <4>2, <1>8, <1>9 DEF SucceededOn
        <5>2. status = Goal[KindOf[a0]]
          BY <4>1, <4>2, <1>12
        <5>3. /\ status = "OBSERVING" => KindOf[a0] = "attempt"
              /\ status = "ESCALATED" => KindOf[a0] = "ESCALATE"
              /\ status = "STOPPED" => KindOf[a0] = "STOP"
              /\ status # "RECOVERED"
          BY <5>2, <1>4 DEF Goal, Kind
        <5> QED
          BY <3>1, <4>1, <5>1, <5>3 DEF HasReason
      <4>3. CASE result # "SUCCEEDED"
        BY <3>1, <4>1, <4>3, <1>12 DEF HasReason
      <4> QED
        BY <4>2, <4>3
    <3> QED
      BY <3>2, <3>3
  <2> QED
    BY <2>3 DEF CasesMoveForAReason
<1>15. ExecutionTypeOK'
  <2>1. executions' \in [Key -> Row \cup {NoRow}]
    BY <1>3, <1>4, <1>6 DEF ExecutionTypeOK
  <2> QED
    BY <1>3, <1>4, <1>6, <1>10, <1>13, <2>1, EndsReleases DEF ExecutionTypeOK, effects
<1> QED
  BY <1>7, <1>11, <1>14, <1>15 DEF ExecutionInv

-----------------------------------------------------------------------------
\* A step of w that may call the executor, or lose such a call, for the key w holds;
\* the tables stay, and the other workers do.
LEMMA EffectStep ==
  ASSUME ExecutionInv, NEW w \in Worker, NEW k0 \in Key, HoldsKey(w, k0), UNCHANGED tables,
         \A x \in Worker \ {w} : pc'[x] = pc[x] /\ call'[x] = call[x],
         dispatched' \in [Key -> Nat], lost' \in [Key -> Nat],
         \A k \in Key \ {k0} : dispatched'[k] = dispatched[k] /\ lost'[k] = lost[k],
         dispatched'[k0] = IF pc'[w] = "dispatched" THEN lost'[k0] + 1 ELSE lost'[k0],
         \A k \in Key : HoldsKey(w, k)' => HoldsKey(w, k),
         pc'[w] = "dispatched" => HoldsKey(w, k0)'
  PROVE  /\ ClaimsAreExclusive'
         /\ DispatchesAreCounted'
         /\ OneSurvivingDispatch'
         /\ ExecutionsEnd'
<1>1. /\ \A x \in Worker \ {w}, k \in Key : HoldsKey(x, k)' <=> HoldsKey(x, k)
      /\ \A k \in Key \ {k0} : ~ HoldsKey(w, k)
      /\ executions' = executions
  BY DEF HoldsKey, KeyAt, tables
<1>2. executions[k0] = NoRow /\ \A x \in Worker \ {w} : ~ HoldsKey(x, k0)
  BY DEF ExecutionInv, ClaimsAreExclusive
<1>3. ClaimsAreExclusive'
  BY <1>1 DEF ExecutionInv, ClaimsAreExclusive
<1>4. \A k \in Key \ {k0} :
        (\E x \in Worker : pc'[x] = "dispatched" /\ HoldsKey(x, k)')
          <=> (\E x \in Worker : pc[x] = "dispatched" /\ HoldsKey(x, k))
  BY <1>1
<1>5. dispatched'[k0] = lost'[k0] \/ (pc'[w] = "dispatched" /\ HoldsKey(w, k0)')
  OBVIOUS
<1>6. DispatchesAreCounted'
  <2>1. ASSUME NEW k \in Key, executions'[k] = NoRow
        PROVE  \/ dispatched'[k] = lost'[k]
               \/ \E x \in Worker : pc'[x] = "dispatched" /\ HoldsKey(x, k)'
    <3>1. CASE k = k0
      BY <3>1, <1>5
    <3>2. CASE k # k0
      BY <2>1, <3>2, <1>1, <1>4 DEF ExecutionInv, DispatchesAreCounted
    <3> QED
      BY <3>1, <3>2
  <2>2. ASSUME NEW x \in Worker, NEW k \in Key, HoldsKey(x, k)'
        PROVE  dispatched'[k] = IF pc'[x] = "dispatched" THEN lost'[k] + 1 ELSE lost'[k]
    <3>1. CASE x = w
      BY <2>2, <3>1, <1>1
    <3>2. CASE x # w
      <4>1. HoldsKey(x, k) /\ k # k0
        BY <2>2, <3>2, <1>1, <1>2
      <4> QED
        BY <3>2, <4>1 DEF ExecutionInv, DispatchesAreCounted
    <3> QED
      BY <3>1, <3>2
  <2> QED
    BY <2>1, <2>2 DEF DispatchesAreCounted
<1>7. OneSurvivingDispatch'
  <2>1. ASSUME NEW k \in Key PROVE dispatched'[k] <= lost'[k] + 1
    <3>1. CASE k = k0
      BY <3>1
    <3>2. CASE k # k0
      BY <3>2 DEF ExecutionInv, OneSurvivingDispatch
    <3> QED
      BY <3>1, <3>2
  <2> QED
    BY <2>1 DEF OneSurvivingDispatch
<1>8. ExecutionsEnd'
  <2>1. ASSUME NEW k \in Key
        PROVE  /\ executions'[k] # NoRow => executions'[k].status \in TerminalExecution
               /\ dispatched'[k] > lost'[k] =>
                    \/ executions'[k] # NoRow
                    \/ \E x \in Worker : pc'[x] = "dispatched" /\ HoldsKey(x, k)'
    <3>1. CASE k = k0
      BY <3>1, <1>1, <1>2, <1>5
    <3>2. CASE k # k0
      BY <3>2, <1>1, <1>4 DEF ExecutionInv, ExecutionsEnd
    <3> QED
      BY <3>1, <3>2
  <2> QED
    BY <2>1 DEF ExecutionsEnd
<1> QED
  BY <1>3, <1>6, <1>7, <1>8

LEMMA DispatchStep ==
  ASSUME ExecutionInv, NEW w \in Worker, NEW result \in TerminalExecution, Dispatch(w, result)
  PROVE  ExecutionInv'
<1>1. PICK k0 \in Key : KeyAt(w) = k0
  BY CallFields DEF Dispatch, ExecutionInv
<1>2. /\ pc[w] = "running"
      /\ result \in Results(KindOf[call[w].action])
      /\ dispatched' = [dispatched EXCEPT ![k0] = @ + 1]
      /\ pc' = [pc EXCEPT ![w] = "dispatched"]
      /\ call' = [call EXCEPT ![w].result = result, ![w].found = caseStatus[CaseAt(w)]]
      /\ UNCHANGED <<lost, reply, calls, crashes>> /\ UNCHANGED tables
  BY <1>1 DEF Dispatch
<1>3. /\ HoldsKey(w, k0) /\ ExecutionTypeOK
      /\ call[w] \in CallRecord
  BY <1>1, <1>2, CallFields DEF HoldsKey, ExecutionInv
<1>4. result \in ExecutionStatus /\ caseStatus[CaseAt(w)] \in CaseStatus
  BY <1>2, <1>3, CallFields DEF ExecutionStatus, ExecutionTypeOK
<1>5. /\ call' \in [Worker -> CallRecord \cup {NoCall}]
      /\ call'[w] \in CallRecord
      /\ call'[w].action = call[w].action /\ call'[w].result = result
      /\ \A x \in Worker \ {w} : call'[x] = call[x]
  BY <1>2, <1>3, <1>4 DEF CallRecord, ExecutionTypeOK
<1>6. /\ pc' \in [Worker -> Position] /\ pc'[w] = "dispatched"
      /\ \A x \in Worker \ {w} : pc'[x] = pc[x]
  BY <1>2, <1>3 DEF ExecutionTypeOK, Position
<1>7. /\ dispatched' \in [Key -> Nat] /\ lost' \in [Key -> Nat]
      /\ \A k \in Key \ {k0} : dispatched'[k] = dispatched[k] /\ lost'[k] = lost[k]
      /\ dispatched'[k0] = lost'[k0] + 1
  <2>1. dispatched[k0] = lost[k0]
    BY <1>2, <1>3 DEF ExecutionInv, DispatchesAreCounted
  <2> QED
    BY <2>1, <1>2, <1>3 DEF ExecutionTypeOK
<1>8. \A k \in Key : HoldsKey(w, k)' <=> HoldsKey(w, k)
  BY <1>2, <1>5, <1>6 DEF HoldsKey, KeyAt
<1>9. /\ ClaimsAreExclusive' /\ DispatchesAreCounted'
      /\ OneSurvivingDispatch' /\ ExecutionsEnd'
  BY <1>2, <1>3, <1>5, <1>6, <1>7, <1>8, EffectStep
<1>10. ResultsArePossible'
  BY <1>2, <1>5, <1>6 DEF ExecutionInv, ResultsArePossible
<1>11. ActionsFollowExecutions' /\ CasesMoveForAReason'
  BY <1>2, TablesFrame DEF ExecutionInv
<1>12. AnswersAreOnRecord'
  BY <1>2 DEF ExecutionInv, AnswersAreOnRecord, tables
<1>13. ExecutionTypeOK'
  <2>1. \A x \in Worker : pc'[x] # "idle" => call'[x] \in CallRecord
    BY <1>3, <1>5, <1>6 DEF ExecutionTypeOK
  <2> QED
    BY <2>1, <1>2, <1>3, <1>5, <1>6, <1>7 DEF ExecutionTypeOK, tables
<1> QED
  BY <1>9, <1>10, <1>11, <1>12, <1>13 DEF ExecutionInv

LEMMA CrashStep ==
  ASSUME ExecutionInv, NEW w \in Worker, Crash(w)
  PROVE  ExecutionInv'
<1>1. /\ pc[w] # "idle" /\ crashes' = crashes + 1 /\ crashes < MaxCrashes
      /\ Ends(w, NoRow) /\ UNCHANGED tables /\ dispatched' = dispatched
      /\ lost' = IF pc[w] = "dispatched" THEN [lost EXCEPT ![KeyAt(w)] = @ + 1] ELSE lost
  BY DEF Crash
<1>2. crashes' \in 0 .. MaxCrashes
  BY <1>1, BoundAssumption DEF ExecutionInv, ExecutionTypeOK
<1>3. CASE pc[w] # "dispatched"
  <2>1. UNCHANGED effects
    BY <1>1, <1>3 DEF effects
  <2> QED
    BY <1>1, <1>2, <1>3, <2>1, EndsQuietly
<1>4. CASE pc[w] = "dispatched"
  <2>1. PICK k0 \in Key : KeyAt(w) = k0
    BY <1>1, CallFields DEF ExecutionInv
  <2>2. HoldsKey(w, k0) /\ ExecutionTypeOK
    BY <1>4, <2>1 DEF HoldsKey, ExecutionInv
  <2>3. /\ pc' \in [Worker -> Position]
        /\ call' \in [Worker -> CallRecord \cup {NoCall}]
        /\ reply' \in [Worker -> Row \cup {NoRow}]
        /\ reply'[w] = NoRow /\ pc'[w] = "idle" /\ calls' = calls
        /\ \A x \in Worker \ {w} : /\ pc'[x] = pc[x] /\ call'[x] = call[x]
                                   /\ reply'[x] = reply[x]
    BY <1>1, <2>2, EndsReleases
  <2>4. /\ lost' = [lost EXCEPT ![k0] = @ + 1]
        /\ dispatched[k0] = lost[k0] + 1
    BY <1>1, <1>4, <2>1, <2>2 DEF ExecutionInv, DispatchesAreCounted
  <2>5. /\ dispatched' \in [Key -> Nat] /\ lost' \in [Key -> Nat]
        /\ \A k \in Key \ {k0} : dispatched'[k] = dispatched[k] /\ lost'[k] = lost[k]
        /\ dispatched'[k0] = lost'[k0]
    BY <1>1, <2>2, <2>4 DEF ExecutionTypeOK
  <2>6. \A k \in Key : ~ HoldsKey(w, k)'
    BY <2>3 DEF HoldsKey
  <2>7. /\ ClaimsAreExclusive' /\ DispatchesAreCounted'
        /\ OneSurvivingDispatch' /\ ExecutionsEnd'
    BY <1>1, <2>2, <2>3, <2>5, <2>6, EffectStep
  <2>8. ResultsArePossible'
    BY <2>3 DEF ExecutionInv, ResultsArePossible
  <2>9. ActionsFollowExecutions' /\ CasesMoveForAReason'
    BY <1>1, TablesFrame DEF ExecutionInv
  <2>10. AnswersAreOnRecord'
    BY <1>1, <2>3 DEF ExecutionInv, AnswersAreOnRecord, tables
  <2>11. ExecutionTypeOK'
    BY <1>1, <1>2, <2>2, <2>3, <2>5 DEF ExecutionTypeOK, tables
  <2> QED
    BY <2>7, <2>8, <2>9, <2>10, <2>11 DEF ExecutionInv
<1> QED
  BY <1>3, <1>4

-----------------------------------------------------------------------------
\* A webhook moves a payment, and perhaps its case, and nothing else: a captured
\* payment stays captured, and a case it ends is one whose payment it captures.
LEMMA WebhookStep ==
  ASSUME ExecutionInv,
         payStatus' \in [Case -> PaymentStatus], caseStatus' \in [Case -> CaseStatus],
         \A c \in Case : payStatus[c] = "CAPTURED" => payStatus'[c] = "CAPTURED",
         \A c \in Case : \/ caseStatus'[c] = caseStatus[c]
                         \/ /\ caseStatus'[c] \in {"STOPPED", "RECOVERED"}
                            /\ payStatus'[c] = "CAPTURED",
         UNCHANGED <<actionStatus, executions>>, UNCHANGED effects, UNCHANGED workers
  PROVE  ExecutionInv'
<1>1. /\ executions' = executions /\ actionStatus' = actionStatus
      /\ dispatched' = dispatched /\ lost' = lost
      /\ pc' = pc /\ call' = call /\ reply' = reply
      /\ calls' = calls /\ crashes' = crashes
  BY DEF effects, workers
<1>2. ExecutionTypeOK'
  BY <1>1 DEF ExecutionInv, ExecutionTypeOK
<1>3. \A w \in Worker, k \in Key : HoldsKey(w, k)' <=> HoldsKey(w, k)
  BY <1>1 DEF HoldsKey, KeyAt
<1>4. ClaimsAreExclusive'
  BY <1>1, <1>3 DEF ExecutionInv, ClaimsAreExclusive
<1>5. DispatchesAreCounted'
  BY <1>1, <1>3 DEF ExecutionInv, DispatchesAreCounted
<1>6. ResultsArePossible' /\ OneSurvivingDispatch'
  BY <1>1 DEF ExecutionInv, ResultsArePossible, OneSurvivingDispatch
<1>7. ExecutionsEnd'
  BY <1>1, <1>3 DEF ExecutionInv, ExecutionsEnd
<1>8. ActionsFollowExecutions' /\ AnswersAreOnRecord'
  BY <1>1 DEF ExecutionInv, ActionsFollowExecutions, Executed, AnswersAreOnRecord
<1>9. CasesMoveForAReason'
  BY <1>1 DEF ExecutionInv, CasesMoveForAReason, HasReason, SucceededOn, Executed
<1> QED
  BY <1>2, <1>4, <1>5, <1>6, <1>7, <1>8, <1>9 DEF ExecutionInv

LEMMA WebhookCapturesStep ==
  ASSUME ExecutionInv, NEW c \in Case, WebhookCaptures(c)
  PROVE  ExecutionInv'
<1>1. ExecutionTypeOK
  BY DEF ExecutionInv
<1>2. payStatus' = [payStatus EXCEPT ![c] = "CAPTURED"]
  BY DEF WebhookCaptures
<1>3. /\ payStatus' \in [Case -> PaymentStatus]
      /\ payStatus'[c] = "CAPTURED"
      /\ \A d \in Case : payStatus[d] = "CAPTURED" => payStatus'[d] = "CAPTURED"
  BY <1>1, <1>2 DEF ExecutionTypeOK, PaymentStatus
<1>4. /\ caseStatus' \in [Case -> CaseStatus]
      /\ \A d \in Case : \/ caseStatus'[d] = caseStatus[d]
                         \/ /\ caseStatus'[d] \in {"STOPPED", "RECOVERED"}
                            /\ d = c
  BY <1>1 DEF WebhookCaptures, ExecutionTypeOK, CaseStatus, TerminalCase
<1>5. \A d \in Case : \/ caseStatus'[d] = caseStatus[d]
                      \/ /\ caseStatus'[d] \in {"STOPPED", "RECOVERED"}
                         /\ payStatus'[d] = "CAPTURED"
  BY <1>3, <1>4
<1>6. UNCHANGED <<actionStatus, executions>> /\ UNCHANGED effects /\ UNCHANGED workers
  BY DEF WebhookCaptures
<1> QED
  BY <1>3, <1>4, <1>5, <1>6, WebhookStep

LEMMA WebhookAuthorizesStep ==
  ASSUME ExecutionInv, NEW c \in Case, WebhookAuthorizes(c)
  PROVE  ExecutionInv'
<1>1. ExecutionTypeOK
  BY DEF ExecutionInv
<1>2. /\ payStatus' = [payStatus EXCEPT ![c] = "AUTHORIZED"]
      /\ payStatus[c] # "CAPTURED"
  BY DEF WebhookAuthorizes, MayMovePayment, PaymentMoves
<1>3. /\ payStatus' \in [Case -> PaymentStatus]
      /\ \A d \in Case : payStatus[d] = "CAPTURED" => payStatus'[d] = "CAPTURED"
  BY <1>1, <1>2 DEF ExecutionTypeOK, PaymentStatus
<1>4. caseStatus' = caseStatus /\ caseStatus' \in [Case -> CaseStatus]
  BY <1>1 DEF WebhookAuthorizes, ExecutionTypeOK
<1>5. UNCHANGED <<actionStatus, executions>> /\ UNCHANGED effects /\ UNCHANGED workers
  BY DEF WebhookAuthorizes
<1> QED
  BY <1>3, <1>4, <1>5, WebhookStep

-----------------------------------------------------------------------------
LEMMA ExecutionStart == Init => ExecutionInv
<1> SUFFICES ASSUME Init PROVE ExecutionInv
  OBVIOUS
<1>1. \A w \in Worker, k \in Key : ~ HoldsKey(w, k)
  BY DEF Init, HoldsKey
<1>2. ExecutionTypeOK
  BY BoundAssumption DEF Init, ExecutionTypeOK, PaymentStatus, CaseStatus, ActiveCase,
     EligibleCase, ActionStatus, ActionMoves, Position
<1>3. ClaimsAreExclusive /\ DispatchesAreCounted
  BY <1>1 DEF Init, ClaimsAreExclusive, DispatchesAreCounted
<1>4. ResultsArePossible /\ OneSurvivingDispatch /\ AnswersAreOnRecord
  BY DEF Init, ResultsArePossible, OneSurvivingDispatch, AnswersAreOnRecord
<1>5. ExecutionsEnd
  BY DEF Init, ExecutionsEnd
<1>6. ActionsFollowExecutions
  <2>1. \A a \in Action : executions[KeyOf[a]] = NoRow
    BY ActionAssumption DEF Init
  <2>2. \A a \in Action, s \in ExecutionStatus : ~ Executed(a, s)
    BY <2>1, NoRowTellsNothing
  <2> QED
    BY <2>2 DEF Init, ActionsFollowExecutions, ExecutionStatus, TerminalExecution
<1>7. CasesMoveForAReason
  BY DEF Init, CasesMoveForAReason, HasReason, EligibleCase
<1> QED
  BY <1>2, <1>3, <1>4, <1>5, <1>6, <1>7 DEF ExecutionInv

LEMMA ExecutionStep == ExecutionInv /\ [Next]_vars => ExecutionInv'
<1> SUFFICES ASSUME ExecutionInv, [Next]_vars PROVE ExecutionInv'
  OBVIOUS
<1>1. ASSUME NEW w \in Worker, NEW a \in Action, Call(w, a) PROVE ExecutionInv'
  BY <1>1, CallStep
<1>2. ASSUME NEW w \in Worker, Execute(w) PROVE ExecutionInv'
  <2>1. CASE FindKey(w)
    BY <2>1, FindKeyStep
  <2>2. CASE Claim(w)
    BY <2>2, ClaimStep
  <2>3. CASE PassGate(w)
    BY <2>3, PassGateStep
  <2>4. CASE FailGate(w)
    BY <2>4, FailGateStep
  <2>5. CASE Start(w)
    BY <2>5, StartStep
  <2>6. CASE RefuseStart(w)
    BY <2>6, RefuseStartStep
  <2>7. CASE Commit(w)
    BY <2>7, CommitStep
  <2>8. ASSUME NEW result \in TerminalExecution, Dispatch(w, result) PROVE ExecutionInv'
    BY <2>8, DispatchStep
  <2> QED
    BY <1>2, <2>1, <2>2, <2>3, <2>4, <2>5, <2>6, <2>7, <2>8 DEF Execute
<1>3. ASSUME NEW w \in Worker, Crash(w) PROVE ExecutionInv'
  BY <1>3, CrashStep
<1>4. ASSUME NEW c \in Case, WebhookCaptures(c) \/ WebhookAuthorizes(c) PROVE ExecutionInv'
  BY <1>4, WebhookCapturesStep, WebhookAuthorizesStep
<1>5. CASE UNCHANGED vars
  <2>1. /\ payStatus' = payStatus /\ caseStatus' = caseStatus
        /\ UNCHANGED <<actionStatus, executions>> /\ UNCHANGED effects /\ UNCHANGED workers
    BY <1>5 DEF vars, effects, workers
  <2>2. payStatus' \in [Case -> PaymentStatus] /\ caseStatus' \in [Case -> CaseStatus]
    BY <2>1 DEF ExecutionInv, ExecutionTypeOK
  <2>3. /\ \A c \in Case : payStatus[c] = "CAPTURED" => payStatus'[c] = "CAPTURED"
        /\ \A c \in Case : caseStatus'[c] = caseStatus[c]
    BY <2>1
  <2> QED
    BY <2>1, <2>2, <2>3, WebhookStep
<1> QED
  BY <1>1, <1>2, <1>3, <1>4, <1>5 DEF Next

-----------------------------------------------------------------------------
\* The inductive invariant of durable execution: a key has one open claim or one
\* row, never both, and every call of the executor is counted
\* (execution/orchestrator.py:194-296).
THEOREM ExecutionInvariant == Spec => []ExecutionInv
<1> QED
  BY ExecutionStart, ExecutionStep, PTL DEF Spec

\* The tables and the workers hold values of their types.
THEOREM ExecutionTypes == Spec => []ExecutionTypeOK
<1>1. ExecutionInv => ExecutionTypeOK
  BY DEF ExecutionInv
<1> QED
  BY <1>1, ExecutionInvariant, PTL

\* For any number of workers, the executor is called for one key again only after a
\* call whose transaction was lost: the unique index and the lookup before it
\* suffice against concurrent duplicates (execution/orchestrator.py:194-223).
THEOREM DispatchedOnceUnlessLost == Spec => []OneSurvivingDispatch
<1>1. ExecutionInv => OneSurvivingDispatch
  BY DEF ExecutionInv
<1> QED
  BY <1>1, ExecutionInvariant, PTL

\* No committed execution is PENDING or RUNNING, and each dispatch has its row, its
\* worker or a crash to account for it (execution/orchestrator.py:249-296).
THEOREM ExecutionsAreAccountedFor == Spec => []ExecutionsEnd
<1>1. ExecutionInv => ExecutionsEnd
  BY DEF ExecutionInv
<1> QED
  BY <1>1, ExecutionInvariant, PTL

\* An action has moved exactly as its own execution ended
\* (execution/orchestrator.py:378-440).
THEOREM ActionsAndExecutionsAgree == Spec => []ActionsFollowExecutions
<1>1. ExecutionInv => ActionsFollowExecutions
  BY DEF ExecutionInv
<1> QED
  BY <1>1, ExecutionInvariant, PTL

\* A case was moved on by a recorded success or by a capture, whoever overwrote whose
\* update (execution/orchestrator.py:249-296, recovery/orchestrator.py:115-171).
THEOREM CasesHaveReasons == Spec => []CasesMoveForAReason
<1>1. ExecutionInv => CasesMoveForAReason
  BY DEF ExecutionInv
<1> QED
  BY <1>1, ExecutionInvariant, PTL

\* Whatever a caller of execute was answered is, and stays, the row on record
\* (execution/orchestrator.py:194-223, 286-296).
THEOREM AnswersStayOnRecord == Spec => []AnswersAreOnRecord
<1>1. ExecutionInv => AnswersAreOnRecord
  BY DEF ExecutionInv
<1> QED
  BY <1>1, ExecutionInvariant, PTL

-----------------------------------------------------------------------------
(***************************************************************************)
(* The refinement: durable execution implements the ledger.                *)
(***************************************************************************)
LEMMA RowsAreRows ==
  ASSUME NEW a, NEW status \in TerminalExecution
  PROVE  [action |-> a, status |-> status] # NoRow
<1>1. SUFFICES ASSUME [action |-> a, status |-> status] = NoRow PROVE FALSE
  OBVIOUS
<1>2. NoRow.status = status
  BY <1>1
<1> QED
  BY <1>2 DEF NoRow, TerminalExecution

\* A worker's copy of its action stays current when the worker ends, begins, or goes
\* on with the same copy, and starts with nothing that is not approved.
LEMMA CopiesStayCurrent ==
  ASSUME ExecutionTypeOK, ActionsAreCurrent,
         \A a \in Action : executions'[KeyOf[a]] = NoRow =>
           executions[KeyOf[a]] = NoRow /\ actionStatus'[a] = actionStatus[a],
         \A w \in Worker :
           \/ pc'[w] = "idle"
           \/ /\ pc'[w] = "finding"
              /\ call'[w].moved = actionStatus'[call'[w].action]
           \/ /\ pc[w] # "idle"
              /\ call'[w].action = call[w].action
              /\ call'[w].moved = call[w].moved
              /\ pc'[w] \in {"running", "dispatched"} =>
                   pc[w] \in {"running", "dispatched"} \/ call[w].moved = "APPROVED"
  PROVE  ActionsAreCurrent'
<1>1. SUFFICES ASSUME NEW w \in Worker, pc'[w] # "idle"
               PROVE  /\ executions'[KeyAt(w)'] = NoRow =>
                           call'[w].moved = actionStatus'[call'[w].action]
                      /\ pc'[w] \in {"running", "dispatched"} => call'[w].moved = "APPROVED"
  BY DEF ActionsAreCurrent
<1>2. CASE pc'[w] = "finding" /\ call'[w].moved = actionStatus'[call'[w].action]
  BY <1>2
<1>3. CASE /\ pc[w] # "idle"
           /\ call'[w].action = call[w].action
           /\ call'[w].moved = call[w].moved
           /\ pc'[w] \in {"running", "dispatched"} =>
                pc[w] \in {"running", "dispatched"} \/ call[w].moved = "APPROVED"
  <2>1. call[w].action \in Action /\ KeyAt(w)' = KeyAt(w) /\ KeyAt(w) = KeyOf[call[w].action]
    BY <1>3, CallFields DEF KeyAt
  <2> QED
    BY <1>3, <2>1 DEF ActionsAreCurrent
<1> QED
  BY <1>1, <1>2, <1>3

LEMMA CurrentStep ==
  ASSUME ExecutionInv, ActionsAreCurrent, [Next]_vars
  PROVE  ActionsAreCurrent'
<1>0. ExecutionTypeOK
  BY DEF ExecutionInv
<1>1. ASSUME NEW w \in Worker, NEW a \in Action, Call(w, a)
      PROVE  ActionsAreCurrent'
  <2>1. /\ pc'[w] = "finding" /\ UNCHANGED tables
        /\ call'[w].action = a /\ call'[w].moved = actionStatus[a]
        /\ \A x \in Worker \ {w} : pc'[x] = pc[x] /\ call'[x] = call[x]
    BY <1>0, <1>1 DEF Call, ExecutionTypeOK
  <2> QED
    BY <1>0, <2>1, CopiesStayCurrent DEF tables
<1>2. ASSUME NEW w \in Worker, NEW row \in Row \cup {NoRow}, Ends(w, row), UNCHANGED tables
      PROVE  ActionsAreCurrent'
  BY <1>0, <1>2, EndsReleases, CopiesStayCurrent DEF tables
<1>3. ASSUME NEW w \in Worker, NEW position \in {"claiming", "claimed", "gated"}, pc[w] # "idle",
             GoesOn(w, position), UNCHANGED tables
      PROVE  ActionsAreCurrent'
  <2>1. /\ pc'[w] = position /\ call' = call
        /\ \A x \in Worker \ {w} : pc'[x] = pc[x]
    BY <1>0, <1>3 DEF GoesOn, ExecutionTypeOK
  <2> QED
    BY <1>0, <1>3, <2>1, CopiesStayCurrent DEF tables
<1>4. ASSUME NEW w \in Worker, Start(w)
      PROVE  ActionsAreCurrent'
  <2>1. PICK writes \in BOOLEAN : call' = [call EXCEPT ![w].wrote = writes]
    BY <1>4 DEF Start
  <2>2. /\ pc[w] = "gated" /\ UNCHANGED tables
        /\ \A x \in Worker \ {w} : pc'[x] = pc[x]
    BY <1>0, <1>4 DEF Start, ExecutionTypeOK
  <2>3. call[w] \in CallRecord
    BY <1>0, <2>2, CallFields
  <2>4. /\ call'[w].action = call[w].action /\ call'[w].moved = call[w].moved
        /\ \A x \in Worker \ {w} : call'[x] = call[x]
    BY <1>0, <2>1, <2>3 DEF ExecutionTypeOK, CallRecord
  <2>5. call[w].moved = "APPROVED"
    <3>1. call[w].moved \in ActionStatus /\ "EXECUTING" \in ActionMoves[call[w].moved]
      BY <1>4, <2>3 DEF Start, CallRecord
    <3> QED
      BY <3>1 DEF ActionStatus, ActionMoves
  <2> QED
    BY <1>0, <2>2, <2>4, <2>5, CopiesStayCurrent DEF tables
<1>5. ASSUME NEW w \in Worker, NEW result \in TerminalExecution, Dispatch(w, result)
      PROVE  ActionsAreCurrent'
  <2>1. /\ pc[w] = "running" /\ UNCHANGED tables
        /\ \A x \in Worker \ {w} : pc'[x] = pc[x]
    BY <1>0, <1>5 DEF Dispatch, ExecutionTypeOK
  <2>2. call[w] \in CallRecord
    BY <1>0, <2>1, CallFields
  <2>3. /\ call'[w].action = call[w].action /\ call'[w].moved = call[w].moved
        /\ \A x \in Worker \ {w} : call'[x] = call[x]
    BY <1>0, <1>5, <2>2 DEF Dispatch, ExecutionTypeOK, CallRecord
  <2> QED
    BY <1>0, <2>1, <2>3, CopiesStayCurrent DEF tables
<1>6. ASSUME NEW w \in Worker, FailGate(w)
      PROVE  ActionsAreCurrent'
  <2>1. /\ Ends(w, NoRow) /\ UNCHANGED actionStatus /\ HoldsKey(w, KeyAt(w))
        /\ executions' = [executions EXCEPT
              ![KeyAt(w)] = [action |-> call[w].action, status |-> "CANCELLED"]]
    BY <1>6 DEF FailGate, HoldsKey
  <2>2. \A k \in Key : executions'[k] = NoRow => executions[k] = NoRow
    BY <1>0, <2>1 DEF ExecutionInv, ClaimsAreExclusive, ExecutionTypeOK
  <2>3. \A a \in Action : KeyOf[a] \in Key
    BY ActionAssumption
  <2> QED
    BY <1>0, <2>1, <2>2, <2>3, EndsReleases, CopiesStayCurrent
<1>7. ASSUME NEW w \in Worker, Commit(w)
      PROVE  ActionsAreCurrent'
  <2>1. PICK a0 \in Action : call[w].action = a0
    BY <1>7, CallFields DEF Commit, ExecutionInv
  <2>2. PICK result : call[w].result = result
    OBVIOUS
  <2> DEFINE row == [action |-> a0, status |-> result]
  <2>3. /\ pc[w] = "dispatched" /\ Ends(w, row)
        /\ executions' = [executions EXCEPT ![KeyOf[a0]] = row]
        /\ actionStatus' = [actionStatus EXCEPT ![a0] = ActionAfter(result)]
    BY <1>7, <2>1, <2>2 DEF Commit
  <2>4. result \in TerminalExecution
    BY <2>1, <2>2, <2>3 DEF ExecutionInv, ResultsArePossible, Results, TerminalExecution
  <2>5. row # NoRow /\ row \in Row
    BY <2>4, RowsAreRows DEF Row, ExecutionStatus
  <2> HIDE DEF row
  <2>6. \A a \in Action : executions'[KeyOf[a]] = NoRow =>
          executions[KeyOf[a]] = NoRow /\ actionStatus'[a] = actionStatus[a]
    <3>1. \A a \in Action : KeyOf[a] \in Key
      BY ActionAssumption
    <3> QED
      BY <1>0, <2>3, <2>5, <3>1 DEF ExecutionTypeOK
  <2> QED
    BY <1>0, <2>3, <2>5, <2>6, EndsReleases, CopiesStayCurrent
<1>8. ASSUME UNCHANGED <<actionStatus, executions, pc, call>>
      PROVE  ActionsAreCurrent'
  BY <1>8 DEF ActionsAreCurrent, KeyAt
<1>9. ASSUME NEW w \in Worker, FindKey(w) \/ Claim(w) \/ PassGate(w) \/ RefuseStart(w) \/ Crash(w)
      PROVE  \/ \E row \in Row \cup {NoRow} : Ends(w, row) /\ UNCHANGED tables
             \/ \E position \in {"claiming", "claimed", "gated"} :
                  pc[w] # "idle" /\ GoesOn(w, position) /\ UNCHANGED tables
  <2>1. pc[w] # "idle" /\ UNCHANGED tables
    BY <1>9 DEF FindKey, Claim, PassGate, RefuseStart, Crash
  <2>2. executions[KeyAt(w)] \in Row \cup {NoRow}
    BY <1>0, <2>1, CallFields DEF ExecutionTypeOK
  <2> QED
    BY <1>9, <2>1, <2>2 DEF FindKey, Claim, PassGate, RefuseStart, Crash
<1> QED
  BY <1>1, <1>2, <1>3, <1>4, <1>5, <1>6, <1>7, <1>8, <1>9
     DEF Next, Execute, WebhookCaptures, WebhookAuthorizes, workers, vars

\* Rows and captures stay, so what is explained by them stays explained.
LEMMA RecordsStay ==
  ASSUME ExecutionInv, [Next]_vars
  PROVE  /\ \A a \in Action : Executed(a, "SUCCEEDED") => Executed(a, "SUCCEEDED")'
         /\ \A c \in Case : payStatus[c] = "CAPTURED" => payStatus'[c] = "CAPTURED"
<1>0. ExecutionTypeOK /\ \A a \in Action : KeyOf[a] \in Key
  BY ActionAssumption DEF ExecutionInv
<1>1. \A k \in Key : executions[k] # NoRow => executions'[k] = executions[k]
  <2>1. CASE UNCHANGED executions
    BY <2>1
  <2>2. ASSUME NEW w \in Worker, HoldsKey(w, KeyAt(w)), NEW row,
               executions' = [executions EXCEPT ![KeyAt(w)] = row]
        PROVE  \A k \in Key : executions[k] # NoRow => executions'[k] = executions[k]
    BY <1>0, <2>2 DEF ExecutionInv, ClaimsAreExclusive, ExecutionTypeOK
  <2>3. ASSUME NEW w \in Worker, FailGate(w) \/ Commit(w)
        PROVE  HoldsKey(w, KeyAt(w)) /\ \E row :
                 executions' = [executions EXCEPT ![KeyAt(w)] = row]
    BY <2>3 DEF FailGate, Commit, HoldsKey, KeyAt
  <2>4. \/ UNCHANGED executions
        \/ \E w \in Worker : FailGate(w) \/ Commit(w)
    BY DEF Next, Execute, Call, FindKey, Claim, PassGate, Start, RefuseStart, Dispatch, Crash,
           WebhookCaptures, WebhookAuthorizes, tables, vars
  <2> QED
    BY <2>1, <2>2, <2>3, <2>4
<1>2. \A a \in Action : Executed(a, "SUCCEEDED") => Executed(a, "SUCCEEDED")'
  <2>1. \A a \in Action : executions[KeyOf[a]] = NoRow => ~ Executed(a, "SUCCEEDED")
    BY NoRowTellsNothing DEF ExecutionStatus, TerminalExecution
  <2> QED
    BY <1>0, <1>1, <2>1 DEF Executed
<1>3. \A c \in Case : payStatus[c] = "CAPTURED" => payStatus'[c] = "CAPTURED"
  <2>1. ASSUME NEW c \in Case, WebhookCaptures(c) \/ WebhookAuthorizes(c), NEW d \in Case,
               payStatus[d] = "CAPTURED"
        PROVE  payStatus'[d] = "CAPTURED"
    BY <1>0, <2>1 DEF WebhookCaptures, WebhookAuthorizes, ExecutionTypeOK, MayMovePayment,
       PaymentMoves
  <2>2. \/ UNCHANGED payStatus
        \/ \E c \in Case : WebhookCaptures(c) \/ WebhookAuthorizes(c)
    BY DEF Next, Execute, Call, FindKey, Claim, PassGate, FailGate, Start, RefuseStart, Dispatch,
           Commit, Crash, tables, vars
  <2> QED
    BY <2>1, <2>2
<1> QED
  BY <1>2, <1>3

\* A case is found as what it is, which has its reason on record.
LEMMA FoundStep ==
  ASSUME ExecutionInv, FoundForAReason, [Next]_vars
  PROVE  FoundForAReason'
<1>0. ExecutionTypeOK
  BY DEF ExecutionInv
<1>1. SUFFICES ASSUME NEW w \in Worker, pc'[w] = "dispatched"
               PROVE  HasReason(CaseAt(w), call[w].found)'
  BY DEF FoundForAReason
<1>2. ASSUME NEW c \in Case, NEW status, HasReason(c, status)
      PROVE  HasReason(c, status)'
  BY <1>2, RecordsStay, ReasonsStay
<1>3. \/ pc[w] = "dispatched" /\ call'[w] = call[w]
      \/ \E result \in TerminalExecution : Dispatch(w, result)
  <2>1. CASE \E a \in Action : Call(w, a)
    BY <1>0, <1>1, <2>1 DEF Call, ExecutionTypeOK
  <2>2. ASSUME NEW x \in Worker, NEW row, Ends(x, row)
        PROVE  pc[w] = "dispatched" /\ call'[w] = call[w]
    BY <1>0, <1>1, <2>2 DEF Ends, ExecutionTypeOK
  <2>3. ASSUME NEW x \in Worker, NEW position \in {"claiming", "claimed", "gated"},
               GoesOn(x, position)
        PROVE  pc[w] = "dispatched" /\ call'[w] = call[w]
    BY <1>0, <1>1, <2>3 DEF GoesOn, ExecutionTypeOK
  <2>4. ASSUME NEW x \in Worker, Start(x)
        PROVE  pc[w] = "dispatched" /\ call'[w] = call[w]
    BY <1>0, <1>1, <2>4 DEF Start, ExecutionTypeOK
  <2>5. ASSUME NEW x \in Worker \ {w}, NEW result \in TerminalExecution, Dispatch(x, result)
        PROVE  pc[w] = "dispatched" /\ call'[w] = call[w]
    BY <1>0, <1>1, <2>5 DEF Dispatch, ExecutionTypeOK
  <2>6. ASSUME NEW x \in Worker \ {w}, NEW a \in Action, Call(x, a)
        PROVE  pc[w] = "dispatched" /\ call'[w] = call[w]
    BY <1>0, <1>1, <2>6 DEF Call, ExecutionTypeOK
  <2>7. ASSUME UNCHANGED <<pc, call>>
        PROVE  pc[w] = "dispatched" /\ call'[w] = call[w]
    BY <1>1, <2>7
  <2>8. ASSUME NEW x \in Worker, \/ FindKey(x) \/ Claim(x) \/ PassGate(x) \/ FailGate(x)
                                 \/ RefuseStart(x) \/ Commit(x) \/ Crash(x)
        PROVE  \/ \E row : Ends(x, row)
               \/ \E position \in {"claiming", "claimed", "gated"} : GoesOn(x, position)
    BY <2>8 DEF FindKey, Claim, PassGate, FailGate, RefuseStart, Commit, Crash
  <2> QED
    BY <2>1, <2>2, <2>3, <2>4, <2>5, <2>6, <2>7, <2>8
       DEF Next, Execute, WebhookCaptures, WebhookAuthorizes, workers, vars
<1>4. CASE pc[w] = "dispatched" /\ call'[w] = call[w]
  <2>1. /\ CaseAt(w) \in Case /\ call[w].found \in CaseStatus
        /\ HasReason(CaseAt(w), call[w].found)
    BY <1>0, <1>4, CallFields DEF FoundForAReason, CallRecord
  <2>2. PICK c \in Case, status \in CaseStatus : c = CaseAt(w) /\ status = call[w].found
    BY <2>1
  <2>3. HasReason(c, status)'
    BY <1>2, <2>1, <2>2
  <2>4. CaseAt(w)' = c /\ call'[w].found = status
    BY <1>4, <2>2 DEF CaseAt
  <2> QED
    BY <2>3, <2>4 DEF HasReason, SucceededOn
<1>5. ASSUME NEW result \in TerminalExecution, Dispatch(w, result)
      PROVE  HasReason(CaseAt(w), call[w].found)'
  <2>1. /\ CaseAt(w) \in Case /\ call[w] \in CallRecord
        /\ caseStatus[CaseAt(w)] \in CaseStatus
    BY <1>0, <1>5, CallFields DEF Dispatch, ExecutionTypeOK
  <2>2. PICK c \in Case, status \in CaseStatus : c = CaseAt(w) /\ status = caseStatus[c]
    BY <2>1
  <2>3. HasReason(c, status)
    BY <2>2 DEF ExecutionInv, CasesMoveForAReason
  <2>4. HasReason(c, status)'
    BY <1>2, <2>3
  <2>5. call' = [call EXCEPT ![w].result = result, ![w].found = status]
    BY <1>5, <2>2 DEF Dispatch
  <2>6. call'[w].action = call[w].action /\ call'[w].found = status
    BY <1>0, <2>1, <2>5 DEF CallRecord, ExecutionTypeOK
  <2>7. CaseAt(w)' = c
    BY <2>2, <2>6 DEF CaseAt
  <2> QED
    BY <2>4, <2>6, <2>7 DEF HasReason, SucceededOn
<1> QED
  BY <1>3, <1>4, <1>5

\* An effect counts as soon as its transaction has ended.
LEMMA SettledStays ==
  ASSUME UNCHANGED executions,
         \A k \in Key : executions[k] = NoRow => lost'[k] = lost[k],
         \A k \in Key : executions[k] # NoRow => dispatched'[k] = dispatched[k]
  PROVE  Settled' = Settled
BY DEF Settled

\* What a worker that has called the executor is about to settle.
LEMMA TakenIsApproved ==
  ASSUME ExecutionInv, ActionsAreCurrent, NEW w \in Worker, pc[w] = "dispatched",
         NEW a0 \in Action, call[w].action = a0
  PROVE  /\ KeyOf[a0] \in Key /\ KeyAt(w) = KeyOf[a0] /\ HoldsKey(w, KeyOf[a0])
         /\ executions[KeyOf[a0]] = NoRow
         /\ actionStatus[a0] = "APPROVED"
         /\ Settled[KeyOf[a0]] = lost[KeyOf[a0]]
         /\ dispatched[KeyOf[a0]] = Settled[KeyOf[a0]] + 1
         /\ Settled[KeyOf[a0]] \in Nat
<1>1. KeyOf[a0] \in Key /\ KeyAt(w) = KeyOf[a0] /\ HoldsKey(w, KeyOf[a0])
  BY ActionAssumption DEF KeyAt, HoldsKey
<1>2. /\ executions[KeyOf[a0]] = NoRow
      /\ dispatched[KeyOf[a0]] = lost[KeyOf[a0]] + 1
  BY <1>1 DEF ExecutionInv, ClaimsAreExclusive, DispatchesAreCounted
<1>3. actionStatus[a0] = "APPROVED"
  BY <1>1, <1>2 DEF ActionsAreCurrent
<1>4. Settled[KeyOf[a0]] = lost[KeyOf[a0]]
  BY <1>1, <1>2 DEF Settled
<1>5. lost[KeyOf[a0]] \in Nat
  BY <1>1 DEF ExecutionInv, ExecutionTypeOK
<1> QED
  BY <1>1, <1>2, <1>3, <1>4, <1>5

\* A row that is written settles the call of the executor it tells of, if there was one.
LEMMA RowSettles ==
  ASSUME ExecutionTypeOK, NEW k0 \in Key, NEW row, row # NoRow,
         executions' = [executions EXCEPT ![k0] = row], UNCHANGED effects
  PROVE  Settled' = [Settled EXCEPT ![k0] = dispatched[k0]]
<1>1. /\ executions'[k0] = row
      /\ \A k \in Key \ {k0} : executions'[k] = executions[k]
  BY DEF ExecutionTypeOK
<1> QED
  BY <1>1 DEF Settled, effects

\* The transaction of an execution is one of two promises.
LEMMA CommitIsExecution ==
  ASSUME ExecutionInv, ActionsAreCurrent, FoundForAReason, NEW w \in Worker, Commit(w)
  PROVE  Ledger!Next
<1>0. ExecutionTypeOK
  BY DEF ExecutionInv
<1>1. PICK a0 \in Action : call[w].action = a0
  BY CallFields DEF Commit, ExecutionInv
<1>2. PICK result : call[w].result = result
  OBVIOUS
<1> DEFINE row == [action |-> a0, status |-> result]
           k0 == KeyOf[a0]
           c0 == CaseOf[a0]
<1>3. /\ pc[w] = "dispatched" /\ UNCHANGED payStatus /\ UNCHANGED effects
      /\ executions' = [executions EXCEPT ![k0] = row]
      /\ actionStatus' = [actionStatus EXCEPT ![a0] = ActionAfter(result)]
      /\ caseStatus' = [caseStatus EXCEPT ![c0] = CaseAfter(w)]
  BY <1>1, <1>2 DEF Commit
<1>4. /\ k0 \in Key /\ executions[k0] = NoRow /\ actionStatus[a0] = "APPROVED"
      /\ dispatched[k0] = Settled[k0] + 1
  BY <1>1, <1>3, TakenIsApproved
<1>5. result \in TerminalExecution /\ result \in Results(KindOf[a0])
  BY <1>1, <1>2, <1>3 DEF ExecutionInv, ResultsArePossible, Results, TerminalExecution
<1>6. row # NoRow
  BY <1>5, RowsAreRows
<1>7. Settled' = [Settled EXCEPT ![k0] = @ + 1]
  <2> HIDE DEF row
  <2>1. Settled' = [Settled EXCEPT ![k0] = dispatched[k0]]
    BY <1>0, <1>3, <1>4, <1>6, RowSettles
  <2> QED
    BY <1>4, <2>1 DEF Settled
<1>8. Ledger!Takes(a0)
  BY <1>4, <1>7 DEF Ledger!Takes
<1>9. Ledger!Records(a0, result)
  BY <1>3 DEF Ledger!Records
<1>10. CaseOf[a0] \in Case /\ CaseAt(w) = c0 /\ KindOf[a0] \in Kind
  BY <1>1, ActionAssumption DEF CaseAt
<1>11. CASE result = "SUCCEEDED"
  <2>1. CaseTarget(w) = Ledger!Goal[KindOf[a0]]
    BY <1>1, <1>2, <1>10, <1>11 DEF CaseTarget, Goal, Ledger!Goal, Kind
  <2>2. ActionAfter(result) = "COMPLETED"
    BY <1>11 DEF ActionAfter
  <2>3. \/ caseStatus' = [caseStatus EXCEPT ![c0] = Ledger!Goal[KindOf[a0]]]
        \/ Ledger!Reached(a0) /\ UNCHANGED caseStatus
    <3>1. CASE ~ FoundInPlace(w)
      BY <3>1, <1>3, <2>1 DEF CaseAfter
    <3>2. CASE FoundInPlace(w)
      <4>1. UNCHANGED caseStatus
        BY <3>2, <1>0, <1>3, <1>10 DEF CaseAfter, ExecutionTypeOK
      <4>2. HasReason(c0, call[w].found) /\ call[w].found = Ledger!Goal[KindOf[a0]]
        BY <3>2, <1>3, <1>10, <2>1 DEF FoundForAReason, FoundInPlace
      <4>3. payStatus[c0] = "CAPTURED" \/ SucceededOn(c0, KindOf[a0])
        BY <4>2, <1>10 DEF HasReason, Ledger!Goal, Kind
      <4>4. Ledger!Reached(a0)
        BY <4>3 DEF SucceededOn, Executed, Ledger!Reached
      <4> QED
        BY <4>1, <4>4
    <3> QED
      BY <3>1, <3>2
  <2>4. Ledger!Succeeds(a0)
    BY <1>3, <1>8, <1>9, <1>11, <2>2, <2>3 DEF Ledger!Succeeds
  <2> QED
    BY <2>4 DEF Ledger!Next
<1>12. CASE result # "SUCCEEDED"
  <2>1. KindOf[a0] = "attempt" /\ result \in {"FAILED", "CANCELLED", "UNKNOWN"}
    BY <1>5, <1>12 DEF Results, TerminalExecution
  <2>2. ActionAfter(result) = Ledger!Status[result] /\ result \in DOMAIN Ledger!Status
    BY <2>1 DEF ActionAfter, Ledger!Status
  <2>3. CaseAfter(w) = "EXECUTING" \/ CaseAfter(w) = caseStatus[c0]
    BY <1>2, <1>10, <1>12 DEF CaseAfter, CaseTarget
  <2>4. caseStatus' = caseStatus \/ caseStatus' = [caseStatus EXCEPT ![c0] = "EXECUTING"]
    BY <1>0, <1>3, <1>10, <2>3 DEF ExecutionTypeOK
  <2>5. Ledger!EndsWithout(a0, result)
    BY <1>3, <1>8, <1>9, <2>1, <2>2, <2>4 DEF Ledger!EndsWithout
  <2> QED
    BY <2>2, <2>5 DEF Ledger!Next
<1> QED
  BY <1>11, <1>12

\* A claim that the gate refuses uses its key up without an effect.
LEMMA FailGateIsWithdrawal ==
  ASSUME ExecutionInv, NEW w \in Worker, FailGate(w)
  PROVE  Ledger!Next
<1>1. PICK a0 \in Action : call[w].action = a0
  BY CallFields DEF FailGate, ExecutionInv
<1> DEFINE row == [action |-> a0, status |-> "CANCELLED"]
           k0 == KeyOf[a0]
<1>2. /\ pc[w] = "claimed" /\ k0 \in Key /\ HoldsKey(w, k0)
      /\ UNCHANGED <<payStatus, caseStatus, actionStatus>> /\ UNCHANGED effects
      /\ executions' = [executions EXCEPT ![k0] = row]
  BY <1>1, ActionAssumption DEF FailGate, HoldsKey, KeyAt
<1>3. executions[k0] = NoRow /\ dispatched[k0] = lost[k0]
  BY <1>2 DEF ExecutionInv, ClaimsAreExclusive, DispatchesAreCounted
<1>4. row # NoRow
  BY RowsAreRows DEF TerminalExecution
<1>5. Settled' = Settled
  <2> HIDE DEF row
  <2>1. Settled' = [Settled EXCEPT ![k0] = dispatched[k0]]
    BY <1>2, <1>4, RowSettles DEF ExecutionInv
  <2> QED
    BY <1>2, <1>3, <2>1 DEF Settled
<1>6. Ledger!Withdraws(a0)
  BY <1>2, <1>3, <1>5 DEF Ledger!Withdraws, Ledger!Records
<1> QED
  BY <1>6 DEF Ledger!Next

\* A worker that dies after it called the executor has an effect vanish; before, nothing.
LEMMA CrashLosesAnEffect ==
  ASSUME ExecutionInv, ActionsAreCurrent, NEW w \in Worker, Crash(w)
  PROVE  Ledger!Next \/ UNCHANGED <<tables, Settled>>
<1>1. /\ pc[w] # "idle" /\ UNCHANGED tables /\ dispatched' = dispatched
      /\ lost' = IF pc[w] = "dispatched" THEN [lost EXCEPT ![KeyAt(w)] = @ + 1] ELSE lost
  BY DEF Crash
<1>2. PICK a0 \in Action : call[w].action = a0
  BY <1>1, CallFields DEF ExecutionInv
<1> DEFINE k0 == KeyOf[a0]
<1>3. CASE pc[w] = "dispatched"
  <2>1. /\ k0 \in Key /\ KeyAt(w) = k0
        /\ executions[k0] = NoRow /\ actionStatus[a0] = "APPROVED"
    BY <1>2, <1>3, TakenIsApproved
  <2>2. lost' = [lost EXCEPT ![k0] = @ + 1]
    BY <1>1, <1>3, <2>1
  <2>3. Settled' = [Settled EXCEPT ![k0] = @ + 1]
    BY <1>1, <2>1, <2>2 DEF Settled, tables, ExecutionInv, ExecutionTypeOK
  <2>4. Ledger!Vanishes(a0)
    BY <1>1, <2>1, <2>3 DEF Ledger!Vanishes, Ledger!Takes, tables
  <2> QED
    BY <2>4 DEF Ledger!Next
<1>4. CASE pc[w] # "dispatched"
  <2>1. Settled' = Settled
    BY <1>1, <1>4, SettledStays DEF tables
  <2> QED
    BY <1>1, <2>1
<1> QED
  BY <1>3, <1>4

LEMMA WebhooksArePromised ==
  ASSUME ExecutionInv, NEW c \in Case, WebhookCaptures(c) \/ WebhookAuthorizes(c)
  PROVE  Ledger!Next
<1>1. /\ UNCHANGED <<actionStatus, executions>> /\ UNCHANGED effects
      /\ caseStatus \in [Case -> CaseStatus]
  BY DEF WebhookCaptures, WebhookAuthorizes, ExecutionInv, ExecutionTypeOK
<1>2. Settled' = Settled
  BY <1>1, SettledStays DEF effects
<1>3. CASE WebhookCaptures(c)
  <2>1. MayMovePayment(payStatus[c], "CAPTURED") <=> Ledger!MayMovePayment(payStatus[c], "CAPTURED")
    BY DEF MayMovePayment, Ledger!MayMovePayment, PaymentMoves, Ledger!PaymentMoves
  <2>2. CASE caseStatus[c] \in ActiveCase
    <3>1. caseStatus' = [caseStatus EXCEPT
            ![c] = IF @ = "OBSERVING" THEN "RECOVERED" ELSE "STOPPED"]
      BY <1>3, <2>2 DEF WebhookCaptures
    <3>2. Ledger!Captured(c)
      BY <1>1, <1>2, <1>3, <2>1, <2>2, <3>1
         DEF WebhookCaptures, Ledger!Captured, ActiveCase, Ledger!ActiveCase
    <3> QED
      BY <3>2 DEF Ledger!Next
  <2>3. CASE caseStatus[c] \notin ActiveCase
    <3>1. caseStatus' = caseStatus
      BY <1>3, <2>3 DEF WebhookCaptures
    <3>2. caseStatus[c] # "OBSERVING"
      BY <2>3 DEF ActiveCase
    <3>3. Ledger!Captured(c)
      BY <1>1, <1>2, <1>3, <2>1, <2>3, <3>1, <3>2
         DEF WebhookCaptures, Ledger!Captured, ActiveCase, Ledger!ActiveCase
    <3> QED
      BY <3>3 DEF Ledger!Next
  <2> QED
    BY <2>2, <2>3
<1>4. CASE WebhookAuthorizes(c)
  <2>1. Ledger!Authorized(c)
    BY <1>2, <1>4
       DEF WebhookAuthorizes, Ledger!Authorized, MayMovePayment, Ledger!MayMovePayment,
           PaymentMoves, Ledger!PaymentMoves
  <2> QED
    BY <2>1 DEF Ledger!Next
<1> QED
  BY <1>3, <1>4

LEMMA StepIsPromised ==
  ASSUME ExecutionInv, ActionsAreCurrent, FoundForAReason, [Next]_vars
  PROVE  [Ledger!Next]_(Ledger!vars)
<1> SUFFICES Ledger!Next \/ UNCHANGED <<tables, Settled>>
  BY DEF Ledger!vars, tables
<1>1. ASSUME UNCHANGED tables, UNCHANGED effects
      PROVE  UNCHANGED <<tables, Settled>>
  BY <1>1, SettledStays DEF tables, effects
<1>2. ASSUME NEW w \in Worker, NEW result \in TerminalExecution, Dispatch(w, result)
      PROVE  UNCHANGED <<tables, Settled>>
  <2>1. /\ pc[w] = "running" /\ UNCHANGED <<tables, lost>>
        /\ dispatched' = [dispatched EXCEPT ![KeyAt(w)] = @ + 1]
    BY <1>2 DEF Dispatch
  <2>2. KeyAt(w) \in Key /\ HoldsKey(w, KeyAt(w))
    BY <2>1, CallFields DEF HoldsKey, ExecutionInv
  <2>3. executions[KeyAt(w)] = NoRow
    BY <2>2 DEF ExecutionInv, ClaimsAreExclusive
  <2>4. \A k \in Key : executions[k] # NoRow => dispatched'[k] = dispatched[k]
    BY <2>1, <2>3 DEF ExecutionInv, ExecutionTypeOK
  <2> QED
    BY <2>1, <2>4, SettledStays DEF tables
<1>3. ASSUME NEW w \in Worker, FindKey(w) \/ Claim(w) \/ PassGate(w) \/ Start(w) \/ RefuseStart(w)
      PROVE  UNCHANGED tables /\ UNCHANGED effects
  BY <1>3 DEF FindKey, Claim, PassGate, Start, RefuseStart
<1>4. ASSUME NEW w \in Worker, NEW a \in Action, Call(w, a)
      PROVE  UNCHANGED tables /\ UNCHANGED effects
  BY <1>4 DEF Call
<1>5. CASE UNCHANGED vars
  BY <1>1, <1>5 DEF vars, tables, effects
<1> QED
  BY <1>1, <1>2, <1>3, <1>4, <1>5, CommitIsExecution, FailGateIsWithdrawal, CrashLosesAnEffect,
     WebhooksArePromised DEF Next, Execute

\* The transactions of execute, with their copies, locks and crashes, do what the
\* one-step ledger promises: an action that is approved has its effect, is recorded
\* and moves its case on in one step, once for each key, unless the effect is lost
\* (execution/orchestrator.py:154-330).
THEOREM ExecutionImplementsLedger == Spec => ImplementsExecutions
<1>1. Init => Ledger!Init
  <2> SUFFICES ASSUME Init PROVE Ledger!Init
    OBVIOUS
  <2>1. Settled = [k \in Key |-> 0]
    BY DEF Init, Settled
  <2> QED
    BY <2>1 DEF Init, Ledger!Init, EligibleCase, PaymentStatus, Ledger!PaymentStatus
<1>2. Init => ActionsAreCurrent /\ FoundForAReason
  BY DEF Init, ActionsAreCurrent, FoundForAReason
<1>3. /\ ExecutionInv /\ ActionsAreCurrent /\ [Next]_vars => ActionsAreCurrent'
      /\ ExecutionInv /\ FoundForAReason /\ [Next]_vars => FoundForAReason'
  BY CurrentStep, FoundStep
<1>4. ExecutionInv /\ ActionsAreCurrent /\ FoundForAReason /\ [Next]_vars => [Ledger!Next]_(Ledger!vars)
  BY StepIsPromised
<1> QED
  BY <1>1, <1>2, <1>3, <1>4, ExecutionInvariant, PTL
     DEF Spec, ImplementsExecutions, Ledger!Spec
============================================================================
