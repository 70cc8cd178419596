-------------------------- MODULE CaseTransitions --------------------------
(***************************************************************************)
(* RecoveryCaseOrchestrator.transition_case (recovery/orchestrator.py),    *)
(* called by workers that advance a recovery case while webhooks of the    *)
(* same payment are handled.  A worker's transaction reads the case and    *)
(* the payment without a lock, checks the move on what it read, and saves  *)
(* the case (RecoveryCaseRepository.save), which reads the row again and   *)
(* writes what differs from it: nothing compares either with what was      *)
(* read first.                                                             *)
(***************************************************************************)
EXTENDS EventPipeline

CONSTANTS
  Worker,         \* callers of transition_case
  Asked,          \* the statuses they ask for
  MaxTransitions  \* bound on the transitions that are committed

ASSUME AskedAssumption == Asked \subseteq CaseStatus
ASSUME TransitionsAssumption == MaxTransitions \in Nat

VARIABLES
  job,            \* each worker's open transaction
  transitions     \* transitions committed so far

workers == <<job, transitions>>
allVars == <<database, handlers, workers>>

\* stage "read": the case has been read; "checked": the payment too, and the
\* move is legal on the values read; "saving": save has found the row with status
\* found.
Job == [stage : {"read", "checked", "saving"}, case : Delivery,
        from : CaseStatus, to : CaseStatus, found : CaseStatus]
NoJob == [stage |-> "idle"]

WorkersTypeOK ==
  /\ TypeOK
  /\ job \in [Worker -> Job \cup {NoJob}]
  /\ transitions \in 0 .. MaxTransitions

WorkersInit ==
  /\ Init
  /\ job = [w \in Worker |-> NoJob]
  /\ transitions = 0

-----------------------------------------------------------------------------
ReadCaseUnchecked(w, c, to) ==
  /\ job[w] = NoJob
  /\ transitions < MaxTransitions
  /\ job' = [job EXCEPT ![w] = [stage |-> "read", case |-> c,
                                from |-> caseStatus[c], to |-> to,
                                found |-> caseStatus[c]]]
  /\ UNCHANGED <<database, handlers, transitions>>

\* recovery_cases.get_by_id: a plain read of the committed row.  A move that is
\* illegal from the status read can only raise, and is not begun.
ReadCase(w, c, to) ==
  /\ job[w] = NoJob
  /\ transitions < MaxTransitions
  /\ caseStatus[c] # NoCase
  /\ to \in CaseMoves[caseStatus[c]]
  /\ job' = [job EXCEPT ![w] = [stage |-> "read", case |-> c,
                                from |-> caseStatus[c], to |-> to,
                                found |-> caseStatus[c]]]
  /\ UNCHANGED <<database, handlers, transitions>>

\* payments.get_by_id and transition_recovery_case, which may raise.
CheckMove(w) ==
  /\ job[w].stage = "read"
  /\ job' = [job EXCEPT ![w] =
       IF MayMoveCase(payStatus[PaymentOf(job[w].case)], job[w].from, job[w].to)
         THEN [job[w] EXCEPT !.stage = "checked"]
         ELSE NoJob]
  /\ UNCHANGED <<database, handlers, transitions>>

\* save reads the row again: nothing has kept the one that was read first.
FindAgain(w) ==
  /\ job[w].stage = "checked"
  /\ job' = [job EXCEPT ![w].stage = "saving", ![w].found = caseStatus[job[w].case]]
  /\ UNCHANGED <<database, handlers, transitions>>

\* The update waits for a handler that holds the row, and is committed with the
\* audit event of the move.  A status that was found as it should be is not written:
\* it stays as somebody else may have made it since.
SaveCase(w) ==
  LET j == job[w] IN
  /\ j.stage = "saving"
  /\ \A d \in Delivery : ~ HoldsCase(d, j.case)
  /\ transitions < MaxTransitions
  /\ caseStatus' = [caseStatus EXCEPT ![j.case] = IF j.found = j.to THEN @ ELSE j.to]
  /\ audit' = [audit EXCEPT ![j.case] = Append(@, [from |-> j.from, to |-> j.to])]
  /\ job' = [job EXCEPT ![w] = NoJob]
  /\ transitions' = transitions + 1
  /\ UNCHANGED <<payload, payStatus, rawEvents, paymentEvents, handlers>>

\* The caller's transaction ends without a commit.
Abandon(w) ==
  /\ job[w] # NoJob
  /\ job' = [job EXCEPT ![w] = NoJob]
  /\ UNCHANGED <<database, handlers, transitions>>

\* A handler that finds two active cases: scalar_one_or_none raises, for every branch.
RefuseAmbiguous(d) ==
  /\ pc[d] = "locked"
  /\ Body(d).form = "valid"
  /\ Ambiguous(PaymentOf(d))
  /\ RollBack(d)
  /\ UNCHANGED <<crashes, workers>>

WorkersNext ==
  \/ Next /\ UNCHANGED workers
  \/ \E d \in Delivery : RefuseAmbiguous(d)
  \/ \E w \in Worker : \/ \E c \in Delivery, to \in Asked : ReadCase(w, c, to)
                       \/ CheckMove(w)
                       \/ FindAgain(w)
                       \/ SaveCase(w)
                       \/ Abandon(w)

WorkersSpec == WorkersInit /\ [][WorkersNext]_allVars

-----------------------------------------------------------------------------
Reached(c, i, status) == \E j \in 1 .. i - 1 : audit[c][j].to = status

\* No case reaches execution without its policy check and its approval, in that
\* order, whatever updates are lost on the way: a row only ever holds a status
\* that was reached legally (domain/state_machines.py:42-88).
PolicyBeforeExecution ==
  \A c \in Delivery : \A i \in DOMAIN audit[c] :
    audit[c][i].to = "EXECUTING" =>
      \E j \in 1 .. i - 1 :
        audit[c][j].to = "ACTION_APPROVED" /\ Reached(c, j, "POLICY_CHECK")

\* A case is RECOVERED only by way of an execution that was observed.
RecoveredOnlyAfterObservation ==
  \A c \in Delivery :
    caseStatus[c] = "RECOVERED" => Reached(c, Len(audit[c]), "OBSERVING")

\* A case is written again after it has ended.
Revived(c) ==
  \E i \in DOMAIN audit[c] : i < Len(audit[c]) /\ audit[c][i].to \in TerminalCase

\* A payment has a second active case, or one although it is captured, only where
\* a worker's late write (recovery/orchestrator.py:180-232) has revived a case
\* that had ended, and then that case's trail says so.
RevivalsAreAudited ==
  \A p \in Payment :
    \/ ~ Ambiguous(p) /\ (payStatus[p] = "CAPTURED" => ActiveCases(p) = {})
    \/ \E c \in Delivery : caseStatus[c] # NoCase /\ PaymentOf(c) = p /\ Revived(c)
=============================================================================
