-------------------------- MODULE RecoveryLedger --------------------------
(***************************************************************************)
(* What webhook intake promises, without its transactions: each provider   *)
(* event takes effect at most once and in one step, which moves the        *)
(* payment along its lifecycle and opens or ends its recovery together.    *)
(* EventPipeline implements it.                                            *)
(***************************************************************************)
EXTENDS AproDomain

CONSTANTS Payment, Event, Absent

VARIABLES
  payment,   \* status of each payment, Absent until it is known
  absorbed,  \* the events that have taken effect
  recovering \* the payments whose recovery is under way

vars == <<payment, absorbed, recovering>>

Init ==
  /\ payment \in [Payment -> PaymentStatus \cup {Absent}]
  /\ absorbed = {}
  /\ recovering = {}

Register(p, status) ==
  /\ payment[p] = Absent
  /\ payment' = [payment EXCEPT ![p] = status]
  /\ UNCHANGED <<absorbed, recovering>>

\* An event that concerns no known payment, or is of no interest.
Note(e) ==
  /\ e \notin absorbed
  /\ absorbed' = absorbed \cup {e}
  /\ UNCHANGED <<payment, recovering>>

Stays(p) == UNCHANGED payment
Moves(p, status) ==
  /\ MayMovePayment(payment[p], status)
  /\ payment' = [payment EXCEPT ![p] = status]

\* A capture ends the recovery; it also does so when it changes nothing.
Captured(e, p) ==
  /\ e \notin absorbed
  /\ absorbed' = absorbed \cup {e}
  /\ Moves(p, "CAPTURED") \/ (payment[p] = "CAPTURED" /\ Stays(p))
  /\ recovering' = recovering \ {p}

\* A failure of a payment that is not captured starts, or joins, its recovery.
Failed(e, p) ==
  /\ e \notin absorbed
  /\ absorbed' = absorbed \cup {e}
  /\ payment[p] \in PaymentStatus \ {"CAPTURED"}
  /\ Moves(p, "FAILED") \/ Stays(p)
  /\ recovering' = recovering \cup {p}

Authorized(e, p) ==
  /\ e \notin absorbed
  /\ absorbed' = absorbed \cup {e}
  /\ Moves(p, "AUTHORIZED")
  /\ UNCHANGED recovering

Next ==
  \/ \E p \in Payment, status \in PaymentStatus : Register(p, status)
  \/ \E e \in Event :
       \/ Note(e)
       \/ \E p \in Payment : Captured(e, p) \/ Failed(e, p) \/ Authorized(e, p)

Spec == Init /\ [][Next]_vars
=============================================================================
