-------------------------- MODULE MCRecoveryCycle --------------------------
(***************************************************************************)
(* Instances of RecoveryCycle for TLC.                                     *)
(***************************************************************************)
EXTENDS RecoveryCycle, TLC

CONSTANTS w1, w2

Symmetry == Permutations(Worker)

MCCost == [STOP |-> 0, ESCALATE |-> 8, RETRY |-> 1, PAYMENT_LINK |-> 3, OUTREACH |-> 11]

\* The models favour one action: a retry, which the diagnosis may rule out, so that
\* nothing is left that pays; a link, or one that is worth so little that stopping
\* ties with it; and outreach, without confidence.
Favours(action, gross, confident, retryable) ==
  [gross |-> [a \in Action |-> IF a = action THEN gross ELSE 0],
   confident |-> confident, retryable |-> retryable]
MCForecasts ==
  {Favours("RETRY", 20, TRUE, TRUE), Favours("RETRY", 20, TRUE, FALSE),
   Favours("PAYMENT_LINK", 20, TRUE, TRUE), Favours("PAYMENT_LINK", 4, TRUE, TRUE),
   Favours("OUTREACH", 20, FALSE, TRUE)}
=============================================================================
