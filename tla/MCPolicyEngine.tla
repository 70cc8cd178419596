--------------------------- MODULE MCPolicyEngine ---------------------------
(***************************************************************************)
(* Requests for TLC: each action, in a calm context of which up to two     *)
(* facts are changed, at the thresholds and next to them.                  *)
(***************************************************************************)
EXTENDS PolicyEngine, FiniteSets

Calm(action) ==
  [action |-> action, payment |-> "FAILED", trusted |-> TRUE, duplicate |-> FALSE,
   reused |-> FALSE, stale |-> FALSE, faults |-> {}, amount |-> HighValue - 1,
   confident |-> TRUE, value |-> {MinExpectedValue}, now |-> 2 * Cooldown,
   retries |-> MaxRetries - 1, retriedAt |-> {Cooldown}, last |-> action,
   repeats |-> MaxRepetitions - 1, interventions |-> MaxInterventions - 1,
   links |-> MaxLinks - 1, approved |-> FALSE, flaws |-> {}]

Changes(r) ==
  {[r EXCEPT !.payment = p] : p \in {"CAPTURED", "AUTHORIZED", "PENDING"}}
  \cup {[r EXCEPT !.trusted = FALSE], [r EXCEPT !.duplicate = TRUE],
        [r EXCEPT !.reused = TRUE], [r EXCEPT !.stale = TRUE],
        [r EXCEPT !.amount = HighValue], [r EXCEPT !.confident = FALSE],
        [r EXCEPT !.retries = MaxRetries], [r EXCEPT !.retriedAt = {Cooldown + 1}],
        [r EXCEPT !.repeats = MaxRepetitions], [r EXCEPT !.last = "OUTREACH"],
        [r EXCEPT !.interventions = MaxInterventions], [r EXCEPT !.links = MaxLinks],
        [r EXCEPT !.approved = TRUE]}
  \cup {[r EXCEPT !.faults = {f}] : f \in ModelFault}
  \cup {[r EXCEPT !.value = v] : v \in {{}, {-1}, {0}, {MinExpectedValue - 1}}}
  \cup {[r EXCEPT !.approved = TRUE, !.flaws = F] :
          F \in {{"replayed"}, {"expired"}, {"other version"}, {"expired", "other version"}}}

CalmRequests == {Calm(a) : a \in Action \cup {NoAction}}
ChangedOnce == UNION {Changes(r) : r \in CalmRequests}
MCRequests == CalmRequests \cup UNION {Changes(r) : r \in ChangedOnce}
=============================================================================
