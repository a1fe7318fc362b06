-------------------------- MODULE MCExecutionStore --------------------------
(* An instance of ExecutionStore for TLC.                                  *)
EXTENDS ExecutionStore, TLC

CONSTANTS k1, k2

Request(e, k, st, n, shot) ==
  [endpoint |-> e, key |-> k, status |-> st, logs |-> n, screenshot |-> shot]

\* For one attempt each kind of request, with and without the optional parts; a
\* live status sent to /executions/complete is the one that gets refused.  The
\* other attempt is there to be archived, lost and imported, or left out.
MixedBodies ==
  {Request("status", k1, "STARTED", 0, FALSE),
   Request("status", k1, "RUNNING", 1, FALSE),
   Request("status", k1, "FAILED", 0, FALSE),
   Request("complete", k1, "COMPLETED", 1, TRUE),
   Request("complete", k1, "FAILED", 0, FALSE),
   Request("complete", k1, "RUNNING", 1, FALSE),
   Request("complete", k2, "COMPLETED", 0, FALSE)}

\* Requests are interchangeable.
Symmetry == Permutations(Requests)
=============================================================================
