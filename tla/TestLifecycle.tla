--------------------------- MODULE TestLifecycle ---------------------------
(***************************************************************************)
(* What the platform promises for the tests of a run, without queues,      *)
(* workers or messages: attempts are issued in order, an attempt may be    *)
(* reported more than once and with different verdicts (delivery is at     *)
(* least once), and the failure of an attempt that has retries left is     *)
(* reported only after the next attempt has been issued.                   *)
(***************************************************************************)
EXTENDS Naturals

CONSTANTS Tests, MaxRetries

VARIABLES
  issued,    \* issued[t]: the attempts of t for which work exists or existed
  reported,  \* reported[t]: pairs of an attempt and a verdict it ended with
  parked     \* parked[t]: attempts set aside in the dead-letter queue

vars == <<issued, reported, parked>>

LastAttempt == MaxRetries + 1
Outcomes    == {"PASSED", "FAILED"}

Init ==
  /\ issued = [t \in Tests |-> {}]
  /\ reported = [t \in Tests |-> {}]
  /\ parked = [t \in Tests |-> {}]

Issue(t) ==
  /\ issued[t] = {}
  /\ issued' = [issued EXCEPT ![t] = {1}]
  /\ UNCHANGED <<reported, parked>>

Retry(t, a) ==
  /\ a \in issued[t]
  /\ a < LastAttempt
  /\ issued' = [issued EXCEPT ![t] = @ \cup {a + 1}]
  /\ UNCHANGED <<reported, parked>>

Report(t, a, v) ==
  /\ a \in issued[t]
  /\ v = "FAILED" /\ a < LastAttempt => a + 1 \in issued[t]
  /\ reported' = [reported EXCEPT ![t] = @ \cup {<<a, v>>}]
  /\ UNCHANGED <<issued, parked>>

Park(t, a) ==
  /\ a \in issued[t]
  /\ parked' = [parked EXCEPT ![t] = @ \cup {a}]
  /\ UNCHANGED <<issued, reported>>

Next ==
  \E t \in Tests :
    \/ Issue(t)
    \/ \E a \in 1 .. LastAttempt :
         \/ Retry(t, a)
         \/ \E v \in Outcomes : Report(t, a, v)
         \/ Park(t, a)

Spec == Init /\ [][Next]_vars
=============================================================================
