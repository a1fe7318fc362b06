------------------------- MODULE DispatchLifecycle -------------------------
(***************************************************************************)
(* Dispatch implements TestLifecycle: the life of a test is read off the   *)
(* messages the broker and the workers hold for it.                        *)
(***************************************************************************)
EXTENDS Dispatch

JobOf(t, a) == [test |-> t, attempt |-> a]

issuedAttempts == [t \in Tests |-> {a \in Attempts : Exists(JobOf(t, a))}]
reportedAttempts ==
  [t \in Tests |-> {r \in Attempts \X Verdicts : acked[r[2]][JobOf(t, r[1])] > 0}]
parkedAttempts == [t \in Tests |-> {a \in Attempts : Dead(JobOf(t, a))}]

Lifecycle == INSTANCE TestLifecycle WITH
  issued <- issuedAttempts, reported <- reportedAttempts, parked <- parkedAttempts

\* Every step of the orchestrator, the broker or a worker is a step of some
\* test's abstract life or changes nothing of it: attempts appear in order and
\* only through a retry, and a failure with retries left is reported only once
\* its retry exists.
ImplementsLifecycle == Lifecycle!Spec
=============================================================================
