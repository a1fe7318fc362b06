----------------------------- MODULE Scheduling -----------------------------
(***************************************************************************)
(* The dummy tests: which ones the scheduler makes, and which of their     *)
(* attempts the worker makes fail.                                         *)
(*                                                                         *)
(* Both are computed from the number of the test: its duration from a roll *)
(* of the number, its failures from the characters of its id.  The tests   *)
(* run here one after the other, since no verdict depends on another test; *)
(* what happens to their jobs is Dispatch's.                               *)
(***************************************************************************)
EXTENDS Integers

CONSTANTS
  Count,       \* tests of the run
  MaxRetries,  \* MAX_RETRIES
  FailBelow,   \* remainders below DUMMY_FAILURE_RATE * 100
  FlakyBelow   \* remainders below DUMMY_FLAKY_RATE * 1000

\* Ten times the 10,000 tests that the platform is made for.
ASSUME SchedulingAssumption ==
  /\ Count \in Nat \ {0} /\ Count < 100 * 1000
  /\ MaxRetries \in Nat
  /\ FailBelow \in 0 .. 100
  /\ FlakyBelow \in 0 .. 1000

VARIABLES
  made,           \* number of the test at hand; 0 before the first
  mix,            \* distributionSummary of the tests so far
  attempt,        \* its attempt
  outcome,        \* "none", "pending", "passed" or "failed"
  firstFailures   \* history: tests whose first attempt failed

schedulingVars == <<made, mix, attempt, outcome, firstFailures>>

Durations == {"short", "medium", "long"}

Init ==
  /\ made = 0
  /\ mix = [d \in Durations |-> 0]
  /\ attempt = 0
  /\ outcome = "none"
  /\ firstFailures = 0

-----------------------------------------------------------------------------
\* Mutant: the multiplier shares a factor with 100.
RollEven(i) == (i * 14) % 100

Roll(i) == (i * 13) % 100

EstimatedDuration(i) ==
  IF Roll(i) < 60 THEN "short" ELSE IF Roll(i) < 95 THEN "medium" ELSE "long"

Digit(i, unit) == (i \div unit) % 10

DigitSum(i) ==
  Digit(i, 1) + Digit(i, 10) + Digit(i, 100)
    + Digit(i, 1000) + Digit(i, 10 * 1000) + Digit(i, 100 * 1000)

\* Mutant: the attempt moves the seed by a multiple of 100.
SeedByHundreds(i, a) == 484 + DigitSum(i) + 100 * a

\* The characters of TC-000000 add up to 484; a digit adds its value.
Seed(i, a) == 484 + DigitSum(i) + 31 * a

ShouldFail(i, a) ==
  \/ Seed(i, a) % 100 < FailBelow
  \/ Seed(i, a) % 1000 < FlakyBelow /\ a = 1

-----------------------------------------------------------------------------
\* Mutant: the loop begins at zero and keeps its bound.
MakeTestOneMore ==
  /\ outcome # "pending"
  /\ made <= Count
  /\ made' = made + 1
  /\ mix' = [mix EXCEPT ![EstimatedDuration(made + 1)] = @ + 1]
  /\ attempt' = 1
  /\ outcome' = "pending"
  /\ UNCHANGED firstFailures

\* One turn of the loop of createDummyTestCaseSet.
MakeTest ==
  /\ outcome # "pending"
  /\ made < Count
  /\ made' = made + 1
  /\ mix' = [mix EXCEPT ![EstimatedDuration(made + 1)] = @ + 1]
  /\ attempt' = 1
  /\ outcome' = "pending"
  /\ UNCHANGED firstFailures

Pass ==
  /\ outcome = "pending"
  /\ ~ ShouldFail(made, attempt)
  /\ outcome' = "passed"
  /\ UNCHANGED <<made, mix, attempt, firstFailures>>

\* The worker's retry decision: one more attempt while there are retries left.
Fail ==
  /\ outcome = "pending"
  /\ ShouldFail(made, attempt)
  /\ IF attempt <= MaxRetries
       THEN attempt' = attempt + 1 /\ UNCHANGED outcome
       ELSE outcome' = "failed" /\ UNCHANGED attempt
  /\ firstFailures' = IF attempt = 1 THEN firstFailures + 1 ELSE firstFailures
  /\ UNCHANGED <<made, mix>>

Next == MakeTest \/ Pass \/ Fail

Spec == Init /\ [][Next]_schedulingVars

-----------------------------------------------------------------------------
(* Properties.                                                             *)

TypeOK ==
  /\ made \in 0 .. Count
  /\ mix \in [Durations -> Nat]
  /\ attempt \in 0 .. MaxRetries + 1
  /\ outcome \in {"none", "pending", "passed", "failed"}
  /\ firstFailures \in 0 .. made

Share == [short |-> 60, medium |-> 35, long |-> 5]

\* README: "60% short tests at 10s, 35% medium at 30s, 5% long at 60s": exactly
\* so after each hundred tests, and never off by two tests in between.
MixMet ==
  \A d \in Durations :
    LET off == 100 * mix[d] - Share[d] * made
    IN  /\ -200 < off /\ off < 200
        /\ made % 100 = 0 => off = 0

\* Whatever the flaky rate: while the failure rate is 69% or less, two retries
\* bring every dummy test to a pass, since no two seeds that lie 31 apart, in the
\* range that second and third attempts have, leave remainders that both fail.
RetriesRecover == FailBelow <= 69 /\ MaxRetries >= 2 => outcome # "failed"

-----------------------------------------------------------------------------
(* What the README says, refuted by the run scheduling_doc_failure_rate.   *)

\* README: "deterministic failure rate and flaky failure rate via environment
\* variables": with rates above zero some test of a long run fails at first.
RatesCauseFailures ==
  made = Count /\ outcome # "pending" /\ FailBelow > 0
    => firstFailures > 0
=============================================================================
