--------------------------- MODULE SchedulerProofs ---------------------------
(***************************************************************************)
(* Theorems about Scheduler: about Scheduling for every number of dummy    *)
(* tests, and about Catalog for every folder and every length of path.     *)
(***************************************************************************)
EXTENDS Scheduler, FiniteSetTheorems, TLAPS

-----------------------------------------------------------------------------
(* Type correctness.  A first attempt that is pending has not failed yet.  *)

PendingOK ==
  outcome = "pending" =>
    /\ made \in 1 .. Count
    /\ attempt >= 1
    /\ attempt = 1 => firstFailures < made

Sound == TypeOK /\ PendingOK

LEMMA InitSound == Init => Sound
  BY SchedulingAssumption DEF Init, Sound, TypeOK, PendingOK

LEMMA StepSound == Sound /\ [Next]_schedulingVars => Sound'
<1> SUFFICES ASSUME Sound, [Next]_schedulingVars PROVE Sound'
  OBVIOUS
<1>0. /\ TypeOK /\ PendingOK /\ Count \in Nat /\ MaxRetries \in Nat
      /\ mix \in [Durations -> Nat]
      /\ made \in 0 .. Count /\ firstFailures \in 0 .. made
  BY SchedulingAssumption DEF Sound, TypeOK
<1>1. CASE MakeTest
  <2>1. EstimatedDuration(made + 1) \in Durations
    BY DEF EstimatedDuration, Durations
  <2>2. mix' \in [Durations -> Nat]
    BY <1>0, <1>1, <2>1 DEF MakeTest
  <2>3. made' \in 0 .. Count /\ made' \in 1 .. Count /\ firstFailures' \in 0 .. made'
        /\ firstFailures' < made' /\ attempt' = 1 /\ attempt' \in 0 .. MaxRetries + 1
    BY <1>0, <1>1 DEF MakeTest
  <2>4. outcome' = "pending"
    BY <1>1 DEF MakeTest
  <2> QED  BY <2>2, <2>3, <2>4 DEF Sound, TypeOK, PendingOK
<1>2. CASE Pass
  BY <1>0, <1>2 DEF Pass, Sound, TypeOK, PendingOK
<1>3. CASE Fail
  <2>1. attempt' \in 0 .. MaxRetries + 1 /\ attempt' >= 1
    BY <1>0, <1>3 DEF Fail, TypeOK, PendingOK
  <2>2. firstFailures' \in 0 .. made
    BY <1>0, <1>3 DEF Fail, PendingOK
  <2>3. outcome' = "pending" => attempt' = attempt + 1 /\ attempt' # 1
    BY <1>0, <1>3 DEF Fail, TypeOK, PendingOK
  <2>4. made' = made /\ mix' = mix /\ made \in 1 .. Count
        /\ outcome' \in {"none", "pending", "passed", "failed"}
    BY <1>0, <1>3 DEF Fail, PendingOK
  <2> QED  BY <1>0, <2>1, <2>2, <2>3, <2>4 DEF Sound, TypeOK, PendingOK
<1>4. CASE UNCHANGED schedulingVars
  BY <1>0, <1>4 DEF schedulingVars, Sound, TypeOK, PendingOK
<1> QED  BY <1>1, <1>2, <1>3, <1>4 DEF Next

\* The loop makes at most Count tests, an attempt never exceeds the retries, and
\* a test's first failure is counted once.
THEOREM TypeCorrect == Spec => []TypeOK
<1>1. Sound => TypeOK
  BY DEF Sound
<1> QED  BY InitSound, StepSound, <1>1, PTL DEF Spec

-----------------------------------------------------------------------------
(* The arithmetic of the seeds.                                            *)

LEMMA DigitRange ==
  ASSUME NEW i \in Nat, NEW unit \in Nat \ {0}
  PROVE  Digit(i, unit) \in 0 .. 9
<1>1. i \div unit \in Int
  OBVIOUS
<1> QED  BY <1>1 DEF Digit

LEMMA DigitSumRange ==
  ASSUME NEW i \in Nat, i < 100 * 1000
  PROVE  DigitSum(i) \in Nat /\ DigitSum(i) <= 45
<1>1. Digit(i, 1) \in 0 .. 9 /\ Digit(i, 10) \in 0 .. 9
  BY DigitRange
<1>2. Digit(i, 100) \in 0 .. 9 /\ Digit(i, 1000) \in 0 .. 9 /\ Digit(i, 10 * 1000) \in 0 .. 9
  BY DigitRange
<1>3. Digit(i, 100 * 1000) = 0
  BY DEF Digit
<1> QED  BY <1>1, <1>2, <1>3 DEF DigitSum

\* The ranges that the remainders of the three attempts lie in.
LEMMA Remainders ==
  ASSUME NEW s \in Nat, s <= 45
  PROVE  /\ (515 + s) % 100 = 15 + s
         /\ (515 + s) % 1000 = 515 + s
         /\ (546 + s) % 100 = 46 + s
         /\ s <= 22 => (577 + s) % 100 = 77 + s
<1>1. (515 + s) % 100 = 15 + s
  OBVIOUS
<1>2. (515 + s) % 1000 = 515 + s
  OBVIOUS
<1>3. (546 + s) % 100 = 46 + s
  OBVIOUS
<1>4. s <= 22 => (577 + s) % 100 = 77 + s
  OBVIOUS
<1> QED  BY <1>1, <1>2, <1>3, <1>4

LEMMA SeedRemainders ==
  ASSUME NEW i \in Nat, i < 100 * 1000
  PROVE  /\ DigitSum(i) \in Nat
         /\ Seed(i, 1) % 100 = 15 + DigitSum(i)
         /\ Seed(i, 1) % 1000 = 515 + DigitSum(i)
         /\ Seed(i, 2) % 100 = 46 + DigitSum(i)
         /\ DigitSum(i) <= 22 => Seed(i, 3) % 100 = 77 + DigitSum(i)
<1>1. DigitSum(i) \in Nat /\ DigitSum(i) <= 45
  BY DigitSumRange
<1>2. /\ Seed(i, 1) = 515 + DigitSum(i)
      /\ Seed(i, 2) = 546 + DigitSum(i)
      /\ Seed(i, 3) = 577 + DigitSum(i)
  BY <1>1 DEF Seed
<1>3. /\ (515 + DigitSum(i)) % 100 = 15 + DigitSum(i)
      /\ (515 + DigitSum(i)) % 1000 = 515 + DigitSum(i)
      /\ (546 + DigitSum(i)) % 100 = 46 + DigitSum(i)
      /\ DigitSum(i) <= 22 => (577 + DigitSum(i)) % 100 = 77 + DigitSum(i)
  BY <1>1, Remainders
<1> QED  BY <1>1, <1>2, <1>3

LEMMA SecondOrThirdPasses ==
  ASSUME NEW i \in Nat, i < 100 * 1000, FailBelow <= 69, ShouldFail(i, 2)
  PROVE  ~ ShouldFail(i, 3)
<1>0. FailBelow \in Int
  BY SchedulingAssumption
<1>1. /\ DigitSum(i) \in Nat
      /\ Seed(i, 2) % 100 = 46 + DigitSum(i)
      /\ DigitSum(i) <= 22 => Seed(i, 3) % 100 = 77 + DigitSum(i)
  BY SeedRemainders
<1>2. Seed(i, 2) % 100 < FailBelow
  BY DEF ShouldFail
<1>3. DigitSum(i) <= 22
  BY <1>0, <1>1, <1>2
<1>4. ~ (Seed(i, 3) % 100 < FailBelow)
  BY <1>0, <1>1, <1>3
<1> QED  BY <1>4 DEF ShouldFail

LEMMA LowRatesPass ==
  ASSUME NEW i \in Nat, i < 100 * 1000, FailBelow <= 15, FlakyBelow <= 515
  PROVE  ~ ShouldFail(i, 1)
<1>0. FailBelow \in Int /\ FlakyBelow \in Int
  BY SchedulingAssumption
<1>1. /\ DigitSum(i) \in Nat
      /\ Seed(i, 1) % 100 = 15 + DigitSum(i)
      /\ Seed(i, 1) % 1000 = 515 + DigitSum(i)
  BY SeedRemainders
<1>2. ~ (Seed(i, 1) % 100 < FailBelow) /\ ~ (Seed(i, 1) % 1000 < FlakyBelow)
  BY <1>0, <1>1
<1> QED  BY <1>2 DEF ShouldFail

-----------------------------------------------------------------------------
(* Retries.                                                                *)

LEMMA SmallNumbers == Sound => made \in Nat /\ made < 100 * 1000
  BY SchedulingAssumption DEF Sound, TypeOK

\* A third attempt is pending only after the second one failed.
Recovering ==
  FailBelow <= 69 /\ MaxRetries >= 2 =>
    /\ outcome # "failed"
    /\ attempt <= 3
    /\ attempt = 3 => ShouldFail(made, 2)

LEMMA StepRecovering == Sound /\ Recovering /\ [Next]_schedulingVars => Recovering'
<1> SUFFICES ASSUME Sound, Recovering, [Next]_schedulingVars,
                    FailBelow <= 69, MaxRetries >= 2
             PROVE  /\ outcome' # "failed"
                    /\ attempt' <= 3
                    /\ attempt' = 3 => ShouldFail(made', 2)
  BY DEF Recovering
<1>0. /\ outcome # "failed" /\ attempt <= 3
      /\ attempt = 3 => ShouldFail(made, 2)
      /\ attempt \in Nat /\ MaxRetries \in Nat
  BY SchedulingAssumption DEF Recovering, Sound, TypeOK
<1>1. CASE MakeTest
  BY <1>0, <1>1 DEF MakeTest
<1>2. CASE Pass
  BY <1>0, <1>2 DEF Pass
<1>3. CASE Fail
  <2>1. made \in Nat /\ made < 100 * 1000 /\ attempt >= 1
    BY <1>3, SmallNumbers DEF Fail, Sound, PendingOK
  <2>2. attempt # 3
    <3>1. ShouldFail(made, 2) => ~ ShouldFail(made, 3)
      BY <2>1, SecondOrThirdPasses
    <3> QED  BY <1>0, <1>3, <3>1 DEF Fail
  <2>3. attempt' = attempt + 1 /\ outcome' = outcome
    BY <1>0, <1>3, <2>1, <2>2 DEF Fail
  <2>4. attempt' = 3 => attempt = 2
    BY <1>0, <2>3
  <2> QED  BY <1>3, <2>2, <2>3, <2>4, <1>0 DEF Fail
<1>4. CASE UNCHANGED schedulingVars
  BY <1>0, <1>4 DEF schedulingVars
<1> QED  BY <1>1, <1>2, <1>3, <1>4 DEF Next

\* With a failure rate of at most 69% and two retries, no dummy test ends up
\* failed, in a run of up to 99,999 tests and with any flaky rate.
THEOREM RetriesAlwaysRecover == Spec => []RetriesRecover
<1>1. Init => Recovering
  BY DEF Init, Recovering
<1>2. Recovering => RetriesRecover
  BY DEF Recovering, RetriesRecover
<1> QED  BY InitSound, StepSound, <1>1, StepRecovering, <1>2, PTL DEF Spec

-----------------------------------------------------------------------------
(* The default rates.                                                      *)

\* DUMMY_FAILURE_RATE up to 15% and DUMMY_FLAKY_RATE up to 51%, the defaults of 2%
\* and 1% among them, fail no first attempt at all.
LowRatesFailNothing == FailBelow <= 15 /\ FlakyBelow <= 515 => firstFailures = 0

LEMMA StepLowRates ==
  Sound /\ LowRatesFailNothing /\ [Next]_schedulingVars => LowRatesFailNothing'
<1> SUFFICES ASSUME Sound, LowRatesFailNothing, [Next]_schedulingVars,
                    FailBelow <= 15, FlakyBelow <= 515
             PROVE  firstFailures' = 0
  BY DEF LowRatesFailNothing
<1>0. firstFailures = 0
  BY DEF LowRatesFailNothing
<1>1. CASE MakeTest
  BY <1>0, <1>1 DEF MakeTest
<1>2. CASE Pass
  BY <1>0, <1>2 DEF Pass
<1>3. CASE Fail
  <2>1. made \in Nat /\ made < 100 * 1000
    BY SmallNumbers
  <2>2. attempt # 1
    <3>1. ~ ShouldFail(made, 1)
      BY <2>1, LowRatesPass
    <3> QED  BY <1>3, <3>1 DEF Fail
  <2> QED  BY <1>0, <1>3, <2>2 DEF Fail
<1>4. CASE UNCHANGED schedulingVars
  BY <1>0, <1>4 DEF schedulingVars
<1> QED  BY <1>1, <1>2, <1>3, <1>4 DEF Next

\* The reason for the violation of RatesCauseFailures, for runs of up to 99,999 tests.
THEOREM LowRatesNeverFail == Spec => []LowRatesFailNothing
<1>1. Init => LowRatesFailNothing
  BY DEF Init, LowRatesFailNothing
<1> QED  BY InitSound, StepSound, <1>1, StepLowRates, PTL DEF Spec

-----------------------------------------------------------------------------
(* The mix.  The roll repeats after a hundred tests and passes zero every  *)
(* seven or eight, when it gives a block of short ones.                    *)

\* How many of the numbers first .. last are r or less.
Block(r, first, last) ==
  IF r < first THEN 0 ELSE IF r <= last THEN r - first + 1 ELSE last - first + 1

ShortOnes(r) ==
  Block(r, 1, 4) + Block(r, 8, 12) + Block(r, 16, 19) + Block(r, 24, 27)
    + Block(r, 31, 35) + Block(r, 39, 43) + Block(r, 47, 50) + Block(r, 54, 58)
    + Block(r, 62, 66) + Block(r, 70, 73) + Block(r, 77, 81) + Block(r, 85, 89)
    + Block(r, 93, 96)

LongOnes(r) ==
  Block(r, 15, 15) + Block(r, 23, 23) + Block(r, 46, 46) + Block(r, 69, 69) + Block(r, 92, 92)

\* The r-th test of a hundred, r from 1 to 99, by its roll.
LEMMA ShortCounted ==
  ASSUME NEW r \in 0 .. 98
  PROVE  ShortOnes(r + 1) = ShortOnes(r) + (IF (13 * (r + 1)) % 100 < 60 THEN 1 ELSE 0)
  BY DEF ShortOnes, Block

LEMMA LongCounted ==
  ASSUME NEW r \in 0 .. 98
  PROVE  LongOnes(r + 1) = LongOnes(r) + (IF (13 * (r + 1)) % 100 < 95 THEN 0 ELSE 1)
  BY DEF LongOnes, Block

\* A whole hundred, and how far off the shares are on the way.
LEMMA HundredCounted ==
  ASSUME NEW r \in 0 .. 99
  PROVE /\ ShortOnes(0) = 0 /\ LongOnes(0) = 0
        /\ ShortOnes(99) = 59 /\ LongOnes(99) = 5
        /\ -200 < 100 * ShortOnes(r) - 60 * r /\ 100 * ShortOnes(r) - 60 * r < 200
        /\ -200 < 100 * LongOnes(r) - 5 * r /\ 100 * LongOnes(r) - 5 * r < 200
        /\ -200 < 100 * (r - ShortOnes(r) - LongOnes(r)) - 35 * r
        /\ 100 * (r - ShortOnes(r) - LongOnes(r)) - 35 * r < 200
  BY DEF ShortOnes, LongOnes, Block

Mixed ==
  LET q == made \div 100
      r == made % 100
  IN  /\ mix["short"] = 60 * q + ShortOnes(r)
      /\ mix["long"] = 5 * q + LongOnes(r)
      /\ mix["medium"] = 35 * q + (r - ShortOnes(r) - LongOnes(r))

\* Counting on from one number to the next.
LEMMA NextOfHundred ==
  ASSUME NEW i \in Nat
  PROVE  LET q == i \div 100
             r == i % 100
         IN  /\ q \in Nat /\ r \in 0 .. 99
             /\ r < 99 => /\ (i + 1) \div 100 = q /\ (i + 1) % 100 = r + 1
                          /\ Roll(i + 1) = (13 * (r + 1)) % 100
             /\ r = 99 => /\ (i + 1) \div 100 = q + 1 /\ (i + 1) % 100 = 0
                          /\ Roll(i + 1) = 0
  BY DEF Roll

LEMMA OnesAreNumbers ==
  ASSUME NEW r \in 0 .. 99
  PROVE  ShortOnes(r) \in Int /\ LongOnes(r) \in Int
  BY DEF ShortOnes, LongOnes, Block

LEMMA StepMixed == Sound /\ Mixed /\ [Next]_schedulingVars => Mixed'
<1> SUFFICES ASSUME Sound, Mixed, [Next]_schedulingVars PROVE Mixed'
  OBVIOUS
<1>1. CASE MakeTest
  <2> DEFINE q == made \div 100
             r == made % 100
             kind == EstimatedDuration(made + 1)
  <2>1. made \in Nat /\ mix \in [Durations -> Nat]
    BY SchedulingAssumption DEF Sound, TypeOK
  <2>2. /\ q \in Nat /\ r \in 0 .. 99
        /\ r < 99 => /\ (made + 1) \div 100 = q /\ (made + 1) % 100 = r + 1
                     /\ Roll(made + 1) = (13 * (r + 1)) % 100
        /\ r = 99 => /\ (made + 1) \div 100 = q + 1 /\ (made + 1) % 100 = 0
                     /\ Roll(made + 1) = 0
    BY <2>1, NextOfHundred
  <2>3. /\ kind \in Durations
        /\ made' = made + 1 /\ mix'[kind] = mix[kind] + 1
        /\ \A d \in Durations \ {kind} : mix'[d] = mix[d]
    BY <1>1, <2>1 DEF MakeTest, EstimatedDuration, Durations
  <2>4. /\ mix["short"] = 60 * q + ShortOnes(r)
        /\ mix["long"] = 5 * q + LongOnes(r)
        /\ mix["medium"] = 35 * q + (r - ShortOnes(r) - LongOnes(r))
    BY DEF Mixed
  <2>5. ShortOnes(r) \in Int /\ LongOnes(r) \in Int
    BY <2>2, OnesAreNumbers
  <2> HIDE DEF q, r, kind
  <2>6. CASE r < 99
    <3>1. /\ ShortOnes(r + 1) = ShortOnes(r) + (IF Roll(made + 1) < 60 THEN 1 ELSE 0)
          /\ LongOnes(r + 1) = LongOnes(r) + (IF Roll(made + 1) < 95 THEN 0 ELSE 1)
      BY <2>2, <2>6, ShortCounted, LongCounted
    <3>2. /\ mix'["short"] = mix["short"] + (IF Roll(made + 1) < 60 THEN 1 ELSE 0)
          /\ mix'["long"] = mix["long"] + (IF Roll(made + 1) < 95 THEN 0 ELSE 1)
          /\ mix'["medium"] = mix["medium"]
               + (IF Roll(made + 1) < 60 THEN 0 ELSE IF Roll(made + 1) < 95 THEN 1 ELSE 0)
      BY <2>1, <2>2, <2>3, <2>6 DEF kind, EstimatedDuration, Durations
    <3>3. Roll(made + 1) \in Int
      BY <2>2, <2>6
    <3>4. /\ mix'["short"] = 60 * q + ShortOnes(r + 1)
          /\ mix'["long"] = 5 * q + LongOnes(r + 1)
          /\ mix'["medium"] = 35 * q + ((r + 1) - ShortOnes(r + 1) - LongOnes(r + 1))
      BY <2>2, <2>4, <2>5, <3>1, <3>2, <3>3
    <3> QED  BY <2>2, <2>3, <2>6, <3>4 DEF Mixed
  <2>7. CASE r = 99
    <3>1. kind = "short"
      BY <2>2, <2>7 DEF kind, EstimatedDuration
    <3>2. /\ mix'["short"] = 60 * (q + 1) + ShortOnes(0)
          /\ mix'["long"] = 5 * (q + 1) + LongOnes(0)
          /\ mix'["medium"] = 35 * (q + 1) + (0 - ShortOnes(0) - LongOnes(0))
      <4>1. ShortOnes(0) = 0 /\ LongOnes(0) = 0 /\ ShortOnes(99) = 59 /\ LongOnes(99) = 5
        BY HundredCounted
      <4>2. mix'["short"] = mix["short"] + 1 /\ mix'["long"] = mix["long"] /\ mix'["medium"] = mix["medium"]
        BY <2>3, <3>1 DEF Durations
      <4> QED  BY <2>2, <2>4, <2>7, <4>1, <4>2
    <3> QED  BY <2>2, <2>3, <2>7, <3>2 DEF Mixed
  <2> QED  BY <2>2, <2>6, <2>7
<1>2. CASE Pass \/ Fail \/ UNCHANGED schedulingVars
  BY <1>2 DEF Pass, Fail, schedulingVars, Mixed
<1> QED  BY <1>1, <1>2 DEF Next

\* For every number of tests: 60, 35 and 5 of each hundred, and never two tests off
\* in between.
THEOREM MixIsMet == Spec => []MixMet
<1>1. Init => Mixed
  BY HundredCounted DEF Init, Mixed, Durations
<1>2. ASSUME Sound, Mixed PROVE MixMet
  <2> DEFINE q == made \div 100
             r == made % 100
  <2>1. q \in Nat /\ r \in 0 .. 99 /\ made = 100 * q + r
    BY <1>2, SchedulingAssumption DEF Sound, TypeOK
  <2>2. /\ mix["short"] = 60 * q + ShortOnes(r)
        /\ mix["long"] = 5 * q + LongOnes(r)
        /\ mix["medium"] = 35 * q + (r - ShortOnes(r) - LongOnes(r))
    BY <1>2 DEF Mixed
  <2>3. ShortOnes(r) \in Int /\ LongOnes(r) \in Int
    BY <2>1, OnesAreNumbers
  <2>4. r = 0 => ShortOnes(r) = 0 /\ LongOnes(r) = 0
    BY HundredCounted
  <2> HIDE DEF q, r
  <2>5. /\ 100 * mix["short"] - 60 * made = 100 * ShortOnes(r) - 60 * r
        /\ 100 * mix["long"] - 5 * made = 100 * LongOnes(r) - 5 * r
        /\ 100 * mix["medium"] - 35 * made = 100 * (r - ShortOnes(r) - LongOnes(r)) - 35 * r
    BY <2>1, <2>2, <2>3
  <2>6. ASSUME NEW d \in Durations
        PROVE  /\ -200 < 100 * mix[d] - Share[d] * made /\ 100 * mix[d] - Share[d] * made < 200
               /\ r = 0 => 100 * mix[d] - Share[d] * made = 0
    <3>1. CASE d = "short"
      BY <2>1, <2>4, <2>5, <3>1, HundredCounted DEF Share
    <3>2. CASE d = "medium"
      BY <2>1, <2>4, <2>5, <3>2, HundredCounted DEF Share
    <3>3. CASE d = "long"
      BY <2>1, <2>4, <2>5, <3>3, HundredCounted DEF Share
    <3> QED  BY <3>1, <3>2, <3>3 DEF Durations
  <2> QED  BY <2>6 DEF r, MixMet
<1> QED  BY InitSound, StepSound, <1>1, StepMixed, <1>2, PTL DEF Spec

-----------------------------------------------------------------------------
(* Places: a finite set of numbers, counted in their order.                *)

UpTo(S, i) == {j \in S : j <= i}
Rank(S, i) == Cardinality(UpTo(S, i))

\* Finite sets of positions.
Positions == {S \in SUBSET Nat : IsFiniteSet(S)}

LEMMA RankInRange ==
  ASSUME NEW S \in Positions, NEW i \in S
  PROVE  Rank(S, i) \in 1 .. Cardinality(S) /\ IsFiniteSet(UpTo(S, i))
<1>1. i \in UpTo(S, i) /\ UpTo(S, i) \in SUBSET S /\ IsFiniteSet(S)
  BY DEF UpTo, Positions
<1>2. IsFiniteSet(UpTo(S, i)) /\ Rank(S, i) <= Cardinality(S)
  BY <1>1, FS_Subset DEF Rank
<1>3. Rank(S, i) \in Nat /\ Rank(S, i) # 0 /\ Cardinality(S) \in Nat
  BY <1>1, <1>2, FS_CardinalityType, FS_EmptySet DEF Rank
<1> QED  BY <1>2, <1>3

LEMMA RankIncreases ==
  ASSUME NEW S \in Positions, NEW i \in S, NEW j \in S
  PROVE  i < j <=> Rank(S, i) < Rank(S, j)
<1>1. \A k \in S : Rank(S, k) \in Nat /\ k \in Nat
  BY RankInRange DEF Positions
<1>2. ASSUME NEW k \in S, NEW l \in S, k < l
      PROVE  Rank(S, k) < Rank(S, l)
  <2>1. UpTo(S, k) \in SUBSET UpTo(S, l) /\ l \in UpTo(S, l) /\ l \notin UpTo(S, k)
    BY <1>1, <1>2 DEF UpTo
  <2>2. Rank(S, k) <= Rank(S, l) /\ Rank(S, k) # Rank(S, l)
    BY <2>1, RankInRange, FS_Subset DEF Rank
  <2> QED  BY <1>1, <2>2
<1>3. i < j \/ i = j \/ j < i
  BY <1>1
<1> QED  BY <1>1, <1>2, <1>3

\* The k-th place is there and is the k-th.
LEMMA PlaceOfRank ==
  ASSUME NEW S \in Positions, NEW k \in 1 .. Cardinality(S)
  PROVE  Place(S, k) \in S /\ Rank(S, Place(S, k)) = k
<1> DEFINE rank == [i \in S |-> Rank(S, i)]
           n == Cardinality(S)
<1>1. n \in Nat /\ IsFiniteSet(S)
  BY FS_CardinalityType DEF Positions
<1>2. rank \in [S -> 1 .. n]
  BY RankInRange
<1>3. \A i, j \in S : Rank(S, i) = Rank(S, j) => i = j
  <2>1. \A i \in S : i \in Nat /\ Rank(S, i) \in Nat
    BY RankInRange DEF Positions
  <2>2. \A i, j \in S : i < j \/ j < i => Rank(S, i) # Rank(S, j)
    BY <2>1, RankIncreases
  <2> QED  BY <2>1, <2>2
<1>4. rank \in Injection(S, 1 .. n)
  BY <1>2, <1>3 DEF Injection, IsInjective
<1>5. IsFiniteSet(1 .. n) /\ Cardinality(1 .. n) = n
  BY <1>1, FS_Interval
<1>6. rank \in Surjection(S, 1 .. n)
  BY <1>4, <1>5, FS_Injection
<1>7. \E i \in S : Rank(S, i) = k
  BY <1>6 DEF Surjection
<1>8. \E i \in S : Cardinality({j \in S : j <= i}) = k
  BY <1>7 DEF Rank, UpTo
<1> QED  BY <1>8 DEF Place, Rank, UpTo

LEMMA PlaceIsOnly ==
  ASSUME NEW S \in Positions, NEW i \in S
  PROVE  Place(S, Rank(S, i)) = i
<1>1. Rank(S, i) \in 1 .. Cardinality(S)
  BY RankInRange
<1>2. PICK j \in S : j = Place(S, Rank(S, i)) /\ Rank(S, j) = Rank(S, i)
  BY <1>1, PlaceOfRank
<1>3. i \in Nat /\ j \in Nat /\ Rank(S, i) \in Nat
  BY <1>1 DEF Positions
<1> QED  BY <1>2, <1>3, RankIncreases

\* The two sets correspond in order.
Matches(m, S, T) ==
  /\ m \in Bijection(S, T)
  /\ \A i, j \in S : i < j <=> m[i] < m[j]

LEMMA MatchOfRanks ==
  ASSUME NEW S \in Positions, NEW T \in Positions, Cardinality(S) = Cardinality(T)
  PROVE  LET m == [i \in S |-> Place(T, Rank(S, i))]
         IN  Matches(m, S, T) /\ \A i \in S : Rank(T, m[i]) = Rank(S, i)
<1> DEFINE m == [i \in S |-> Place(T, Rank(S, i))]
<1>1. \A i \in S : Rank(S, i) \in 1 .. Cardinality(T)
  BY RankInRange
<1>2. \A i \in S : m[i] \in T /\ Rank(T, m[i]) = Rank(S, i)
  BY <1>1, PlaceOfRank
<1>3. m \in [S -> T]
  BY <1>2
<1> HIDE DEF m
<1>4. \A i, j \in S : i < j <=> m[i] < m[j]
  BY <1>2, RankIncreases
<1>5. \A i, j \in S : m[i] = m[j] => i = j
  BY <1>2, PlaceIsOnly
<1>6. \A k \in T : \E i \in S : m[i] = k
  <2> TAKE k \in T
  <2>1. Rank(T, k) \in 1 .. Cardinality(S)
    BY RankInRange
  <2>2. PICK i \in S : Rank(S, i) = Rank(T, k)
    BY <2>1, PlaceOfRank
  <2>3. Rank(T, m[i]) = Rank(T, k) /\ m[i] \in T
    BY <1>2, <2>2
  <2>4. m[i] = k
    BY <2>3, PlaceIsOnly
  <2> QED  BY <2>4
<1>7. m \in Bijection(S, T)
  BY <1>3, <1>5, <1>6 DEF Bijection, Injection, Surjection, IsInjective
<1> QED  BY <1>2, <1>4, <1>7 DEF Matches, m

LEMMA MatchOfSubsets ==
  ASSUME NEW S, NEW T, NEW m, Matches(m, S, T),
         NEW L \in SUBSET S, NEW M \in SUBSET T, \A i \in S : i \in L <=> m[i] \in M
  PROVE  Matches([i \in L |-> m[i]], L, M)
  BY DEF Matches, Bijection, Injection, Surjection, IsInjective

\* What corresponds in order has the same rank, and the same place.
LEMMA MatchKeepsPlaces ==
  ASSUME NEW S \in Positions, NEW T \in Positions, NEW m, Matches(m, S, T)
  PROVE  /\ Cardinality(S) = Cardinality(T)
         /\ \A k \in 1 .. Cardinality(S) : Place(S, k) \in S /\ m[Place(S, k)] = Place(T, k)
<1>1. Cardinality(S) = Cardinality(T)
  BY FS_Bijection DEF Matches, ExistsBijection, Positions
<1>2. ASSUME NEW i \in S
      PROVE  m[i] \in T /\ Rank(T, m[i]) = Rank(S, i)
  <2>1. m[i] \in T
    BY DEF Matches, Bijection, Injection
  <2>2. \A j \in S : j \in UpTo(S, i) <=> m[j] \in UpTo(T, m[i])
    <3>1. i \in Nat /\ \A j \in S : j \in Nat /\ m[j] \in T /\ m[j] \in Nat /\ m[i] \in Nat
      BY DEF Matches, Bijection, Injection, Positions
    <3>2. \A j \in S : i < j <=> m[i] < m[j]
      BY DEF Matches
    <3> QED  BY <3>1, <3>2 DEF UpTo
  <2>3. Matches([j \in UpTo(S, i) |-> m[j]], UpTo(S, i), UpTo(T, m[i]))
    BY <2>2, MatchOfSubsets DEF UpTo
  <2>4. IsFiniteSet(UpTo(S, i))
    BY RankInRange
  <2> QED  BY <2>1, <2>3, <2>4, FS_Bijection DEF Matches, ExistsBijection, Rank
<1>3. ASSUME NEW k \in 1 .. Cardinality(S)
      PROVE  Place(S, k) \in S /\ m[Place(S, k)] = Place(T, k)
  <2>1. Place(S, k) \in S /\ Rank(S, Place(S, k)) = k
    BY PlaceOfRank
  <2>2. m[Place(S, k)] \in T /\ Rank(T, m[Place(S, k)]) = k
    BY <1>2, <2>1
  <2> QED  BY <2>1, <2>2, PlaceIsOnly
<1> QED  BY <1>1, <1>3

-----------------------------------------------------------------------------
(* Paths and their ids.                                                    *)

LEMMA RestPositions ==
  ASSUME NEW p \in Rests
  PROVE  /\ \E n \in Nat : DOMAIN p = 1 .. n
         /\ Letters(p) \in Positions /\ Kept(p) \in Positions
         /\ Letters(p) \subseteq Kept(p) /\ Kept(p) \subseteq DOMAIN p
<1>1. PICK n \in Nat : DOMAIN p = 1 .. n
  BY CatalogAssumption DEF Rests, BoundedSeq, SeqOf
<1>2. Letters(p) \subseteq Kept(p) /\ Kept(p) \subseteq DOMAIN p
  BY DEF Letters, Hyphens, Kept
<1>3. IsFiniteSet(1 .. n)
  BY FS_Interval
<1>4. IsFiniteSet(Kept(p)) /\ IsFiniteSet(Letters(p))
  BY <1>1, <1>2, <1>3, FS_Subset
<1> QED  BY <1>1, <1>2, <1>4 DEF Positions

\* An id has a hyphen where no letter was kept.
LEMMA LetterOrHyphen ==
  ASSUME NEW p, NEW i \in DOMAIN p
  PROVE  Upper(p[i]) = "A" <=> i \in Letters(p)
  BY DEF Upper, Letters

\* Whether a letter begins a word can be read off the kept places: they put
\* something that is no letter before it, or nothing.
LEMMA FirstIsKept ==
  ASSUME NEW p \in Rests, NEW i \in Letters(p)
  PROVE  /\ i \in Kept(p) /\ Rank(Kept(p), i) \in 1 .. Cardinality(Kept(p))
         /\ (i = 1 \/ i - 1 \notin Letters(p)) <=>
              \/ Rank(Kept(p), i) = 1
              \/ Place(Kept(p), Rank(Kept(p), i) - 1) \notin Letters(p)
<1> DEFINE K == Kept(p)
           r == Rank(K, i)
           h == Place(K, r - 1)
<1>1. /\ K \in Positions /\ Letters(p) \subseteq K /\ K \subseteq DOMAIN p
      /\ i \in K /\ i \in Nat
  BY RestPositions DEF Positions
<1>2. r \in 1 .. Cardinality(K) /\ r \in Nat /\ Cardinality(K) \in Nat
  BY <1>1, RankInRange, FS_CardinalityType DEF Positions
<1>3. r # 1 => h \in K /\ Rank(K, h) = r - 1 /\ h \in Nat /\ h < i
  <2>1. r # 1 => r - 1 \in 1 .. Cardinality(K)
    BY <1>2
  <2>2. r # 1 => h \in K /\ Rank(K, h) = r - 1
    BY <1>1, <2>1, PlaceOfRank
  <2>3. r - 1 < r
    BY <1>2
  <2> QED  BY <1>1, <2>2, <2>3, RankIncreases DEF Positions
<1>4. \A j \in K : h < j /\ j < i => r = 1
  <2> SUFFICES ASSUME NEW j \in K, h < j, j < i, r # 1
               PROVE  FALSE
    OBVIOUS
  <2>1. r - 1 < Rank(K, j) /\ Rank(K, j) < r
    BY <1>1, <1>3, RankIncreases
  <2>2. Rank(K, j) \in Nat
    BY <1>1, RankInRange
  <2> QED  BY <1>2, <2>1, <2>2
<1> HIDE DEF K, r, h
<1>5. ASSUME i # 1, i - 1 \in Letters(p)
      PROVE  r # 1 /\ h \in Letters(p)
  <2>1. i - 1 \in K /\ i - 1 < i /\ i - 1 \in Nat
    BY <1>1, <1>5 DEF Positions
  <2>2. Rank(K, i - 1) < r /\ Rank(K, i - 1) \in 1 .. Cardinality(K)
    BY <1>1, <2>1, RankIncreases, RankInRange DEF r
  <2>3. r # 1
    BY <1>2, <2>2
  <2>4. ~ (h < i - 1)
    BY <1>4, <2>1, <2>3
  <2>5. h = i - 1
    BY <1>1, <1>3, <2>3, <2>4
  <2> QED  BY <1>5, <2>3, <2>5
<1>6. ASSUME i = 1 \/ i - 1 \notin Letters(p), r # 1, h \in Letters(p)
      PROVE  FALSE
  <2>1. h + 1 < i /\ h + 1 \in Nat /\ h + 1 # i /\ h < h + 1 /\ (h + 1) - 1 = h
    <3>1. h # i - 1
      <4>1. CASE i = 1
        BY <1>1, <1>3, <1>6, <4>1, RestPositions
      <4>2. CASE i - 1 \notin Letters(p)
        BY <1>6, <4>2
      <4> QED  BY <1>6, <4>1, <4>2
    <3> QED  BY <1>1, <1>3, <1>6, <3>1
  <2>2. h + 1 \in DOMAIN p
    <3>1. PICK n \in Nat : DOMAIN p = 1 .. n
      BY RestPositions
    <3>2. h \in 1 .. n /\ i \in 1 .. n
      BY <1>1, <1>3, <1>6, <3>1
    <3> QED  BY <2>1, <3>1, <3>2
  <2>3. h + 1 \in K
    BY <1>6, <2>1, <2>2 DEF K, Kept, Hyphens
  <2> QED  BY <1>4, <1>6, <2>1, <2>3
<1>7. (i = 1 \/ i - 1 \notin Letters(p)) <=> r = 1 \/ h \notin Letters(p)
  BY <1>5, <1>6
<1> QED  BY <1>1, <1>2, <1>7 DEF K, r, h

\* The words of what the strip leaves, as Words has them.
RestWords(p) ==
  [k \in 1 .. Cardinality(Letters(p)) |->
     LET i == Place(Letters(p), k)
     IN  [letter |-> Upper(p[i]), first |-> i = 1 \/ i - 1 \notin Letters(p)]]

\* An id tells where the words of what the strip leaves begin and what they are
\* made of.
LEMMA IdGivesWords ==
  ASSUME NEW p \in Rests, NEW q \in Rests, Spell(p, Kept(p)) = Spell(q, Kept(q))
  PROVE  RestWords(p) = RestWords(q)
<1> DEFINE S == Kept(p)
           T == Kept(q)
           m == [i \in S |-> Place(T, Rank(S, i))]
           f == [i \in Letters(p) |-> m[i]]
<1>1. /\ S \in Positions /\ Letters(p) \in Positions /\ Letters(p) \subseteq S /\ S \subseteq DOMAIN p
      /\ T \in Positions /\ Letters(q) \in Positions /\ Letters(q) \subseteq T /\ T \subseteq DOMAIN q
  BY RestPositions
<1>2. Cardinality(S) = Cardinality(T)
  <2>1. Cardinality(S) \in Nat /\ Cardinality(T) \in Nat
    BY <1>1, FS_CardinalityType DEF Positions
  <2>2. 1 .. Cardinality(S) = 1 .. Cardinality(T)
    BY DEF Spell
  <2> QED  BY <2>1, <2>2
<1>3. Matches(m, S, T) /\ \A i \in S : m[i] \in T /\ Rank(T, m[i]) = Rank(S, i)
  BY <1>1, <1>2, MatchOfRanks DEF Matches, Bijection, Injection
<1> HIDE DEF m
<1>4. \A i \in S : i \in Letters(p) <=> m[i] \in Letters(q)
  <2> TAKE i \in S
  <2>1. Rank(S, i) \in 1 .. Cardinality(S)
    BY <1>1, RankInRange
  <2>2. Spell(p, S)[Rank(S, i)] = Upper(p[i])
    BY <1>1, <2>1, PlaceIsOnly DEF Spell
  <2>3. Spell(q, T)[Rank(S, i)] = Upper(q[m[i]])
    BY <1>1, <1>2, <1>3, <2>1, PlaceIsOnly DEF Spell
  <2> QED  BY <1>1, <1>3, <2>2, <2>3, LetterOrHyphen
<1>5. Matches(f, Letters(p), Letters(q))
  BY <1>1, <1>3, <1>4, MatchOfSubsets
<1> HIDE DEF S, T
<1>6. ASSUME NEW i \in Letters(p)
      PROVE  i = 1 \/ i - 1 \notin Letters(p) <=> m[i] = 1 \/ m[i] - 1 \notin Letters(q)
  <2> DEFINE r == Rank(S, i)
  <2>1. m[i] \in Letters(q) /\ Rank(T, m[i]) = r
    BY <1>1, <1>3, <1>4
  <2>2. r \in 1 .. Cardinality(S)
    BY FirstIsKept DEF S
  <2>3. i = 1 \/ i - 1 \notin Letters(p) <=> r = 1 \/ Place(S, r - 1) \notin Letters(p)
    BY FirstIsKept DEF S
  <2>4. m[i] = 1 \/ m[i] - 1 \notin Letters(q) <=> r = 1 \/ Place(T, r - 1) \notin Letters(q)
    BY <2>1, FirstIsKept DEF T
  <2>5. r # 1 => r - 1 \in 1 .. Cardinality(S)
    BY <1>1, <2>2, FS_CardinalityType DEF Positions
  <2>6. r # 1 => Place(S, r - 1) \in S /\ m[Place(S, r - 1)] = Place(T, r - 1)
    BY <1>1, <1>3, <2>5, MatchKeepsPlaces
  <2> QED  BY <1>4, <2>3, <2>4, <2>6
<1>7. /\ Cardinality(Letters(p)) = Cardinality(Letters(q))
      /\ \A k \in 1 .. Cardinality(Letters(p)) :
           Place(Letters(p), k) \in Letters(p) /\ m[Place(Letters(p), k)] = Place(Letters(q), k)
  <2> HIDE DEF f
  <2>1. /\ Cardinality(Letters(p)) = Cardinality(Letters(q))
        /\ \A k \in 1 .. Cardinality(Letters(p)) :
             Place(Letters(p), k) \in Letters(p) /\ f[Place(Letters(p), k)] = Place(Letters(q), k)
    BY <1>1, <1>5, MatchKeepsPlaces
  <2> QED  BY <2>1 DEF f
<1>8. \A k \in 1 .. Cardinality(Letters(p)) :
        LET i == Place(Letters(p), k)
            j == Place(Letters(q), k)
        IN  /\ Upper(p[i]) = Upper(q[j])
            /\ (i = 1 \/ i - 1 \notin Letters(p)) <=> (j = 1 \/ j - 1 \notin Letters(q))
  <2> TAKE k \in 1 .. Cardinality(Letters(p))
  <2>1. PICK i \in Letters(p) : i = Place(Letters(p), k) /\ m[i] = Place(Letters(q), k)
    BY <1>7
  <2>2. m[i] \in Letters(q)
    BY <1>1, <1>4
  <2>3. Upper(p[i]) = "A" /\ Upper(q[m[i]]) = "A"
    BY <1>1, <2>2, LetterOrHyphen
  <2> QED  BY <1>6, <2>1, <2>3
<1> QED  BY <1>7, <1>8 DEF RestWords

-----------------------------------------------------------------------------
(* Rows.                                                                   *)

\* A row that was reported to has the spec file of a job with its test id.
RowsAreOfJobs ==
  /\ folder \subseteq SpecFiles
  /\ jobs \subseteq {Job(f) : f \in SpecFiles}
  /\ reported \subseteq jobs
  /\ rows \in [TestIds -> SpecFiles \cup {NoFile}]
  /\ \A job \in reported :
       \E other \in jobs : other.testId = job.testId /\ rows[job.testId] = other.specFile

LEMMA JobFacts ==
  ASSUME NEW job \in {Job(f) : f \in SpecFiles}
  PROVE  /\ job.specFile \in SpecFiles /\ job.specFile.path.rest \in Rests
         /\ job.testId \in TestIds /\ job.testId = TestId(job.specFile)
         /\ job = Job(job.specFile)
<1>1. PICK f \in SpecFiles : job = Job(f)
  OBVIOUS
<1>2. job.specFile = f /\ job.testId = TestId(f)
  BY <1>1 DEF Job
<1>3. f.path.rest \in Rests
  BY DEF SpecFiles, Paths
<1> QED  BY <1>1, <1>2, <1>3 DEF TestIds

LEMMA StepRowsAreOfJobs ==
  ASSUME RowsAreOfJobs, [CatalogNext]_catalogVars
  PROVE  RowsAreOfJobs'
<1>1. ASSUME NEW file \in SpecFiles, AddFile(file) PROVE RowsAreOfJobs'
  BY <1>1 DEF AddFile, RowsAreOfJobs
<1>2. CASE PostRun
  BY <1>2 DEF PostRun, RowsAreOfJobs
<1>3. ASSUME NEW job \in jobs, Report(job) PROVE RowsAreOfJobs'
  <2>1. job.testId \in TestIds /\ job.specFile \in SpecFiles
    BY JobFacts DEF RowsAreOfJobs
  <2>2. /\ rows' = [rows EXCEPT ![job.testId] = job.specFile]
        /\ reported' = reported \cup {job} /\ jobs' = jobs /\ folder' = folder
    BY <1>3 DEF Report
  <2>3. rows' \in [TestIds -> SpecFiles \cup {NoFile}]
    BY <2>1, <2>2 DEF RowsAreOfJobs
  <2>4. ASSUME NEW old \in reported'
        PROVE  \E other \in jobs : other.testId = old.testId /\ rows'[old.testId] = other.specFile
    <3>1. CASE old.testId = job.testId
      BY <2>1, <2>2, <3>1 DEF RowsAreOfJobs
    <3>2. CASE old.testId # job.testId
      BY <2>2, <2>4, <3>2, JobFacts DEF RowsAreOfJobs
    <3> QED  BY <3>1, <3>2
  <2> QED  BY <2>2, <2>3, <2>4 DEF RowsAreOfJobs
<1>4. CASE UNCHANGED catalogVars
  BY <1>4 DEF catalogVars, RowsAreOfJobs
<1> QED  BY <1>1, <1>2, <1>3, <1>4 DEF CatalogNext

\* For every folder of the project, with paths of any length: a test loses its row
\* to another only if the two paths have the same words or the strip takes other
\* things from them, because the row is found by the id and an id gives the words
\* that the strip leaves (IdGivesWords).
THEOREM DistinctWordsKeepTheirRows == CatalogSpec => []DistinctWordsKeepRows
<1>1. CatalogInit => RowsAreOfJobs
  BY DEF CatalogInit, RowsAreOfJobs
<1>2. RowsAreOfJobs /\ [CatalogNext]_catalogVars => RowsAreOfJobs'
  BY StepRowsAreOfJobs
<1>3. ASSUME RowsAreOfJobs PROVE DistinctWordsKeepRows
  <2> SUFFICES ASSUME NEW job \in reported,
                      \A other \in jobs \ {job} :
                        /\ Cut(other.specFile.path) = Cut(job.specFile.path)
                        /\ Words(other.specFile.path) # Words(job.specFile.path)
               PROVE  rows[job.testId] = job.specFile
    BY DEF DistinctWordsKeepRows
  <2>1. PICK other \in jobs : other.testId = job.testId /\ rows[job.testId] = other.specFile
    BY <1>3 DEF RowsAreOfJobs
  <2>2. job \in {Job(f) : f \in SpecFiles} /\ other \in {Job(f) : f \in SpecFiles}
    BY <1>3 DEF RowsAreOfJobs
  <2>3. TestId(other.specFile) = TestId(job.specFile)
    BY <2>1, <2>2, JobFacts
  <2>4. RestWords(other.specFile.path.rest) = RestWords(job.specFile.path.rest)
    BY <2>2, <2>3, JobFacts, IdGivesWords DEF TestId
  <2>5. Cut(other.specFile.path) = Cut(job.specFile.path) =>
          Words(other.specFile.path) = Words(job.specFile.path)
    BY <2>4 DEF Words, RestWords
  <2>6. other = job
    BY <2>5
  <2> QED  BY <2>1, <2>6
<1> QED  BY <1>1, <1>2, <1>3, PTL DEF CatalogSpec

-----------------------------------------------------------------------------
\* A run of dummy tests is one of Scheduling and leaves the catalog alone, a run of
\* spec files the other way round, so all of the above holds of Scheduler.
THEOREM SchedulerHolds ==
  SchedulerSpec => [](TypeOK /\ MixMet /\ RetriesRecover /\ DistinctWordsKeepRows)
<1>1. SchedulerInit => Init /\ CatalogInit
  BY DEF SchedulerInit
<1>2. [SchedulerNext]_schedulerVars => [Next]_schedulingVars /\ [CatalogNext]_catalogVars
  BY DEF SchedulerNext, schedulerVars, DummyRun, SpecRun
<1>3. SchedulerSpec => Spec /\ CatalogSpec
  BY <1>1, <1>2, PTL DEF SchedulerSpec, Spec, CatalogSpec
<1> QED
  BY <1>3, TypeCorrect, MixIsMet, RetriesAlwaysRecover, DistinctWordsKeepTheirRows, PTL
=============================================================================
