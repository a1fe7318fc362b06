------------------------- MODULE DispatchRefinement -------------------------
(***************************************************************************)
(* Dispatch implements TestLifecycle for every set of tests and workers    *)
(* and every value of the limits.                                          *)
(***************************************************************************)
EXTENDS DispatchLifecycle, DispatchProofs

LEMMA JobsAreJobOf ==
  /\ \A t \in Tests, a \in Attempts :
       JobOf(t, a) \in Jobs /\ JobOf(t, a).test = t /\ JobOf(t, a).attempt = a
  /\ \A j \in Jobs :
       j.test \in Tests /\ j.attempt \in Attempts /\ j = JobOf(j.test, j.attempt)
  BY DEF JobOf, Jobs

\* Only a submission and a retry issue an attempt.
LEMMA IssuedStays ==
  ASSUME Sound, [Next]_vars,
         \A t \in Tests : ~ Submit(t),
         \A s \in Slots : ~ PublishRetry(s)
  PROVE  issuedAttempts' = issuedAttempts
<1>1. ASSUME NEW t \in Tests, t \notin submitted, submitted' = submitted \cup {t}
      PROVE FALSE
  BY <1>1 DEF Next, Handle, vars, Deliver, RunReturns, RunThrows, PublishRetry,
     PublishResult, Ack, Nack, Requeue, Crash, StartWorker
<1>2. ASSUME NEW j \in Jobs PROVE Exists(j)' <=> Exists(j)
  BY <1>1, <1>2, ExistsStable, ExistsOrigin DEF FirstAttemptOf, RetryOf
<1>3. ASSUME NEW t \in Tests, NEW a \in Attempts
      PROVE  Exists(JobOf(t, a))' <=> Exists(JobOf(t, a))
  <2> DEFINE j == [test |-> t, attempt |-> a]
  <2>1. j \in Jobs
    BY DEF Jobs
  <2>2. Exists(j)' <=> Exists(j)
    BY <1>2, <2>1
  <2>3. QED
    BY <2>2 DEF JobOf
<1>4. QED
  BY <1>3 DEF issuedAttempts

LEMMA ReportedStays == acked' = acked => reportedAttempts' = reportedAttempts
  BY DEF reportedAttempts, JobOf

LEMMA ParkedStays ==
  (\A j \in Jobs : queue'["deadletter"][j] = queue["deadletter"][j])
    => parkedAttempts' = parkedAttempts
<1>1. SUFFICES ASSUME \A j \in Jobs : queue'["deadletter"][j] = queue["deadletter"][j]
               PROVE  parkedAttempts' = parkedAttempts
  OBVIOUS
<1>2. ASSUME NEW t \in Tests, NEW a \in Attempts
      PROVE  Dead(JobOf(t, a))' <=> Dead(JobOf(t, a))
  <2>1. [test |-> t, attempt |-> a] \in Jobs
    BY DEF Jobs
  <2>2. QED
    BY <1>1, <2>1 DEF Dead, JobOf
<1>3. QED
  BY <1>2 DEF parkedAttempts

\* Publishing to another queue parks nothing.
LEMMA PublishParksNothing ==
  ASSUME TypeOK, NEW q \in QueueNames \ {"deadletter"}, NEW j \in Jobs, Publish(q, j)
  PROVE  parkedAttempts' = parkedAttempts
<1>1. queue \in [QueueNames -> [Jobs -> Nat]] /\ "deadletter" \in QueueNames
  BY DEF TypeOK, QueueNames
<1>2. \A k \in Jobs : queue'["deadletter"][k] = queue["deadletter"][k]
  BY <1>1, PublishCounts
<1>3. QED
  BY <1>2, ParkedStays

-----------------------------------------------------------------------------
LEMMA InitImplements == Init => Lifecycle!Init
<1> SUFFICES ASSUME Init PROVE Lifecycle!Init
  OBVIOUS
<1>1. \A j \in Jobs : ~ Exists(j) /\ ~ Dead(j) /\ \A v \in Verdicts : acked[v][j] = 0
  BY DEF Init, Exists, Live, Dead, Acked, Holds, Consumed, QueueNames, Verdicts
<1>2. \A t \in Tests :
        /\ issuedAttempts[t] = {}
        /\ reportedAttempts[t] = {}
        /\ parkedAttempts[t] = {}
  BY <1>1, JobsAreJobOf DEF issuedAttempts, reportedAttempts, parkedAttempts
<1>3. QED
  BY <1>2 DEF Lifecycle!Init, issuedAttempts, reportedAttempts, parkedAttempts

\* The publishing of a first job is the issue of attempt 1.
LEMMA SubmitIssues ==
  ASSUME IndInv, [Next]_vars, NEW t \in Tests, Submit(t)
  PROVE  Lifecycle!Issue(t)
<1> USE DispatchAssumption
<1>0. Sound /\ TypeOK /\ TypeOK' /\ RetriesJustified
  BY StepTypeOK DEF IndInv, Sound
<1>1. ASSUME NEW j \in Jobs, j.test = t PROVE ~ Exists(j)
  BY <1>0, <1>1 DEF RetriesJustified, Submit
<1>2. issuedAttempts[t] = {}
  BY <1>1, JobsAreJobOf DEF issuedAttempts
<1>3. First(t) \in Jobs /\ First(t).test = t /\ First(t).attempt = 1
  BY FirstIsJob DEF First
<1>4. Exists(First(t))'
  <2>1. queue'["execution"][First(t)] = queue["execution"][First(t)] + 1
    BY <1>0, <1>3, PublishCounts DEF Submit, TypeOK, QueueNames
  <2>2. queue["execution"][First(t)] \in Nat
    BY <1>0, <1>3 DEF TypeOK, QueueNames
  <2>3. QED
    BY <2>1, <2>2 DEF Exists, Live, Consumed, First
<1>5. ASSUME NEW s \in Slots, PublishRetry(s) PROVE FALSE
  BY <1>5 DEF Submit, PublishRetry
<1>6. ASSUME NEW j \in Jobs PROVE Exists(j)' <=> Exists(j) \/ j = First(t)
  <2>1. ASSUME Exists(j)', ~ Exists(j) PROVE j = First(t)
    <3>1. PICK u \in Tests : FirstAttemptOf(u, j)
      BY <1>0, <1>5, <2>1, ExistsOrigin DEF RetryOf
    <3>2. u = t
      BY <3>1 DEF FirstAttemptOf, Submit
    <3>3. QED
      BY <3>1, <3>2 DEF FirstAttemptOf
  <2>2. QED
    BY <1>0, <1>4, <2>1, ExistsStable DEF First
<1>7. ASSUME NEW u \in Tests, NEW a \in Attempts
      PROVE  Exists(JobOf(u, a))' <=> Exists(JobOf(u, a)) \/ (u = t /\ a = 1)
  <2> DEFINE j == [test |-> u, attempt |-> a]
  <2>1. j \in Jobs
    BY DEF Jobs
  <2>2. j = First(t) <=> u = t /\ a = 1
    BY DEF First
  <2>3. Exists(j)' <=> Exists(j) \/ j = First(t)
    BY <1>6, <2>1
  <2>4. QED
    BY <2>2, <2>3 DEF JobOf
<1>8. issuedAttempts' = [issuedAttempts EXCEPT ![t] = {1}]
  <2>1. 1 \in Attempts
    BY DEF Attempts
  <2>2. \A u \in Tests : u # t => issuedAttempts'[u] = issuedAttempts[u]
    BY <1>7 DEF issuedAttempts
  <2>3. issuedAttempts'[t] = {1}
    <3>1. \A a \in Attempts : a \in issuedAttempts'[t] <=> a \in issuedAttempts[t] \/ a = 1
      BY <1>7 DEF issuedAttempts
    <3>2. issuedAttempts'[t] \subseteq Attempts
      BY DEF issuedAttempts
    <3>3. QED
      BY <1>2, <2>1, <3>1, <3>2
  <2>4. QED
    BY <2>2, <2>3 DEF issuedAttempts
<1>9. reportedAttempts' = reportedAttempts
  BY ReportedStays DEF Submit
<1>10. parkedAttempts' = parkedAttempts
  BY <1>0, <1>3, PublishParksNothing DEF Submit, QueueNames
<1>11. QED
  BY <1>2, <1>8, <1>9, <1>10 DEF Lifecycle!Issue

\* A retry on the queue is the abstract retry of the attempt the slot holds;
\* when a redelivery has published it before, it changes nothing.
LEMMA RetryImplements ==
  ASSUME IndInv, [Next]_vars, NEW s \in Slots, PublishRetry(s)
  PROVE  \E t \in Tests : \E a \in 1 .. MaxRetries + 1 : Lifecycle!Retry(t, a)
<1> USE DispatchAssumption
<1>0. Sound /\ TypeOK /\ TypeOK' /\ HandlerOK
  BY StepTypeOK DEF IndInv, Sound
<1> DEFINE h == job[s]
           t == job[s].test
           a == job[s].attempt
           n == NextAttempt(job[s])
<1>1. h \in Jobs /\ RetriesLeft(h) /\ Exists(h)
  BY <1>0, BusySlotHoldsJob DEF PublishRetry, HandlerOK, Exists, Live, Holds
<1>2. n \in Jobs /\ n.test = t /\ n.attempt = a + 1
  BY <1>1, NextAttemptIsJob DEF NextAttempt
<1>3. t \in Tests /\ a \in 1 .. MaxRetries /\ a \in Attempts /\ h = JobOf(t, a)
  BY <1>1, JobsAreJobOf DEF RetriesLeft, Attempts
<1>4. a \in issuedAttempts[t]
  BY <1>1, <1>3 DEF issuedAttempts
<1>5. job' = job
  BY DEF PublishRetry
<1>6. Exists(n)'
  <2>1. queue'["retry"][n] = queue["retry"][n] + 1
    BY <1>0, <1>2, PublishCounts DEF PublishRetry, PublishThenGoto, TypeOK, QueueNames
  <2>2. queue["retry"][n] \in Nat
    BY <1>0, <1>2 DEF TypeOK, QueueNames
  <2>3. \E q \in Consumed : queue'[q][n] > 0
    BY <2>1, <2>2 DEF Consumed
  <2>4. QED
    BY <1>5, <2>3 DEF Exists, Live, NextAttempt
<1>7. ASSUME NEW j \in Jobs PROVE Exists(j)' <=> Exists(j) \/ j = n
  <2>1. ASSUME Exists(j)', ~ Exists(j) PROVE j = n
    <3>1. ASSUME NEW u \in Tests, FirstAttemptOf(u, j) PROVE FALSE
      BY <1>0, <3>1 DEF FirstAttemptOf, PublishRetry, TypeOK
    <3>2. PICK r \in Slots : RetryOf(r, j)
      BY <1>0, <2>1, <3>1, ExistsOrigin
    <3>3. RetryOf(r, j) => j = n
      <4>1. job[r] \in Jobs /\ NextAttempt(job[r]) \in Jobs
        BY <1>0, <3>2, BusySlotHoldsJob, NextAttemptIsJob DEF RetryOf, HandlerOK
      <4>2. queue'["retry"][j] = queue["retry"][j] + 1
        <5>1. Publish("retry", NextAttempt(job[r])) /\ j = NextAttempt(job[r])
          BY <3>2 DEF RetryOf, PublishRetry, PublishThenGoto
        <5>2. QED
          BY <1>0, <4>1, <5>1, PublishCounts DEF TypeOK, QueueNames
      <4>3. queue["retry"][j] \in Nat
        BY <1>0 DEF TypeOK, QueueNames
      <4>4. j # n => queue'["retry"][j] = queue["retry"][j]
        <5>1. Publish("retry", n)
          BY DEF PublishRetry, PublishThenGoto
        <5>2. "retry" \in QueueNames /\ queue \in [QueueNames -> [Jobs -> Nat]]
          BY <1>0 DEF TypeOK, QueueNames
        <5> HIDE DEF n
        <5>3. \A p \in QueueNames, k \in Jobs :
                (p # "retry" \/ k # n) => queue'[p][k] = queue[p][k]
          BY <1>2, <5>1, <5>2, PublishCounts
        <5>4. QED
          BY <5>2, <5>3
      <4>5. QED
        BY <4>2, <4>3, <4>4
    <3>4. QED
      BY <3>2, <3>3
  <2>2. ASSUME j = n PROVE Exists(j)'
    BY <1>5, <1>6, <2>2 DEF NextAttempt
  <2>3. QED
    BY <1>0, <2>1, <2>2, ExistsStable
<1>8. ASSUME NEW u \in Tests, NEW b \in Attempts
      PROVE  Exists(JobOf(u, b))' <=> Exists(JobOf(u, b)) \/ (u = t /\ b = a + 1)
  <2> DEFINE j == [test |-> u, attempt |-> b]
  <2>1. j \in Jobs
    BY DEF Jobs
  <2>2. j = n <=> u = t /\ b = a + 1
    BY <1>2 DEF NextAttempt
  <2>3. Exists(j)' <=> Exists(j) \/ j = n
    BY <1>7, <2>1
  <2>4. QED
    BY <2>2, <2>3 DEF JobOf
<1>9. issuedAttempts' = [issuedAttempts EXCEPT ![t] = @ \cup {a + 1}]
  <2>1. a + 1 \in Attempts
    BY <1>2 DEF Jobs
  <2>2. \A u \in Tests : u # t => issuedAttempts'[u] = issuedAttempts[u]
    BY <1>8 DEF issuedAttempts
  <2>3. \A b \in Attempts : b \in issuedAttempts'[t] <=> b \in issuedAttempts[t] \/ b = a + 1
    BY <1>3, <1>8 DEF issuedAttempts
  <2>4. issuedAttempts'[t] \subseteq Attempts /\ issuedAttempts[t] \subseteq Attempts
    BY <1>3 DEF issuedAttempts
  <2>5. issuedAttempts'[t] = issuedAttempts[t] \cup {a + 1}
    BY <2>1, <2>3, <2>4
  <2>6. QED
    BY <2>2, <2>5 DEF issuedAttempts
<1>10. reportedAttempts' = reportedAttempts
  BY ReportedStays DEF PublishRetry
<1>11. parkedAttempts' = parkedAttempts
  BY <1>0, <1>2, PublishParksNothing DEF PublishRetry, PublishThenGoto, QueueNames
<1>12. Lifecycle!Retry(t, a)
  BY <1>3, <1>4, <1>9, <1>10, <1>11 DEF Lifecycle!Retry, Lifecycle!LastAttempt
<1>13. QED
  BY <1>3, <1>12

\* A job that exists is an issued attempt within the limit.
LEMMA HeldIsIssued ==
  ASSUME IndInv, NEW s \in Slots, pc[s] # "free"
  PROVE  /\ job[s] \in Jobs
         /\ job[s].test \in Tests
         /\ job[s].attempt \in 1 .. MaxRetries + 1
         /\ job[s].attempt \in issuedAttempts[job[s].test]
<1>1. job[s] \in Jobs /\ Exists(job[s])
  BY BusySlotHoldsJob DEF IndInv, Sound, Exists, Live, Holds
<1> DEFINE j == job[s]
<1>2. j.attempt <= MaxRetries + 1
  BY <1>1 DEF IndInv, RetriesJustified
<1>3. j.test \in Tests /\ j.attempt \in Attempts /\ j = JobOf(j.test, j.attempt)
  BY <1>1, JobsAreJobOf
<1>4. j.attempt \in 1 .. MaxRetries + 1
  BY <1>2, <1>3, DispatchAssumption DEF Attempts
<1>5. QED
  BY <1>1, <1>3, <1>4 DEF issuedAttempts

\* An ack reports the attempt with the verdict of this run of it; a failure
\* with retries left is past its retry step, so the next attempt is issued.
LEMMA AckImplements ==
  ASSUME IndInv, [Next]_vars, NEW s \in Slots, Ack(s)
  PROVE  \E t \in Tests : \E a \in 1 .. MaxRetries + 1 :
           \E v \in Lifecycle!Outcomes : Lifecycle!Report(t, a, v)
<1> USE DispatchAssumption
<1>0. Sound /\ TypeOK /\ TypeOK' /\ HandlerOK /\ FailuresRetried
  BY StepTypeOK DEF IndInv, Sound
<1> DEFINE h == job[s]
           t == job[s].test
           a == job[s].attempt
           v == verdict[s]
<1>1. /\ h \in Jobs /\ t \in Tests /\ a \in 1 .. MaxRetries + 1
      /\ a \in issuedAttempts[t] /\ a \in Attempts
  BY HeldIsIssued, JobsAreJobOf DEF Ack
<1>2. v \in Verdicts
  BY <1>0 DEF Ack, HandlerOK
<1>3. v = "FAILED" /\ a < MaxRetries + 1 => a + 1 \in issuedAttempts[t]
  <2>1. SUFFICES ASSUME v = "FAILED", a < MaxRetries + 1 PROVE a + 1 \in issuedAttempts[t]
    OBVIOUS
  <2>2. RetriesLeft(h)
    BY <1>1, <2>1 DEF RetriesLeft
  <2>3. Exists(NextAttempt(h)) /\ NextAttempt(h) \in Jobs
    BY <1>0, <1>1, <2>1, <2>2, NextAttemptIsJob DEF FailuresRetried, Ack
  <2>4. NextAttempt(h).test = t /\ NextAttempt(h).attempt = a + 1
    BY DEF NextAttempt
  <2>5. QED
    BY <1>1, <2>3, <2>4, JobsAreJobOf DEF issuedAttempts
<1>4. /\ acked' \in [Verdicts -> [Jobs -> Nat]]
      /\ acked'[v][h] = acked[v][h] + 1
      /\ \A w \in Verdicts, k \in Jobs : (w # v \/ k # h) => acked'[w][k] = acked[w][k]
  BY <1>0, AckCounts
<1>5. acked[v][h] \in Nat
  BY <1>0, <1>1, <1>2 DEF TypeOK
<1>6. ASSUME NEW u \in Tests, NEW b \in Attempts, NEW w \in Verdicts
      PROVE  acked'[w][JobOf(u, b)] > 0
               <=> acked[w][JobOf(u, b)] > 0 \/ (u = t /\ b = a /\ w = v)
  <2>1. JobOf(u, b) \in Jobs /\ (JobOf(u, b) = h <=> u = t /\ b = a)
    BY <1>1, JobsAreJobOf
  <2>2. CASE JobOf(u, b) = h /\ w = v
    BY <1>4, <1>5, <2>1, <2>2
  <2>3. CASE JobOf(u, b) # h \/ w # v
    BY <1>4, <2>1, <2>3
  <2>4. QED
    BY <2>2, <2>3
<1>7. reportedAttempts' = [reportedAttempts EXCEPT ![t] = @ \cup {<<a, v>>}]
  <2>1. ASSUME NEW u \in Tests, u # t PROVE reportedAttempts'[u] = reportedAttempts[u]
    BY <1>6, <2>1 DEF reportedAttempts, JobOf
  <2>2. reportedAttempts'[t] = reportedAttempts[t] \cup {<<a, v>>}
    <3>1. reportedAttempts'[t] \subseteq Attempts \X Verdicts
      BY <1>1 DEF reportedAttempts
    <3>2. reportedAttempts[t] \subseteq Attempts \X Verdicts
      BY <1>1 DEF reportedAttempts
    <3>3. <<a, v>> \in Attempts \X Verdicts
      BY <1>1, <1>2
    <3>4. ASSUME NEW b \in Attempts, NEW w \in Verdicts
          PROVE  <<b, w>> \in reportedAttempts'[t]
                   <=> <<b, w>> \in reportedAttempts[t] \/ <<b, w>> = <<a, v>>
      BY <1>1, <1>6 DEF reportedAttempts, JobOf
    <3>5. QED
      BY <3>1, <3>2, <3>3, <3>4
  <2>3. QED
    BY <2>1, <2>2 DEF reportedAttempts
<1>8. issuedAttempts' = issuedAttempts
  <2>1. \A u \in Tests : ~ Submit(u)
    BY DEF Submit, Ack, Release, slotVars, Publish
  <2>2. acked' # acked
    BY <1>4, <1>5
  <2>3. \A r \in Slots : ~ PublishRetry(r)
    BY <2>2 DEF PublishRetry
  <2>4. QED
    BY <1>0, <2>1, <2>3, IssuedStays
<1>9. parkedAttempts' = parkedAttempts
  BY ParkedStays DEF Ack
<1>10. Lifecycle!Report(t, a, v)
  BY <1>1, <1>3, <1>7, <1>8, <1>9 DEF Lifecycle!Report, Lifecycle!LastAttempt
<1>11. QED
  BY <1>1, <1>2, <1>10 DEF Verdicts, Lifecycle!Outcomes

\* A rejected message is parked in the dead-letter queue.
LEMMA NackImplements ==
  ASSUME IndInv, [Next]_vars, NEW s \in Slots, Nack(s)
  PROVE  \E t \in Tests : \E a \in 1 .. MaxRetries + 1 : Lifecycle!Park(t, a)
<1>0. Sound /\ TypeOK
  BY DEF IndInv, Sound
<1> DEFINE h == job[s]
           t == job[s].test
           a == job[s].attempt
<1>1. /\ h \in Jobs /\ t \in Tests /\ a \in 1 .. MaxRetries + 1
      /\ a \in issuedAttempts[t] /\ a \in Attempts
  BY HeldIsIssued, JobsAreJobOf DEF Nack
<1>2. /\ queue'["deadletter"][h] = queue["deadletter"][h] + 1
      /\ \A k \in Jobs : k # h => queue'["deadletter"][k] = queue["deadletter"][k]
  BY <1>0, <1>1, PublishCounts DEF Nack, TypeOK, QueueNames
<1>3. queue["deadletter"][h] \in Nat
  BY <1>0, <1>1 DEF TypeOK, QueueNames
<1>4. ASSUME NEW u \in Tests, NEW b \in Attempts
      PROVE  queue'["deadletter"][JobOf(u, b)] > 0
               <=> queue["deadletter"][JobOf(u, b)] > 0 \/ (u = t /\ b = a)
  <2>1. JobOf(u, b) \in Jobs /\ (JobOf(u, b) = h <=> u = t /\ b = a)
    BY <1>1, JobsAreJobOf
  <2>2. CASE JobOf(u, b) = h
    BY <1>2, <1>3, <2>1, <2>2
  <2>3. CASE JobOf(u, b) # h
    BY <1>2, <2>1, <2>3
  <2>4. QED
    BY <2>2, <2>3
<1>5. parkedAttempts' = [parkedAttempts EXCEPT ![t] = @ \cup {a}]
  <2>1. ASSUME NEW u \in Tests, u # t PROVE parkedAttempts'[u] = parkedAttempts[u]
    BY <1>4, <2>1 DEF parkedAttempts, Dead, JobOf
  <2>2. parkedAttempts'[t] = parkedAttempts[t] \cup {a}
    <3>1. parkedAttempts'[t] \subseteq Attempts /\ parkedAttempts[t] \subseteq Attempts
      BY <1>1 DEF parkedAttempts
    <3>2. \A b \in Attempts : b \in parkedAttempts'[t] <=> b \in parkedAttempts[t] \/ b = a
      BY <1>1, <1>4 DEF parkedAttempts, Dead, JobOf
    <3>3. QED
      BY <1>1, <3>1, <3>2
  <2>3. QED
    BY <2>1, <2>2 DEF parkedAttempts
<1>6. issuedAttempts' = issuedAttempts
  <2>1. \A u \in Tests : ~ Submit(u)
    BY DEF Submit, Nack
  <2>2. queue'["retry"] = queue["retry"]
    BY DEF Nack, Publish
  <2>3. ASSUME NEW r \in Slots, PublishRetry(r) PROVE FALSE
    <3>1. NextAttempt(job[r]) \in Jobs
      BY <1>0, <2>3, BusySlotHoldsJob, NextAttemptIsJob DEF PublishRetry, Sound, HandlerOK
    <3>2. /\ queue'["retry"][NextAttempt(job[r])] = queue["retry"][NextAttempt(job[r])] + 1
          /\ queue["retry"][NextAttempt(job[r])] \in Nat
      BY <1>0, <2>3, <3>1, PublishCounts
      DEF PublishRetry, PublishThenGoto, TypeOK, QueueNames
    <3>3. QED
      BY <2>2, <3>2
  <2>4. QED
    BY <1>0, <2>1, <2>3, IssuedStays
<1>7. reportedAttempts' = reportedAttempts
  BY ReportedStays DEF Nack
<1>8. Lifecycle!Park(t, a)
  BY <1>1, <1>5, <1>6, <1>7 DEF Lifecycle!Park
<1>9. QED
  BY <1>1, <1>8

-----------------------------------------------------------------------------
\* Every other step is a stutter.
LEMMA OtherStepsStutter ==
  ASSUME IndInv, [Next]_vars,
         \A t \in Tests : ~ Submit(t),
         \A s \in Slots : ~ PublishRetry(s) /\ ~ Ack(s) /\ ~ Nack(s)
  PROVE  UNCHANGED Lifecycle!vars
<1>0. Sound /\ TypeOK
  BY DEF IndInv, Sound
<1>1. issuedAttempts' = issuedAttempts
  BY <1>0, IssuedStays
<1>2. reportedAttempts' = reportedAttempts
  <2>1. acked' = acked
    BY DEF Next, Handle, vars, Submit, Deliver, RunReturns, RunThrows,
       PublishResult, Requeue, Crash, StartWorker
  <2>2. QED
    BY <2>1, ReportedStays
<1>3. parkedAttempts' = parkedAttempts
  <2>1. ASSUME NEW s \in Slots, Deliver(s) PROVE parkedAttempts' = parkedAttempts
    <3>1. s.source # "deadletter"
      BY SourceIsQueue DEF Consumed
    <3>2. QED
      BY <1>0, <2>1, <3>1, DeliverCounts, ParkedStays DEF QueueNames
  <2>2. ASSUME NEW s \in Slots, PublishResult(s) PROVE parkedAttempts' = parkedAttempts
    BY <1>0, <2>2, BusySlotHoldsJob, PublishParksNothing
    DEF PublishResult, PublishThenGoto, QueueNames
  <2>3. ASSUME NEW s \in Slots, Requeue(s) PROVE parkedAttempts' = parkedAttempts
    <3>1. s.source \in QueueNames \ {"deadletter"}
      BY SourceIsQueue DEF Consumed, QueueNames
    <3>2. QED
      BY <1>0, <2>3, <3>1, BusySlotHoldsJob, PublishParksNothing DEF Requeue
  <2>4. CASE queue' = queue
    BY <2>4, ParkedStays
  <2>5. QED
    BY <2>1, <2>2, <2>3, <2>4
    DEF Next, Handle, vars, RunReturns, RunThrows, Crash, StartWorker
<1>4. QED
  BY <1>1, <1>2, <1>3 DEF Lifecycle!vars

LEMMA StepImplements ==
  ASSUME IndInv, [Next]_vars
  PROVE  [Lifecycle!Next]_(Lifecycle!vars)
<1> USE DEF Lifecycle!LastAttempt
<1>1. ASSUME NEW t \in Tests, Submit(t) PROVE Lifecycle!Next
  BY <1>1, SubmitIssues DEF Lifecycle!Next
<1>2. ASSUME NEW s \in Slots, PublishRetry(s) PROVE Lifecycle!Next
  BY <1>2, RetryImplements DEF Lifecycle!Next
<1>3. ASSUME NEW s \in Slots, Ack(s) PROVE Lifecycle!Next
  BY <1>3, AckImplements DEF Lifecycle!Next
<1>4. ASSUME NEW s \in Slots, Nack(s) PROVE Lifecycle!Next
  BY <1>4, NackImplements DEF Lifecycle!Next
<1>5. QED
  BY <1>1, <1>2, <1>3, <1>4, OtherStepsStutter

\* The queue boundary keeps the platform's promise for its tests: through
\* refused publishes, crashes and redeliveries, attempts are issued in order and
\* only by a retry, and the failure of an attempt with retries left is acked
\* only after the next attempt has been queued.
THEOREM DispatchImplementsLifecycle == Spec => ImplementsLifecycle
<1>1. IndInv /\ [Next]_vars => [Lifecycle!Next]_(Lifecycle!vars)
  BY StepImplements
<1>2. QED
  BY <1>1, InitImplements, Inductive, PTL DEF Spec, ImplementsLifecycle, Lifecycle!Spec
=============================================================================
