--------------------------- MODULE DispatchProofs ---------------------------
(***************************************************************************)
(* Theorems about Dispatch for every set of tests and workers and every    *)
(* value of the limits, and their proofs.                                  *)
(***************************************************************************)
EXTENDS Dispatch, FiniteSetTheorems, TLAPS

\* What a handler that has come to a step knows of its own job.
HandlerOK ==
  \A s \in Slots :
    /\ pc[s] = "retry" => /\ verdict[s] = "FAILED"
                          /\ RetriesLeft(job[s])
                          /\ job[s] \in failed
    /\ pc[s] \in {"result", "ack"} => verdict[s] \in Verdicts

Sound == TypeOK /\ HandlerOK

\* A failure is never reported for an attempt with retries left unless the next
\* attempt exists: neither by an ack nor by a handler past its retry step.
FailuresRetried ==
  /\ \A j \in Jobs :
       acked["FAILED"][j] > 0 /\ RetriesLeft(j) => Exists(NextAttempt(j))
  /\ \A s \in Slots :
       pc[s] \in {"result", "ack"} /\ verdict[s] = "FAILED" /\ RetriesLeft(job[s])
         => Exists(NextAttempt(job[s]))

FailedExist == \A j \in failed : Exists(j)

\* Every submitted test has a last attempt.  With FailuresRetried this is what
\* makes NoTestLost follow without an induction over attempts.
LastAttemptExists ==
  \A t \in submitted :
    \E j \in Jobs : j.test = t /\ Exists(j) /\ ~ (NextAttempt(j) \in Jobs /\ Exists(NextAttempt(j)))

IndInv ==
  /\ Sound
  /\ RetriesJustified
  /\ FailuresRetried
  /\ FailedExist
  /\ LastAttemptExists

-----------------------------------------------------------------------------
(* Type correctness.  TypeOK alone is not inductive: the retry of the last *)
(* representable attempt would leave Jobs, and only HandlerOK excludes it. *)

LEMMA FirstIsJob == \A t \in Tests : First(t) \in Jobs
  BY DispatchAssumption DEF First, Jobs, Attempts

LEMMA NextAttemptIsJob ==
  \A j \in Jobs : RetriesLeft(j) => NextAttempt(j) \in Jobs
  BY DispatchAssumption DEF NextAttempt, RetriesLeft, Jobs, Attempts

LEMMA BusySlotHoldsJob ==
  TypeOK => \A s \in Slots : pc[s] # "free" => job[s] \in Jobs
  BY DEF TypeOK

LEMMA SourceIsQueue == \A s \in Slots : s.source \in Consumed /\ s.worker \in Workers
  BY DEF Slots

\* Publishing adds one copy to one queue and touches no other count.
LEMMA PublishCounts ==
  ASSUME NEW q \in QueueNames, NEW j \in Jobs,
         queue \in [QueueNames -> [Jobs -> Nat]], Publish(q, j)
  PROVE  /\ queue' \in [QueueNames -> [Jobs -> Nat]]
         /\ queue'[q][j] = queue[q][j] + 1
         /\ \A p \in QueueNames, k \in Jobs :
              (p # q \/ k # j) => queue'[p][k] = queue[p][k]
<1> DEFINE more == [queue[q] EXCEPT ![j] = @ + 1]
<1>1. more \in [Jobs -> Nat]
  OBVIOUS
<1>2. queue' = [queue EXCEPT ![q] = more]
  BY DEF Publish
<1>3. QED
  BY <1>1, <1>2

\* A delivery takes one copy from the queue the slot consumes.
LEMMA DeliverCounts ==
  ASSUME TypeOK, NEW s \in Slots, Deliver(s)
  PROVE  /\ queue' \in [QueueNames -> [Jobs -> Nat]]
         /\ job' \in [Slots -> Jobs \cup {NoJob}]
         /\ job'[s] \in Jobs
         /\ queue[s.source][job'[s]] > 0
         /\ \A p \in QueueNames, k \in Jobs :
              (p # s.source \/ k # job'[s]) => queue'[p][k] = queue[p][k]
         /\ \A r \in Slots : r # s => job'[r] = job[r]
<1>1. PICK j \in Jobs :
        /\ queue[s.source][j] > 0
        /\ queue' = [queue EXCEPT ![s.source][j] = @ - 1]
        /\ job' = [job EXCEPT ![s] = j]
  BY DEF Deliver
<1>2. s.source \in QueueNames
  BY SourceIsQueue DEF Consumed, QueueNames
<1> DEFINE fewer == [queue[s.source] EXCEPT ![j] = @ - 1]
<1>3. fewer \in [Jobs -> Nat]
  BY <1>1, <1>2 DEF TypeOK
<1>4. queue' = [queue EXCEPT ![s.source] = fewer]
  BY <1>1
<1>5. job' \in [Slots -> Jobs \cup {NoJob}] /\ job'[s] = j
  BY <1>1 DEF TypeOK
<1>6. QED
  BY <1>1, <1>2, <1>3, <1>4, <1>5 DEF TypeOK

\* Acking counts one message of the slot's verdict and touches no other count.
LEMMA AckCounts ==
  ASSUME Sound, NEW s \in Slots, Ack(s)
  PROVE  /\ acked' \in [Verdicts -> [Jobs -> Nat]]
         /\ acked'[verdict[s]][job[s]] = acked[verdict[s]][job[s]] + 1
         /\ \A v \in Verdicts, k \in Jobs :
              (v # verdict[s] \/ k # job[s]) => acked'[v][k] = acked[v][k]
<1>1. verdict[s] \in Verdicts
  BY DEF Ack, Sound, HandlerOK
<1>2. job[s] \in Jobs
  BY BusySlotHoldsJob DEF Ack, Sound
<1> DEFINE more == [acked[verdict[s]] EXCEPT ![job[s]] = @ + 1]
<1>3. more \in [Jobs -> Nat]
  BY <1>1, <1>2 DEF Sound, TypeOK
<1>4. acked' = [acked EXCEPT ![verdict[s]] = more]
  BY DEF Ack
<1>5. QED
  BY <1>1, <1>2, <1>3, <1>4 DEF Sound, TypeOK

LEMMA InitTypeOK == Init => TypeOK
  BY DispatchAssumption DEF Init, TypeOK, HandlerSteps, Verdicts

LEMMA StepTypeOK == Sound /\ [Next]_vars => TypeOK'
<1> SUFFICES ASSUME TypeOK, HandlerOK, [Next]_vars PROVE TypeOK'
  BY DEF Sound
<1> USE DispatchAssumption
<1>1. ASSUME NEW t \in Tests, Submit(t) PROVE TypeOK'
  BY <1>1, PublishCounts, FirstIsJob DEF Submit, TypeOK, slotVars, QueueNames
<1>2. ASSUME NEW s \in Slots, Deliver(s) PROVE TypeOK'
  <2>1. /\ queue' \in [QueueNames -> [Jobs -> Nat]]
        /\ job' \in [Slots -> Jobs \cup {NoJob}]
        /\ job'[s] # NoJob
        /\ \A r \in Slots : r # s => job'[r] = job[r]
    BY <1>2, DeliverCounts
  <2>2. /\ pc' \in [Slots -> HandlerSteps \cup {"free"}]
        /\ pc'[s] # "free"
        /\ \A r \in Slots : r # s => pc'[r] = pc[r]
    BY <1>2 DEF Deliver, Goto, TypeOK, HandlerSteps
  <2>3. QED
    BY <1>2, <2>1, <2>2 DEF Deliver, TypeOK
<1>3. ASSUME NEW s \in Slots, NEW v \in Verdicts, RunReturns(s, v) PROVE TypeOK'
  <2>1. job[s] \in Jobs
    BY <1>3, BusySlotHoldsJob DEF RunReturns
  <2>2. failed' \in SUBSET Jobs
    BY <1>3, <2>1 DEF RunReturns, TypeOK
  <2>3. pc' \in [Slots -> HandlerSteps \cup {"free"}] /\ pc'[s] # "free"
    BY <1>3 DEF RunReturns, Goto, TypeOK, HandlerSteps
  <2>4. QED
    BY <1>3, <2>1, <2>2, <2>3 DEF RunReturns, Goto, TypeOK
<1>4. ASSUME NEW s \in Slots, RunThrows(s) PROVE TypeOK'
  BY <1>4 DEF RunThrows, Goto, TypeOK, HandlerSteps
<1>5. ASSUME NEW s \in Slots, PublishRetry(s) PROVE TypeOK'
  <2>1. NextAttempt(job[s]) \in Jobs
    BY <1>5, BusySlotHoldsJob, NextAttemptIsJob DEF PublishRetry, HandlerOK
  <2>2. queue' \in [QueueNames -> [Jobs -> Nat]]
    BY <1>5, <2>1, PublishCounts DEF PublishRetry, PublishThenGoto, TypeOK, QueueNames
  <2>3. /\ pc' \in [Slots -> HandlerSteps \cup {"free"}]
        /\ \A r \in Slots : pc'[r] = "free" <=> pc[r] = "free"
    BY <1>5 DEF PublishRetry, PublishThenGoto, Goto, TypeOK, HandlerSteps
  <2>4. QED
    BY <1>5, <2>2, <2>3 DEF PublishRetry, TypeOK
<1>6. ASSUME NEW s \in Slots, PublishResult(s) PROVE TypeOK'
  <2>1. job[s] \in Jobs
    BY <1>6, BusySlotHoldsJob DEF PublishResult
  <2>2. queue' \in [QueueNames -> [Jobs -> Nat]]
    BY <1>6, <2>1, PublishCounts DEF PublishResult, PublishThenGoto, TypeOK, QueueNames
  <2>3. /\ pc' \in [Slots -> HandlerSteps \cup {"free"}]
        /\ \A r \in Slots : pc'[r] = "free" <=> pc[r] = "free"
    BY <1>6 DEF PublishResult, PublishThenGoto, Goto, TypeOK, HandlerSteps
  <2>4. QED
    BY <1>6, <2>2, <2>3 DEF PublishResult, TypeOK
<1>7. ASSUME NEW s \in Slots, Ack(s) PROVE TypeOK'
  BY <1>7, AckCounts DEF Ack, Release, TypeOK, Sound
<1>8. ASSUME NEW s \in Slots, Nack(s) PROVE TypeOK'
  <2>1. job[s] \in Jobs
    BY <1>8, BusySlotHoldsJob DEF Nack
  <2>2. QED
    BY <1>8, <2>1, PublishCounts DEF Nack, Release, TypeOK, QueueNames
<1>9. ASSUME NEW s \in Slots, Requeue(s) PROVE TypeOK'
  <2>1. job[s] \in Jobs /\ s.source \in QueueNames
    BY <1>9, BusySlotHoldsJob, SourceIsQueue DEF Requeue, Consumed, QueueNames
  <2>2. QED
    BY <1>9, <2>1, PublishCounts DEF Requeue, Release, TypeOK
<1>10. ASSUME NEW w \in Workers, Crash(w) PROVE TypeOK'
  BY <1>10 DEF Crash, slotVars, TypeOK
<1>11. ASSUME NEW w \in Workers, StartWorker(w) PROVE TypeOK'
  BY <1>11 DEF StartWorker, slotVars, TypeOK
<1>12. CASE UNCHANGED vars
  BY <1>12 DEF vars, TypeOK
<1>13. QED
  BY <1>1, <1>2, <1>3, <1>4, <1>5, <1>6, <1>7, <1>8, <1>9, <1>10, <1>11, <1>12
  DEF Next, Handle

LEMMA StepHandlerOK == Sound /\ [Next]_vars => HandlerOK'
<1> SUFFICES ASSUME TypeOK, HandlerOK, [Next]_vars PROVE HandlerOK'
  BY DEF Sound
<1>1. ASSUME NEW t \in Tests, Submit(t) PROVE HandlerOK'
  BY <1>1 DEF Submit, slotVars, HandlerOK, RetriesLeft
<1>2. ASSUME NEW s \in Slots, Deliver(s) PROVE HandlerOK'
  <2>1. \A r \in Slots : r # s => job'[r] = job[r]
    BY <1>2, DeliverCounts
  <2>2. QED
    BY <1>2, <2>1 DEF Deliver, Goto, HandlerOK, RetriesLeft, TypeOK
<1>3. ASSUME NEW s \in Slots, NEW v \in Verdicts, RunReturns(s, v) PROVE HandlerOK'
  <2>1. \A r \in Slots : r # s => pc'[r] = pc[r] /\ verdict'[r] = verdict[r]
    BY <1>3 DEF RunReturns, Goto, TypeOK
  <2>2. /\ job' = job /\ failed \subseteq failed' /\ verdict'[s] = v
        /\ pc'[s] = "retry" => v = "FAILED" /\ RetriesLeft(job[s]) /\ job[s] \in failed'
    BY <1>3 DEF RunReturns, Goto, TypeOK
  <2>3. QED
    BY <2>1, <2>2 DEF HandlerOK, RetriesLeft
<1>4. ASSUME NEW s \in Slots, RunThrows(s) PROVE HandlerOK'
  BY <1>4 DEF RunThrows, Goto, TypeOK, HandlerOK, RetriesLeft
<1>5. ASSUME NEW s \in Slots, PublishRetry(s) PROVE HandlerOK'
  BY <1>5 DEF PublishRetry, PublishThenGoto, Goto, TypeOK, HandlerOK, RetriesLeft, Verdicts
<1>6. ASSUME NEW s \in Slots, PublishResult(s) PROVE HandlerOK'
  BY <1>6 DEF PublishResult, PublishThenGoto, Goto, TypeOK, HandlerOK, RetriesLeft
<1>7. ASSUME NEW s \in Slots, Ack(s) \/ Nack(s) \/ Requeue(s) PROVE HandlerOK'
  BY <1>7 DEF Ack, Nack, Requeue, Release, TypeOK, HandlerOK, RetriesLeft
<1>8. ASSUME NEW w \in Workers, Crash(w) \/ StartWorker(w) PROVE HandlerOK'
  BY <1>8 DEF Crash, StartWorker, slotVars, HandlerOK, RetriesLeft
<1>9. CASE UNCHANGED vars
  BY <1>9 DEF vars, HandlerOK, RetriesLeft
<1>10. QED
  BY <1>1, <1>2, <1>3, <1>4, <1>5, <1>6, <1>7, <1>8, <1>9 DEF Next, Handle

\* The state stays within its types: in particular a slot is busy exactly
\* while it holds a job, through every delivery, crash and requeue.
THEOREM TypeCorrect == Spec => []TypeOK
<1>1. Init => Sound
  BY InitTypeOK DEF Init, Sound, HandlerOK
<1>2. Sound /\ [Next]_vars => Sound'
  BY StepTypeOK, StepHandlerOK DEF Sound
<1>3. Sound => TypeOK
  BY DEF Sound
<1>4. QED
  BY <1>1, <1>2, <1>3, PTL DEF Spec

-----------------------------------------------------------------------------
(* The life of a job's messages.  A message never leaves the platform, and *)
(* only the orchestrator and a retry bring a new job into it.              *)

\* A job some message of which has been published has one for ever.
LEMMA ExistsStable ==
  ASSUME Sound, [Next]_vars, NEW j \in Jobs, Exists(j)
  PROVE  Exists(j)'
<1> USE DEF Consumed, QueueNames, Verdicts
<1>0. TypeOK /\ HandlerOK /\ TypeOK'
  BY StepTypeOK DEF Sound
\* A step that publishes k and leaves the slots alone, or at most moves them
\* between busy steps, keeps every message.
<1>a. ASSUME NEW q \in QueueNames, NEW k \in Jobs, Publish(q, k),
             job' = job, acked' = acked,
             \A r \in Slots : pc[r] # "free" => pc'[r] # "free"
      PROVE  Exists(j)'
  <2>1. \A p \in QueueNames : queue'[p][j] >= queue[p][j]
    BY <1>a, <1>0, PublishCounts DEF TypeOK
  <2>2. \A p \in QueueNames : queue[p][j] > 0 => queue'[p][j] > 0
    BY <1>0, <2>1 DEF TypeOK
  <2>3. QED
    BY <1>a, <2>2 DEF Exists, Live, Dead, Acked, Holds
<1>1. ASSUME NEW t \in Tests, Submit(t) PROVE Exists(j)'
  BY <1>1, <1>a, FirstIsJob DEF Submit, slotVars
<1>2. ASSUME NEW s \in Slots, Deliver(s) PROVE Exists(j)'
  <2>1. /\ pc'[s] # "free" /\ acked' = acked /\ pc[s] = "free"
        /\ \A r \in Slots : r # s => pc'[r] = pc[r] /\ job'[r] = job[r]
    BY <1>2, <1>0, DeliverCounts DEF Deliver, Goto, TypeOK
  <2>2. CASE job'[s] = j
    BY <2>1, <2>2 DEF Exists, Live, Holds
  <2>3. CASE job'[s] # j
    <3>1. \A p \in QueueNames : queue'[p][j] = queue[p][j]
      BY <1>2, <1>0, <2>3, DeliverCounts
    <3>2. QED
      BY <2>1, <3>1 DEF Exists, Live, Dead, Acked, Holds
  <2>4. QED
    BY <2>2, <2>3
<1>3. ASSUME NEW s \in Slots, NEW v \in Verdicts, RunReturns(s, v) PROVE Exists(j)'
  BY <1>3, <1>0 DEF RunReturns, Goto, TypeOK, Exists, Live, Dead, Acked, Holds
<1>4. ASSUME NEW s \in Slots, RunThrows(s) PROVE Exists(j)'
  BY <1>4, <1>0 DEF RunThrows, Goto, TypeOK, Exists, Live, Dead, Acked, Holds
<1>5. ASSUME NEW s \in Slots, PublishRetry(s) PROVE Exists(j)'
  <2>1. NextAttempt(job[s]) \in Jobs
    BY <1>5, <1>0, BusySlotHoldsJob, NextAttemptIsJob DEF PublishRetry, HandlerOK
  <2>2. QED
    BY <1>5, <1>0, <2>1, <1>a DEF PublishRetry, PublishThenGoto, Goto, TypeOK
<1>6. ASSUME NEW s \in Slots, PublishResult(s) PROVE Exists(j)'
  <2>1. job[s] \in Jobs
    BY <1>6, <1>0, BusySlotHoldsJob DEF PublishResult
  <2>2. QED
    BY <1>6, <1>0, <2>1, <1>a DEF PublishResult, PublishThenGoto, Goto, TypeOK
<1>7. ASSUME NEW s \in Slots, Ack(s) PROVE Exists(j)'
  <2>1. /\ queue' = queue
        /\ \A r \in Slots : r # s => pc'[r] = pc[r] /\ job'[r] = job[r]
    BY <1>7, <1>0 DEF Ack, Release, TypeOK
  <2>2. verdict[s] \in Verdicts /\ job[s] \in Jobs
    BY <1>7, <1>0, BusySlotHoldsJob DEF Ack, HandlerOK
  <2>3. \A v \in Verdicts : acked[v][j] > 0 => acked'[v][j] > 0
    <3>1. SUFFICES ASSUME NEW v \in Verdicts, acked[v][j] > 0 PROVE acked'[v][j] > 0
      OBVIOUS
    <3>2. CASE v = verdict[s] /\ j = job[s]
      BY <1>7, <3>1, <3>2, <1>0, AckCounts DEF TypeOK, Sound
    <3>3. CASE v # verdict[s] \/ j # job[s]
      BY <1>7, <3>1, <3>3, AckCounts
    <3>4. QED
      BY <3>2, <3>3
  <2>4. CASE job[s] = j
    <3>1. acked[verdict[s]][j] \in Nat
      BY <2>2, <1>0 DEF TypeOK
    <3>2. acked'[verdict[s]][j] > 0
      BY <1>7, <2>2, <2>4, <3>1, AckCounts
    <3>3. QED
      BY <2>2, <3>2 DEF Exists, Acked
  <2>5. CASE job[s] # j
    BY <2>1, <2>3, <2>5 DEF Exists, Live, Dead, Acked, Holds
  <2>6. QED
    BY <2>4, <2>5
\* A slot that publishes its own job and lets go of it moves the message.
<1>b. ASSUME NEW s \in Slots, NEW q \in Consumed \cup {"deadletter"}, pc[s] # "free",
             Publish(q, job[s]), Release(s), acked' = acked
      PROVE  Exists(j)'
  <2>1. job[s] \in Jobs /\ q \in QueueNames
    BY <1>b, <1>0, BusySlotHoldsJob
  <2>2. \A p \in QueueNames : queue'[p][j] >= queue[p][j]
    BY <1>b, <1>0, <2>1, PublishCounts DEF TypeOK
  <2>3. \A p \in QueueNames : queue[p][j] > 0 => queue'[p][j] > 0
    BY <1>0, <2>2 DEF TypeOK
  <2>4. \A r \in Slots : r # s => pc'[r] = pc[r] /\ job'[r] = job[r]
    BY <1>b, <1>0 DEF Release, TypeOK
  <2>5. CASE job[s] = j
    <3>1. queue[q][j] \in Nat /\ queue'[q][j] = queue[q][j] + 1
      BY <1>b, <1>0, <2>1, <2>5, PublishCounts DEF TypeOK
    <3>2. queue'[q][j] > 0
      BY <3>1
    <3>3. QED
      BY <1>b, <3>2 DEF Exists, Live, Dead
  <2>6. CASE job[s] # j
    BY <1>b, <2>3, <2>4, <2>6 DEF Exists, Live, Dead, Acked, Holds
  <2>7. QED
    BY <2>5, <2>6
<1>8. ASSUME NEW s \in Slots, Nack(s) PROVE Exists(j)'
  BY <1>8, <1>b DEF Nack
<1>9. ASSUME NEW s \in Slots, Requeue(s) PROVE Exists(j)'
  BY <1>9, <1>b, SourceIsQueue DEF Requeue
<1>10. ASSUME NEW w \in Workers, Crash(w) \/ StartWorker(w) PROVE Exists(j)'
  BY <1>10 DEF Crash, StartWorker, slotVars, Exists, Live, Dead, Acked, Holds
<1>11. CASE UNCHANGED vars
  BY <1>11 DEF vars, Exists, Live, Dead, Acked, Holds
<1>12. QED
  BY <1>1, <1>2, <1>3, <1>4, <1>5, <1>6, <1>7, <1>8, <1>9, <1>10, <1>11
  DEF Next, Handle

\* A job comes into being as a first attempt or as the retry of a job held.
FirstAttemptOf(t, j) ==
  t \notin submitted /\ submitted' = submitted \cup {t} /\ j = First(t)
RetryOf(s, j) == pc[s] = "retry" /\ PublishRetry(s) /\ j = NextAttempt(job[s])

LEMMA ExistsOrigin ==
  ASSUME Sound, [Next]_vars, NEW j \in Jobs, Exists(j)', ~ Exists(j)
  PROVE  \/ \E t \in Tests : FirstAttemptOf(t, j)
         \/ \E s \in Slots : RetryOf(s, j)
<1> USE DEF Consumed, QueueNames, Verdicts
<1>0. TypeOK /\ HandlerOK /\ TypeOK'
  BY StepTypeOK DEF Sound
<1>q. \A p \in QueueNames : queue[p][j] \in Nat /\ queue'[p][j] \in Nat
  BY <1>0 DEF TypeOK
\* Publishing another job, or to test.results, does not make j exist.
<1>a. ASSUME NEW q \in QueueNames, NEW k \in Jobs, Publish(q, k),
             k # j \/ q = "results",
             acked' = acked,
             \A r \in Slots : pc'[r] # "free" => pc[r] # "free" /\ job'[r] = job[r]
      PROVE  FALSE
  <2>1. \A p \in QueueNames \ {"results"} : queue'[p][j] = queue[p][j]
    BY <1>a, <1>0, PublishCounts DEF TypeOK
  <2>2. QED
    BY <1>a, <2>1 DEF Exists, Live, Dead, Acked, Holds
<1>b. \A s \in Slots : pc[s] # "free" => job[s] \in Jobs /\ job[s] # j
  BY <1>0, BusySlotHoldsJob DEF Exists, Live, Holds
<1>1. ASSUME NEW t \in Tests, Submit(t) PROVE FirstAttemptOf(t, j)
  BY <1>1, <1>0, <1>a, FirstIsJob DEF Submit, slotVars, FirstAttemptOf
<1>2. ASSUME NEW s \in Slots, Deliver(s) PROVE FALSE
  <2>1. /\ acked' = acked
        /\ \A r \in Slots : r # s => pc'[r] = pc[r] /\ job'[r] = job[r]
    BY <1>2, <1>0, DeliverCounts DEF Deliver, Goto, TypeOK
  <2>2. job'[s] # j
    BY <1>2, <1>0, DeliverCounts, SourceIsQueue DEF Exists, Live
  <2>3. \A p \in QueueNames : queue'[p][j] = queue[p][j]
    BY <1>2, <1>0, <2>2, DeliverCounts
  <2>4. QED
    BY <2>1, <2>2, <2>3 DEF Exists, Live, Dead, Acked, Holds
<1>3. ASSUME NEW s \in Slots, NEW v \in Verdicts, RunReturns(s, v) PROVE FALSE
  BY <1>3, <1>0 DEF RunReturns, Goto, TypeOK, Exists, Live, Dead, Acked, Holds
<1>4. ASSUME NEW s \in Slots, RunThrows(s) PROVE FALSE
  BY <1>4, <1>0 DEF RunThrows, Goto, TypeOK, Exists, Live, Dead, Acked, Holds
<1>5. ASSUME NEW s \in Slots, PublishRetry(s) PROVE RetryOf(s, j)
  <2>1. NextAttempt(job[s]) \in Jobs
    BY <1>5, <1>0, BusySlotHoldsJob, NextAttemptIsJob DEF PublishRetry, HandlerOK
  <2>2. \A r \in Slots : pc'[r] # "free" => pc[r] # "free" /\ job'[r] = job[r]
    BY <1>5, <1>0 DEF PublishRetry, PublishThenGoto, Goto, TypeOK
  <2>3. QED
    BY <1>5, <2>1, <2>2, <1>a DEF PublishRetry, PublishThenGoto, RetryOf
<1>6. ASSUME NEW s \in Slots, PublishResult(s) PROVE FALSE
  <2>1. \A r \in Slots : pc'[r] # "free" => pc[r] # "free" /\ job'[r] = job[r]
    BY <1>6, <1>0 DEF PublishResult, PublishThenGoto, Goto, TypeOK
  <2>2. QED
    BY <1>6, <2>1, <1>b, <1>a DEF PublishResult, PublishThenGoto
<1>7. ASSUME NEW s \in Slots, Ack(s) PROVE FALSE
  <2>1. job[s] # j /\ \A v \in Verdicts : acked'[v][j] = acked[v][j]
    BY <1>7, <1>b, AckCounts DEF Ack
  <2>2. queue' = queue /\ \A r \in Slots : pc'[r] # "free" => pc[r] # "free" /\ job'[r] = job[r]
    BY <1>7, <1>0 DEF Ack, Release, TypeOK
  <2>3. QED
    BY <2>1, <2>2 DEF Exists, Live, Dead, Acked, Holds
<1>8. ASSUME NEW s \in Slots, Nack(s) \/ Requeue(s) PROVE FALSE
  <2>1. \A r \in Slots : pc'[r] # "free" => pc[r] # "free" /\ job'[r] = job[r]
    BY <1>8, <1>0 DEF Nack, Requeue, Release, TypeOK
  <2>2. QED
    BY <1>8, <2>1, <1>b, <1>a, SourceIsQueue DEF Nack, Requeue
<1>9. ASSUME NEW w \in Workers, Crash(w) \/ StartWorker(w) PROVE FALSE
  BY <1>9 DEF Crash, StartWorker, slotVars, Exists, Live, Dead, Acked, Holds
<1>10. CASE UNCHANGED vars
  BY <1>10 DEF vars, Exists, Live, Dead, Acked, Holds
<1>11. QED
  BY <1>1, <1>2, <1>3, <1>4, <1>5, <1>6, <1>7, <1>8, <1>9, <1>10 DEF Next, Handle

-----------------------------------------------------------------------------
(* The parts of the inductive invariant.                                   *)

LEMMA FailedGrows ==
  ASSUME Sound, [Next]_vars
  PROVE  /\ failed \subseteq failed' /\ submitted \subseteq submitted'
         /\ \A j \in failed' : j \in failed \/ \E s \in Slots : Holds(s, j)
  BY DEF Next, Handle, vars, Submit, Deliver, RunReturns, RunThrows, PublishRetry,
         PublishResult, Ack, Nack, Requeue, Crash, StartWorker, slotVars, Holds

LEMMA StepRetriesJustified ==
  ASSUME IndInv, [Next]_vars
  PROVE  RetriesJustified'
<1> USE DispatchAssumption
<1>0. Sound /\ RetriesJustified
  BY DEF IndInv
<1>1. failed \subseteq failed' /\ submitted \subseteq submitted'
  BY <1>0, FailedGrows
<1>2. SUFFICES ASSUME NEW j \in Jobs, Exists(j)'
               PROVE  /\ j.test \in submitted'
                      /\ j.attempt <= MaxRetries + 1
                      /\ j.attempt > 1 =>
                           [test |-> j.test, attempt |-> j.attempt - 1] \in failed'
  BY DEF RetriesJustified
<1>3. CASE Exists(j)
  BY <1>0, <1>1, <1>3 DEF RetriesJustified
<1>4. ASSUME NEW t \in Tests, FirstAttemptOf(t, j)
      PROVE  j.test \in submitted' /\ j.attempt = 1
  BY <1>4 DEF FirstAttemptOf, First
<1>5. ASSUME NEW s \in Slots, RetryOf(s, j)
      PROVE  /\ j.test \in submitted
             /\ j.attempt <= MaxRetries + 1
             /\ [test |-> j.test, attempt |-> j.attempt - 1] \in failed
  <2> DEFINE k == job[s]
  <2>1. k \in Jobs /\ RetriesLeft(k) /\ k \in failed /\ Exists(k)
    BY <1>0, <1>5, BusySlotHoldsJob DEF RetryOf, Sound, HandlerOK, Exists, Live, Holds
  <2>2. j.test = k.test /\ j.attempt = k.attempt + 1 /\ k.attempt \in Nat
    BY <1>5, <2>1 DEF RetryOf, NextAttempt, Jobs, Attempts
  <2>3. k = [test |-> j.test, attempt |-> j.attempt - 1]
    BY <2>1, <2>2 DEF Jobs
  <2>4. k.test \in submitted
    BY <1>0, <2>1 DEF RetriesJustified
  <2>5. k.attempt <= MaxRetries
    BY <2>1 DEF RetriesLeft
  <2> HIDE DEF k
  <2>6. j.attempt <= MaxRetries + 1
    BY <2>2, <2>5
  <2>7. QED
    BY <2>1, <2>2, <2>3, <2>4, <2>6
<1>6. QED
  BY <1>0, <1>1, <1>2, <1>3, <1>4, <1>5, ExistsOrigin

LEMMA StepFailedExist ==
  ASSUME IndInv, [Next]_vars
  PROVE  FailedExist'
<1>1. Sound /\ TypeOK /\ FailedExist
  BY DEF IndInv, Sound
<1>2. ASSUME NEW j \in failed' PROVE Exists(j)'
  <2>1. j \in Jobs /\ Exists(j)
    BY <1>1, <1>2, FailedGrows, BusySlotHoldsJob
    DEF FailedExist, TypeOK, Exists, Live, Holds
  <2>2. QED
    BY <1>1, <2>1, ExistsStable
<1>3. QED
  BY <1>2 DEF FailedExist

\* A step changes at most the slot whose handler takes it.
LEMMA SlotSteps ==
  ASSUME Sound, [Next]_vars, NEW s \in Slots
  PROVE  \/ pc'[s] = pc[s] /\ job'[s] = job[s] /\ verdict'[s] = verdict[s]
         \/ Deliver(s) \/ Handle(s) \/ Requeue(s)
<1>0. TypeOK
  BY DEF Sound
<1>1. ASSUME NEW r \in Slots, r # s, Deliver(r)
      PROVE  pc'[s] = pc[s] /\ job'[s] = job[s] /\ verdict'[s] = verdict[s]
  BY <1>0, <1>1, DeliverCounts DEF Deliver, Goto, TypeOK
<1>2. ASSUME NEW r \in Slots, r # s, Handle(r)
      PROVE  pc'[s] = pc[s] /\ job'[s] = job[s] /\ verdict'[s] = verdict[s]
  BY <1>0, <1>2
  DEF Handle, RunReturns, RunThrows, PublishRetry, PublishResult, PublishThenGoto,
      Ack, Nack, Goto, Release, TypeOK
<1>3. ASSUME NEW r \in Slots, r # s, Requeue(r)
      PROVE  pc'[s] = pc[s] /\ job'[s] = job[s] /\ verdict'[s] = verdict[s]
  BY <1>0, <1>3 DEF Requeue, Release, TypeOK
<1>4. CASE \/ \E t \in Tests : Submit(t)
           \/ \E w \in Workers : Crash(w) \/ StartWorker(w)
           \/ UNCHANGED vars
  BY <1>4 DEF Submit, Crash, StartWorker, slotVars, vars
<1>5. QED
  BY <1>1, <1>2, <1>3, <1>4 DEF Next

LEMMA StepFailuresRetried ==
  ASSUME IndInv, [Next]_vars
  PROVE  FailuresRetried'
<1> USE DEF Verdicts
<1>0. Sound /\ TypeOK /\ HandlerOK /\ TypeOK' /\ FailuresRetried
  BY StepTypeOK DEF IndInv, Sound
\* Enough: whatever is newly acked, or newly past the retry step, has a retry.
<1>1. ASSUME NEW j \in Jobs, RetriesLeft(j), acked'["FAILED"][j] > 0
      PROVE  Exists(NextAttempt(j))'
  <2>1. CASE acked["FAILED"][j] > 0
    BY <1>0, <1>1, <2>1, ExistsStable, NextAttemptIsJob DEF FailuresRetried
  <2>2. CASE ~ (acked["FAILED"][j] > 0)
    <3>1. acked' # acked
      BY <1>1, <2>2
    <3>2. PICK s \in Slots : Ack(s)
      BY <3>1 DEF Next, Handle, vars, Submit, Deliver, RunReturns, RunThrows,
         PublishRetry, PublishResult, Nack, Requeue, Crash, StartWorker
    <3>3. verdict[s] = "FAILED" /\ job[s] = j
      BY <1>0, <1>1, <2>2, <3>2, AckCounts
    <3>4. Exists(NextAttempt(j))
      BY <1>0, <1>1, <3>2, <3>3 DEF FailuresRetried, Ack
    <3>5. QED
      BY <1>0, <1>1, <3>4, ExistsStable, NextAttemptIsJob
  <2>3. QED
    BY <2>1, <2>2
<1>2. ASSUME NEW s \in Slots, pc'[s] \in {"result", "ack"},
             verdict'[s] = "FAILED", RetriesLeft(job'[s])
      PROVE  job'[s] = job[s] /\ Exists(NextAttempt(job[s]))'
  <2>1. job'[s] \in Jobs
    BY <1>0, <1>2 DEF TypeOK
  <2>2. CASE pc[s] \in {"result", "ack"} /\ verdict[s] = "FAILED" /\ job'[s] = job[s]
    <3>1. Exists(NextAttempt(job[s])) /\ NextAttempt(job[s]) \in Jobs
      BY <1>0, <1>2, <2>1, <2>2, NextAttemptIsJob DEF FailuresRetried
    <3>2. QED
      BY <1>0, <2>2, <3>1, ExistsStable
  <2>3. CASE PublishRetry(s)
    <3>1. NextAttempt(job[s]) \in Jobs
      BY <1>0, <2>3, BusySlotHoldsJob, NextAttemptIsJob DEF PublishRetry, HandlerOK
    <3>2. /\ queue'["retry"][NextAttempt(job[s])] = queue["retry"][NextAttempt(job[s])] + 1
          /\ job' = job
      BY <1>0, <2>3, <3>1, PublishCounts
      DEF PublishRetry, PublishThenGoto, TypeOK, QueueNames
    <3>3. queue["retry"][NextAttempt(job[s])] \in Nat
      BY <1>0, <3>1 DEF TypeOK, QueueNames
    <3>4. queue'["retry"][NextAttempt(job[s])] > 0
      BY <3>2, <3>3
    <3>5. \E q \in Consumed : queue'[q][NextAttempt(job[s])] > 0
      BY <3>4 DEF Consumed
    <3>6. QED
      BY <3>2, <3>5 DEF Exists, Live, NextAttempt
  <2>4. ASSUME NEW v \in Verdicts, RunReturns(s, v) PROVE FALSE
    BY <1>0, <1>2, <2>4 DEF RunReturns, Goto, TypeOK
  <2>5. CASE PublishResult(s)
    <3>1. pc[s] = "result" /\ verdict' = verdict /\ job' = job
      BY <2>5 DEF PublishResult
    <3>2. QED
      BY <1>2, <2>2, <3>1
  <2>6. ASSUME Deliver(s) \/ RunThrows(s) \/ Ack(s) \/ Nack(s) \/ Requeue(s) PROVE FALSE
    BY <1>0, <1>2, <2>6
    DEF Deliver, RunThrows, Ack, Nack, Requeue, Goto, Release, TypeOK
  <2>7. CASE pc'[s] = pc[s] /\ job'[s] = job[s] /\ verdict'[s] = verdict[s]
    BY <1>2, <2>2, <2>7
  <2>8. QED
    BY <1>0, <2>3, <2>4, <2>5, <2>6, <2>7, SlotSteps DEF Handle
<1>3. \A j \in Jobs :
        acked'["FAILED"][j] > 0 /\ RetriesLeft(j) => Exists(NextAttempt(j))'
  BY <1>1
<1>4. \A s \in Slots :
        pc'[s] \in {"result", "ack"} /\ verdict'[s] = "FAILED" /\ RetriesLeft(job'[s])
          => job'[s] = job[s] /\ Exists(NextAttempt(job[s]))'
  BY <1>2
<1>5. QED
  BY <1>3, <1>4 DEF FailuresRetried, RetriesLeft

LEMMA StepLastAttemptExists ==
  ASSUME IndInv, [Next]_vars
  PROVE  LastAttemptExists'
<1> USE DispatchAssumption
<1> DEFINE Last(t, j) == j.test = t /\ Exists(j)
                         /\ ~ (NextAttempt(j) \in Jobs /\ Exists(NextAttempt(j)))
<1>0. Sound /\ TypeOK /\ TypeOK' /\ RetriesJustified /\ FailedExist /\ LastAttemptExists
  BY StepTypeOK DEF IndInv, Sound
<1>1. SUFFICES ASSUME NEW t \in submitted'
               PROVE  \E j \in Jobs : Last(t, j)'
  BY DEF LastAttemptExists, NextAttempt
<1>2. t \in Tests
  BY <1>0 DEF TypeOK
<1>3. CASE t \in submitted
  <2>1. PICK j \in Jobs : Last(t, j)
    BY <1>0, <1>3 DEF LastAttemptExists
  <2>2. Exists(j)'
    BY <1>0, <2>1, ExistsStable
  <2> DEFINE k == NextAttempt(j)
  <2>3. CASE k \notin Jobs \/ ~ Exists(k)'
    BY <2>1, <2>2, <2>3 DEF NextAttempt
  <2>4. CASE k \in Jobs /\ Exists(k)'
    \* The step issued attempt k; its own successor cannot exist yet.
    <3>1. k.test = t /\ k.attempt = j.attempt + 1 /\ j.attempt \in Nat /\ k.attempt > 1
      BY <2>1 DEF NextAttempt, Jobs, Attempts
    <3> DEFINE l == NextAttempt(k)
    <3>2. l.test = k.test /\ l.attempt = k.attempt + 1
      BY DEF NextAttempt
    <3>3. ASSUME l \in Jobs, Exists(l) PROVE FALSE
      <4>1. [test |-> l.test, attempt |-> l.attempt - 1] \in failed
        BY <1>0, <3>1, <3>2, <3>3 DEF RetriesJustified
      <4>2. k = [test |-> l.test, attempt |-> l.attempt - 1]
        BY <2>4, <3>1, <3>2 DEF Jobs
      <4>3. Exists(k)
        BY <1>0, <4>1, <4>2 DEF FailedExist
      <4>4. QED
        BY <2>1, <2>4, <4>3
    <3>4. ASSUME l \in Jobs, Exists(l)' PROVE FALSE
      <4>1. ASSUME NEW u \in Tests, FirstAttemptOf(u, l) PROVE FALSE
        BY <3>1, <3>2, <4>1 DEF FirstAttemptOf, First
      <4>2. ASSUME NEW s \in Slots, RetryOf(s, l) PROVE FALSE
        <5>1. job[s] \in Jobs /\ Exists(job[s])
          BY <1>0, <4>2, BusySlotHoldsJob DEF RetryOf, Exists, Live, Holds
        <5>2. job[s] = k
          BY <2>4, <4>2, <5>1 DEF RetryOf, NextAttempt, Jobs, Attempts
        <5>3. QED
          BY <2>1, <2>4, <5>1, <5>2
      <4>3. QED
        BY <1>0, <3>3, <3>4, <4>1, <4>2, ExistsOrigin
    <3>5. QED
      BY <2>4, <3>1, <3>4 DEF NextAttempt
  <2>5. QED
    BY <2>3, <2>4
<1>4. CASE t \notin submitted
  \* The step submitted t: its first job exists and no job of it did before.
  <2>1. Submit(t)
    BY <1>1, <1>4 DEF Next, Handle, vars, Submit, Deliver, RunReturns, RunThrows,
       PublishRetry, PublishResult, Ack, Nack, Requeue, Crash, StartWorker
  <2> DEFINE f == First(t)
  <2>2. f \in Jobs /\ f.test = t /\ f.attempt = 1
    BY <1>2, FirstIsJob DEF First
  <2>3. queue'["execution"][f] = queue["execution"][f] + 1
    BY <1>0, <2>1, <2>2, PublishCounts DEF Submit, TypeOK, QueueNames
  <2>4. queue["execution"][f] \in Nat
    BY <1>0, <2>2 DEF TypeOK, QueueNames
  <2>5. Exists(f)'
    BY <2>3, <2>4 DEF Exists, Live, Consumed
  <2> DEFINE g == NextAttempt(f)
  <2>6. g.test = t /\ g.attempt = 2
    BY <2>2 DEF NextAttempt
  <2>7. ASSUME g \in Jobs, Exists(g)' PROVE FALSE
    <3>1. ~ Exists(g)
      BY <1>0, <1>4, <2>6, <2>7 DEF RetriesJustified
    <3>2. ASSUME NEW u \in Tests, FirstAttemptOf(u, g) PROVE FALSE
      BY <2>6, <3>2 DEF FirstAttemptOf, First
    <3>3. ASSUME NEW s \in Slots, RetryOf(s, g) PROVE FALSE
      <4>1. job[s] \in Jobs /\ Exists(job[s])
        BY <1>0, <3>3, BusySlotHoldsJob DEF RetryOf, Exists, Live, Holds
      <4>2. job[s].test = t
        BY <2>6, <3>3 DEF RetryOf, NextAttempt
      <4>3. QED
        BY <1>0, <1>4, <4>1, <4>2 DEF RetriesJustified
    <3>4. QED
      BY <1>0, <2>7, <3>1, <3>2, <3>3, ExistsOrigin
  <2>8. QED
    BY <2>2, <2>5, <2>7 DEF NextAttempt
<1>5. QED
  BY <1>3, <1>4

-----------------------------------------------------------------------------
LEMMA Inductive == Spec => []IndInv
<1>1. Init => IndInv
  <2> SUFFICES ASSUME Init PROVE IndInv
    OBVIOUS
  <2>1. TypeOK
    BY InitTypeOK
  <2>2. \A j \in Jobs : ~ Exists(j)
    BY DEF Init, Exists, Live, Dead, Acked, Holds, Consumed, QueueNames, Verdicts
  <2>3. QED
    BY <2>1, <2>2 DEF Init, IndInv, Sound, HandlerOK, RetriesJustified,
       FailuresRetried, FailedExist, LastAttemptExists, Verdicts
<1>2. IndInv /\ [Next]_vars => IndInv'
  BY StepTypeOK, StepHandlerOK, StepRetriesJustified, StepFailuresRetried,
     StepFailedExist, StepLastAttemptExists DEF IndInv, Sound
<1>3. QED
  BY <1>1, <1>2, PTL DEF Spec

\* A job past the first attempt is queued, held, dead or acked only if the
\* attempt before it was run and returned FAILED, and none goes past attempt
\* MaxRetries + 1: the retry condition of processJob holds up under redelivery.
THEOREM RetriesAreJustified == Spec => []RetriesJustified
  BY Inductive, PTL DEF IndInv

\* A submitted test is queued or held by a worker, or has a final verdict, or
\* has a job in the dead-letter queue, for any number of tests, workers, slots,
\* retries and crashes.  Some last attempt of it exists (LastAttemptExists), and
\* if its message was acked as a failure with retries left there would be a
\* later one (FailuresRetried), because the retry is published before the ack.
THEOREM NoTestIsLost == Spec => []NoTestLost
<1>1. ASSUME IndInv PROVE NoTestLost
  <2>1. SUFFICES ASSUME NEW t \in submitted
                 PROVE  Outstanding(t) \/ Settled(t) \/ Parked(t)
    BY DEF NoTestLost
  <2>2. PICK j \in Jobs :
          /\ j.test = t
          /\ Exists(j)
          /\ ~ (NextAttempt(j) \in Jobs /\ Exists(NextAttempt(j)))
    BY <1>1 DEF IndInv, LastAttemptExists
  <2>3. CASE Live(j)
    BY <2>2, <2>3 DEF Outstanding
  <2>4. CASE Dead(j)
    BY <2>2, <2>4 DEF Parked
  <2>5. CASE Acked(j)
    <3>1. ~ (acked["FAILED"][j] > 0 /\ RetriesLeft(j))
      BY <1>1, <2>2, NextAttemptIsJob DEF IndInv, FailuresRetried
    <3>2. QED
      BY <2>2, <2>5, <3>1 DEF Acked, Settled, Verdicts
  <2>6. QED
    BY <2>2, <2>3, <2>4, <2>5 DEF Exists
<1>2. IndInv => NoTestLost
  BY <1>1
<1>3. QED
  BY <1>2, Inductive, PTL
-----------------------------------------------------------------------------
(* Counting messages: how many there are of a job, and how many results    *)
(* for its acks.  The slots need not be finitely many for that, because    *)
(* those that hold one job are.                                            *)

HeldFinite == \A j \in Jobs : IsFiniteSet(Held(j))

Counted == IndInv /\ HeldFinite

-----------------------------------------------------------------------------
(* The slots that hold a job, before and after a step.                     *)

LEMMA HeldGains ==
  ASSUME NEW j \in Jobs, NEW s \in Slots, IsFiniteSet(Held(j)), ~ Holds(s, j),
         \A r \in Slots : Holds(r, j)' <=> r = s \/ Holds(r, j)
  PROVE  IsFiniteSet(Held(j)') /\ Cardinality(Held(j)') = Cardinality(Held(j)) + 1
<1>1. Held(j)' = Held(j) \cup {s} /\ s \notin Held(j)
  BY DEF Held
<1> QED  BY <1>1, FS_AddElement

LEMMA HeldLoses ==
  ASSUME NEW j \in Jobs, NEW s \in Slots, IsFiniteSet(Held(j)), Holds(s, j),
         \A r \in Slots : Holds(r, j)' <=> r # s /\ Holds(r, j)
  PROVE  IsFiniteSet(Held(j)') /\ Cardinality(Held(j)') = Cardinality(Held(j)) - 1
<1>1. Held(j)' = Held(j) \ {s} /\ s \in Held(j)
  BY DEF Held
<1> QED  BY <1>1, FS_RemoveElement

LEMMA HeldStays ==
  ASSUME NEW j \in Jobs, \A r \in Slots : Holds(r, j)' <=> Holds(r, j)
  PROVE  Held(j)' = Held(j)
  BY DEF Held

\* A slot that lets go of its job is one holder less of that job alone.
LEMMA ReleaseHolds ==
  ASSUME TypeOK, NEW s \in Slots, pc[s] # "free", Release(s), NEW j \in Jobs
  PROVE  IF job[s] = j
           THEN Holds(s, j) /\ \A r \in Slots : Holds(r, j)' <=> r # s /\ Holds(r, j)
           ELSE \A r \in Slots : Holds(r, j)' <=> Holds(r, j)
<1>1. /\ pc'[s] = "free"
      /\ \A r \in Slots : r # s => pc'[r] = pc[r] /\ job'[r] = job[r]
  BY DEF Release, TypeOK
<1> QED  BY <1>1 DEF Holds

LEMMA DeliverHolds ==
  ASSUME TypeOK, NEW s \in Slots, Deliver(s), NEW j \in Jobs
  PROVE  IF job'[s] = j
           THEN ~ Holds(s, j) /\ \A r \in Slots : Holds(r, j)' <=> r = s \/ Holds(r, j)
           ELSE \A r \in Slots : Holds(r, j)' <=> Holds(r, j)
<1>1. /\ pc[s] = "free" /\ pc'[s] = "run"
      /\ \A r \in Slots : r # s => pc'[r] = pc[r] /\ job'[r] = job[r]
  BY DeliverCounts DEF Deliver, Goto, TypeOK
<1> QED  BY <1>1 DEF Holds

LEMMA DeliverTakes ==
  ASSUME TypeOK, NEW s \in Slots, Deliver(s)
  PROVE  queue'[s.source][job'[s]] = queue[s.source][job'[s]] - 1
<1>1. PICK j \in Jobs :
        /\ queue[s.source][j] > 0
        /\ queue' = [queue EXCEPT ![s.source][j] = @ - 1]
        /\ job' = [job EXCEPT ![s] = j]
  BY DEF Deliver
<1>2. s.source \in QueueNames
  BY SourceIsQueue DEF Consumed, QueueNames
<1>3. job'[s] = j
  BY <1>1 DEF TypeOK
<1>4. queue' = [queue EXCEPT ![s.source] = [queue[s.source] EXCEPT ![j] = @ - 1]]
  BY <1>1
<1> QED  BY <1>2, <1>3, <1>4 DEF TypeOK

-----------------------------------------------------------------------------
(* The number of copies of a job.                                          *)

LEMMA CountsAreNumbers ==
  ASSUME TypeOK, HeldFinite, NEW j \in Jobs
  PROVE  /\ \A q \in QueueNames : queue[q][j] \in Nat
         /\ \A v \in Verdicts : acked[v][j] \in Nat
         /\ Cardinality(Held(j)) \in Nat
         /\ Copies(j) \in Nat
<1>1. \A q \in QueueNames : queue[q][j] \in Nat
  BY DEF TypeOK
<1>2. \A v \in Verdicts : acked[v][j] \in Nat
  BY DEF TypeOK
<1>3. Cardinality(Held(j)) \in Nat
  BY FS_CardinalityType DEF HeldFinite
<1>4. Copies(j) \in Nat
  BY <1>1, <1>2, <1>3 DEF Copies, QueueNames, Verdicts
<1> QED  BY <1>1, <1>2, <1>3, <1>4

LEMMA NoCopyOfUnborn ==
  ASSUME TypeOK, HeldFinite, NEW j \in Jobs, ~ Exists(j)
  PROVE  Copies(j) = 0
<1>1. \A q \in {"execution", "retry", "deadletter"} : queue[q][j] = 0
  BY CountsAreNumbers DEF Exists, Live, Dead, Consumed, QueueNames
<1>2. \A v \in Verdicts : acked[v][j] = 0
  BY CountsAreNumbers DEF Exists, Acked
<1>3. Held(j) = {}
  BY DEF Exists, Live, Held
<1>4. Cardinality(Held(j)) = 0
  BY <1>3, FS_EmptySet
<1> QED  BY <1>1, <1>2, <1>4 DEF Copies, Verdicts

\* What a step does to the copies of j: nothing, or one more.
Kept(j) == IsFiniteSet(Held(j)') /\ Copies(j)' = Copies(j)
Gained(j) == IsFiniteSet(Held(j)') /\ Copies(j)' = Copies(j) + 1

\* Publishing, while the slots hold what they held.
LEMMA PublishCopies ==
  ASSUME TypeOK, HeldFinite, NEW q \in QueueNames, NEW k \in Jobs, Publish(q, k),
         acked' = acked, NEW j \in Jobs, \A r \in Slots : Holds(r, j)' <=> Holds(r, j)
  PROVE  IF k = j /\ q # "results" THEN Gained(j) ELSE Kept(j)
<1>1. Held(j)' = Held(j)
  BY HeldStays
<1>2. /\ queue'[q][k] = queue[q][k] + 1
      /\ \A p \in QueueNames : p # q \/ j # k => queue'[p][j] = queue[p][j]
  BY PublishCounts DEF TypeOK
<1>3. IsFiniteSet(Held(j)')
  BY <1>1 DEF HeldFinite
<1>4. Cardinality(Held(j)') = Cardinality(Held(j))
  BY <1>1
<1>5. CASE k = j /\ q # "results"
  BY <1>2, <1>3, <1>4, <1>5, CountsAreNumbers DEF Copies, Gained, QueueNames, Verdicts
<1>6. CASE ~ (k = j /\ q # "results")
  BY <1>2, <1>3, <1>4, <1>6, CountsAreNumbers DEF Copies, Kept, QueueNames, Verdicts
<1> QED  BY <1>5, <1>6

\* A slot that lets go of its job moves the copy.
LEMMA ReleaseCopies ==
  ASSUME TypeOK, HeldFinite, NEW s \in Slots, pc[s] # "free", Release(s),
         NEW q \in {"execution", "retry", "deadletter"}, Publish(q, job[s]),
         acked' = acked, NEW j \in Jobs
  PROVE  Kept(j)
<1>1. job[s] \in Jobs /\ q \in QueueNames
  BY BusySlotHoldsJob DEF QueueNames
<1>2. /\ queue'[q][job[s]] = queue[q][job[s]] + 1
      /\ \A p \in QueueNames : p # q \/ j # job[s] => queue'[p][j] = queue[p][j]
  BY <1>1, PublishCounts DEF TypeOK
<1>3. CASE job[s] = j
  <2>1. IsFiniteSet(Held(j)') /\ Cardinality(Held(j)') = Cardinality(Held(j)) - 1
    BY <1>3, ReleaseHolds, HeldLoses DEF HeldFinite
  <2> QED  BY <1>2, <1>3, <2>1, CountsAreNumbers DEF Copies, Kept, QueueNames, Verdicts
<1>4. CASE job[s] # j
  BY <1>1, <1>4, ReleaseHolds, PublishCopies
<1> QED  BY <1>3, <1>4

\* A delivery moves a copy from a queue to a slot.
LEMMA DeliverCopies ==
  ASSUME TypeOK, HeldFinite, NEW s \in Slots, Deliver(s), NEW j \in Jobs
  PROVE  Kept(j)
<1>1. s.source \in {"execution", "retry"} /\ acked' = acked
  BY SourceIsQueue DEF Consumed, Deliver
<1>2. CASE job'[s] = j
  <2>1. IsFiniteSet(Held(j)') /\ Cardinality(Held(j)') = Cardinality(Held(j)) + 1
    BY <1>2, DeliverHolds, HeldGains DEF HeldFinite
  <2>2. /\ queue'[s.source][j] = queue[s.source][j] - 1
        /\ \A p \in QueueNames : p # s.source => queue'[p][j] = queue[p][j]
    <3>1. queue'[s.source][j] = queue[s.source][j] - 1
      BY <1>2, DeliverTakes
    <3>2. ASSUME NEW p \in QueueNames, p # s.source
          PROVE  queue'[p][j] = queue[p][j]
      BY <3>2, DeliverCounts
    <3> QED  BY <3>1, <3>2
  <2>3. CASE s.source = "execution"
    BY <1>1, <2>1, <2>2, <2>3, CountsAreNumbers DEF Copies, Kept, QueueNames, Verdicts
  <2>4. CASE s.source = "retry"
    BY <1>1, <2>1, <2>2, <2>4, CountsAreNumbers DEF Copies, Kept, QueueNames, Verdicts
  <2> QED  BY <1>1, <2>3, <2>4
<1>3. CASE job'[s] # j
  <2>1. Held(j)' = Held(j)
    BY <1>3, DeliverHolds, HeldStays
  <2>2. \A p \in QueueNames : queue'[p][j] = queue[p][j]
    BY <1>3, DeliverCounts
  <2> QED  BY <1>1, <2>1, <2>2 DEF Copies, Kept, QueueNames, HeldFinite
<1> QED  BY <1>2, <1>3

\* An ack moves the copy to the count of acks.
LEMMA AckCopies ==
  ASSUME Sound, HeldFinite, NEW s \in Slots, Ack(s), NEW j \in Jobs
  PROVE  Kept(j)
<1>1. /\ TypeOK /\ pc[s] # "free" /\ Release(s) /\ queue' = queue
      /\ verdict[s] \in {"PASSED", "FAILED"}
  BY DEF Sound, HandlerOK, Ack, Verdicts
<1>2. CASE job[s] = j
  <2>1. IsFiniteSet(Held(j)') /\ Cardinality(Held(j)') = Cardinality(Held(j)) - 1
    BY <1>1, <1>2, ReleaseHolds, HeldLoses DEF HeldFinite
  <2>2. /\ acked'[verdict[s]][j] = acked[verdict[s]][j] + 1
        /\ \A v \in Verdicts : v # verdict[s] => acked'[v][j] = acked[v][j]
    BY <1>2, AckCounts
  <2> QED  BY <1>1, <2>1, <2>2, CountsAreNumbers DEF Copies, Kept, QueueNames, Verdicts
<1>3. CASE job[s] # j
  <2>1. Held(j)' = Held(j)
    BY <1>1, <1>3, ReleaseHolds, HeldStays
  <2>2. \A v \in Verdicts : acked'[v][j] = acked[v][j]
    BY <1>3, AckCounts
  <2> QED  BY <1>1, <2>1, <2>2 DEF Copies, Kept, Verdicts, HeldFinite
<1> QED  BY <1>2, <1>3

\* A step keeps the copies of a job unless it submits or retries it.
LEMMA CopiesStep ==
  ASSUME Sound, HeldFinite, [Next]_vars, NEW j \in Jobs
  PROVE  \/ Kept(j)
         \/ Gained(j) /\ \E t \in Tests : Submit(t) /\ j = First(t)
         \/ Gained(j) /\ \E s \in Slots : RetryOf(s, j)
<1>0. TypeOK /\ HandlerOK
  BY DEF Sound
<1>1. ASSUME NEW t \in Tests, Submit(t)
      PROVE  IF j = First(t) THEN Gained(j) ELSE Kept(j)
  BY <1>0, <1>1, FirstIsJob, PublishCopies DEF Submit, slotVars, QueueNames, Holds
<1>2. ASSUME NEW s \in Slots, Deliver(s) PROVE Kept(j)
  BY <1>0, <1>2, DeliverCopies
<1>a. ASSUME job' = job, \A r \in Slots : pc'[r] = "free" <=> pc[r] = "free"
      PROVE  \A r \in Slots : Holds(r, j)' <=> Holds(r, j)
  BY <1>a DEF Holds
<1>b. ASSUME queue' = queue, acked' = acked, \A r \in Slots : Holds(r, j)' <=> Holds(r, j)
      PROVE  Kept(j)
  BY <1>b, HeldStays DEF Kept, Copies, HeldFinite
<1>3. ASSUME NEW s \in Slots, (\E v \in Verdicts : RunReturns(s, v)) \/ RunThrows(s)
      PROVE  Kept(j)
  <2>1. \A r \in Slots : pc'[r] = "free" <=> pc[r] = "free"
    BY <1>0, <1>3 DEF RunReturns, RunThrows, Goto, TypeOK
  <2> QED  BY <1>3, <1>a, <1>b, <2>1 DEF RunReturns, RunThrows
<1>4. ASSUME NEW s \in Slots, PublishRetry(s)
      PROVE  IF RetryOf(s, j) THEN Gained(j) ELSE Kept(j)
  <2>1. NextAttempt(job[s]) \in Jobs
    BY <1>4, <1>0, BusySlotHoldsJob, NextAttemptIsJob DEF PublishRetry, HandlerOK
  <2>2. \A r \in Slots : pc'[r] = "free" <=> pc[r] = "free"
    BY <1>0, <1>4 DEF PublishRetry, PublishThenGoto, Goto, TypeOK
  <2>3. Publish("retry", NextAttempt(job[s])) /\ job' = job /\ acked' = acked /\ pc[s] = "retry"
    BY <1>4 DEF PublishRetry, PublishThenGoto
  <2>4. IF NextAttempt(job[s]) = j THEN Gained(j) ELSE Kept(j)
    BY <1>0, <1>a, <2>1, <2>2, <2>3, PublishCopies DEF QueueNames
  <2> QED  BY <1>4, <2>3, <2>4 DEF RetryOf
<1>5. ASSUME NEW s \in Slots, PublishResult(s) PROVE Kept(j)
  <2>1. job[s] \in Jobs
    BY <1>5, <1>0, BusySlotHoldsJob DEF PublishResult
  <2>2. \A r \in Slots : pc'[r] = "free" <=> pc[r] = "free"
    BY <1>0, <1>5 DEF PublishResult, PublishThenGoto, Goto, TypeOK
  <2>3. Publish("results", job[s]) /\ job' = job /\ acked' = acked
    BY <1>5 DEF PublishResult, PublishThenGoto
  <2> QED  BY <1>0, <1>a, <2>1, <2>2, <2>3, PublishCopies DEF QueueNames
<1>6. ASSUME NEW s \in Slots, Ack(s) PROVE Kept(j)
  BY <1>6, AckCopies
<1>7. ASSUME NEW s \in Slots, Nack(s) PROVE Kept(j)
  BY <1>0, <1>7, ReleaseCopies DEF Nack
<1>8. ASSUME NEW s \in Slots, Requeue(s) PROVE Kept(j)
  BY <1>0, <1>8, ReleaseCopies, SourceIsQueue DEF Requeue, Consumed
<1>9. ASSUME NEW w \in Workers, Crash(w) \/ StartWorker(w) PROVE Kept(j)
  BY <1>9, <1>a, <1>b DEF Crash, StartWorker, slotVars
<1>10. CASE UNCHANGED vars
  BY <1>10, <1>a, <1>b DEF vars
<1> QED
  BY <1>1, <1>2, <1>3, <1>4, <1>5, <1>6, <1>7, <1>8, <1>9, <1>10 DEF Next, Handle

LEMMA HeldFiniteStep == Counted /\ [Next]_vars => HeldFinite'
<1>1. ASSUME Counted, [Next]_vars, NEW j \in Jobs PROVE IsFiniteSet(Held(j)')
  BY <1>1, CopiesStep DEF Counted, IndInv, Kept, Gained
<1> QED  BY <1>1 DEF HeldFinite

LEMMA HeldFiniteInit == Init => HeldFinite
<1>1. Init => \A j \in Jobs : Held(j) = {}
  BY DEF Init, Held, Holds
<1> QED  BY <1>1, FS_EmptySet DEF HeldFinite

-----------------------------------------------------------------------------
(* First attempts.                                                         *)

FirstInv == Counted /\ FirstAttemptConserved

\* A first attempt is nobody's retry.
LEMMA FirstIsNoRetry ==
  ASSUME TypeOK, NEW t \in Tests, NEW s \in Slots
  PROVE  ~ RetryOf(s, First(t))
<1> SUFFICES ASSUME RetryOf(s, First(t)) PROVE FALSE
  OBVIOUS
<1>1. job[s] \in Jobs
  BY BusySlotHoldsJob DEF RetryOf
<1>2. job[s].attempt \in Nat /\ job[s].attempt >= 1
  BY <1>1, DispatchAssumption DEF Jobs, Attempts
<1> QED  BY <1>2 DEF RetryOf, First, NextAttempt

LEMMA FirstAttemptStep ==
  ASSUME FirstInv, [Next]_vars
  PROVE  FirstAttemptConserved'
<1>0. Sound /\ TypeOK /\ HeldFinite /\ RetriesJustified
  BY DEF FirstInv, Counted, IndInv, Sound
<1> SUFFICES ASSUME NEW t \in submitted' PROVE Copies(First(t))' = 1
  BY DEF FirstAttemptConserved
<1>1. CASE t \in submitted
  <2>1. First(t) \in Jobs /\ t \in Tests
    BY <1>0, <1>1, FirstIsJob DEF TypeOK
  <2>2. ~ \E u \in Tests : Submit(u) /\ First(t) = First(u)
    BY <1>1 DEF Submit, First
  <2>3. Kept(First(t))
    BY <1>0, <2>1, <2>2, CopiesStep, FirstIsNoRetry
  <2> QED  BY <1>1, <2>3 DEF FirstInv, FirstAttemptConserved, Kept
<1>2. CASE t \notin submitted
  <2>1. Submit(t) /\ t \in Tests
    BY <1>2 DEF Next, Handle, Submit, Deliver, RunReturns, RunThrows, PublishRetry,
       PublishResult, Ack, Nack, Requeue, Crash, StartWorker, vars
  <2>2. First(t) \in Jobs
    BY <2>1, FirstIsJob
  <2>3. ~ Exists(First(t))
    BY <1>0, <1>2, <2>2 DEF RetriesJustified, First
  <2>4. Gained(First(t))
    BY <1>0, <2>1, <2>2, PublishCopies DEF Submit, slotVars, QueueNames, Holds
  <2> QED  BY <1>0, <2>2, <2>3, <2>4, NoCopyOfUnborn DEF Gained
<1> QED  BY <1>1, <1>2

\* The message of a test's first attempt is in one queue, in one slot, or was
\* acked once, for any number of tests, workers, retries and crashes: every
\* handler and every requeue moves the message, none copies or drops it.
THEOREM FirstAttemptsAreConserved == Spec => []FirstAttemptConserved
<1>1. Init => HeldFinite /\ FirstAttemptConserved
  BY HeldFiniteInit DEF Init, FirstAttemptConserved
<1>2. FirstInv /\ [Next]_vars => HeldFinite' /\ FirstAttemptConserved'
  BY HeldFiniteStep, FirstAttemptStep DEF FirstInv
<1> QED  BY <1>1, <1>2, Inductive, PTL DEF Spec, FirstInv, Counted

-----------------------------------------------------------------------------
(* Results.                                                                *)

\* The handlers of j that have their result out and their ack to come.
Acking(j) == {s \in Slots : Holds(s, j) /\ pc[s] = "ack"}

ResultsCovered ==
  \A j \in Jobs :
    /\ IsFiniteSet(Acking(j))
    /\ queue["results"][j] >=
         acked["PASSED"][j] + acked["FAILED"][j] + Cardinality(Acking(j))

LEMMA AckingGains ==
  ASSUME NEW j \in Jobs, NEW s \in Slots, IsFiniteSet(Acking(j)),
         Acking(j)' = Acking(j) \cup {s}, s \notin Acking(j)
  PROVE  IsFiniteSet(Acking(j)') /\ Cardinality(Acking(j)') = Cardinality(Acking(j)) + 1
  BY FS_AddElement

LEMMA AckingLoses ==
  ASSUME NEW j \in Jobs, NEW s \in Slots, IsFiniteSet(Acking(j)),
         Acking(j)' = Acking(j) \ {s}, s \in Acking(j)
  PROVE  IsFiniteSet(Acking(j)') /\ Cardinality(Acking(j)') = Cardinality(Acking(j)) - 1
  BY FS_RemoveElement

LEMMA ResultsStep ==
  ASSUME Sound, ResultsCovered, [Next]_vars
  PROVE  ResultsCovered'
<1>0. TypeOK /\ HandlerOK
  BY DEF Sound
<1> SUFFICES ASSUME NEW j \in Jobs
             PROVE  /\ IsFiniteSet(Acking(j)')
                    /\ queue'["results"][j] >= acked'["PASSED"][j] + acked'["FAILED"][j]
                                                 + Cardinality(Acking(j)')
  BY DEF ResultsCovered
<1> DEFINE Goal == /\ IsFiniteSet(Acking(j)')
                   /\ queue'["results"][j] >= acked'["PASSED"][j] + acked'["FAILED"][j]
                                                + Cardinality(Acking(j)')
           OldResults == queue["results"][j]
           OldAcks == acked["PASSED"][j] + acked["FAILED"][j]
<1>a. /\ IsFiniteSet(Acking(j)) /\ Cardinality(Acking(j)) \in Nat
      /\ OldResults \in Nat /\ acked["PASSED"][j] \in Nat /\ acked["FAILED"][j] \in Nat
      /\ OldResults >= OldAcks + Cardinality(Acking(j))
  BY <1>0, FS_CardinalityType DEF TypeOK, ResultsCovered, QueueNames, Verdicts
\* A step that acks nothing and takes nobody to the ack.
<1>b. ASSUME acked' = acked, queue'["results"][j] \in Nat, queue'["results"][j] >= OldResults,
             Acking(j)' \subseteq Acking(j)
      PROVE  Goal
  <2>1. IsFiniteSet(Acking(j)') /\ Cardinality(Acking(j)') <= Cardinality(Acking(j))
    BY <1>a, <1>b, FS_Subset
  <2>2. Cardinality(Acking(j)') \in Nat
    BY <2>1, FS_CardinalityType
  <2> QED  BY <1>a, <1>b, <2>1, <2>2
\* The slots that a step of s leaves alone.
<1>c. ASSUME NEW s \in Slots, \A r \in Slots : r # s => pc'[r] = pc[r] /\ job'[r] = job[r],
             pc'[s] # "ack"
      PROVE  Acking(j)' \subseteq Acking(j)
  BY <1>c DEF Acking, Holds
<1>1. ASSUME NEW t \in Tests, Submit(t) PROVE Goal
  <2>1. queue'["results"][j] = OldResults
    BY <1>0, <1>1, FirstIsJob, PublishCounts DEF Submit, TypeOK, QueueNames
  <2> QED  BY <1>1, <1>a, <1>b, <2>1 DEF Submit, slotVars, Acking, Holds
<1>2. ASSUME NEW s \in Slots, Deliver(s) PROVE Goal
  <2>1. /\ pc'[s] # "ack" /\ acked' = acked
        /\ \A r \in Slots : r # s => pc'[r] = pc[r] /\ job'[r] = job[r]
    BY <1>2, <1>0, DeliverCounts DEF Deliver, Goto, TypeOK
  <2>2. queue'["results"][j] = OldResults
    BY <1>2, <1>0, DeliverCounts, SourceIsQueue DEF QueueNames, Consumed
  <2> QED  BY <1>a, <1>b, <1>c, <2>1, <2>2
<1>3. ASSUME NEW s \in Slots, (\E v \in Verdicts : RunReturns(s, v)) \/ RunThrows(s)
      PROVE  Goal
  <2>1. /\ pc'[s] # "ack" /\ acked' = acked /\ queue' = queue
        /\ \A r \in Slots : r # s => pc'[r] = pc[r] /\ job'[r] = job[r]
    BY <1>3, <1>0 DEF RunReturns, RunThrows, Goto, TypeOK
  <2> QED  BY <1>a, <1>b, <1>c, <2>1
<1>4. ASSUME NEW s \in Slots, PublishRetry(s) PROVE Goal
  <2>1. NextAttempt(job[s]) \in Jobs
    BY <1>4, <1>0, BusySlotHoldsJob, NextAttemptIsJob DEF PublishRetry, HandlerOK
  <2>2. queue'["results"][j] = OldResults
    BY <1>4, <1>0, <2>1, PublishCounts DEF PublishRetry, PublishThenGoto, TypeOK, QueueNames
  <2>3. /\ pc'[s] # "ack" /\ acked' = acked
        /\ \A r \in Slots : r # s => pc'[r] = pc[r] /\ job'[r] = job[r]
    BY <1>4, <1>0 DEF PublishRetry, PublishThenGoto, Goto, TypeOK
  <2> QED  BY <1>a, <1>b, <1>c, <2>2, <2>3
<1>5. ASSUME NEW s \in Slots, PublishResult(s) PROVE Goal
  <2>1. job[s] \in Jobs
    BY <1>5, <1>0, BusySlotHoldsJob DEF PublishResult
  <2>2. /\ queue'["results"][job[s]] = queue["results"][job[s]] + 1
        /\ job[s] # j => queue'["results"][j] = OldResults
    BY <1>5, <1>0, <2>1, PublishCounts DEF PublishResult, PublishThenGoto, TypeOK, QueueNames
  <2>3. /\ acked' = acked /\ job' = job /\ pc[s] = "result"
        /\ \A r \in Slots : r # s => pc'[r] = pc[r]
        /\ pc'[s] \in {"ack", "nack"}
    BY <1>5, <1>0 DEF PublishResult, PublishThenGoto, Goto, TypeOK
  <2>4. CASE pc'[s] = "ack" /\ job[s] = j
    <3>1. Acking(j)' = Acking(j) \cup {s} /\ s \notin Acking(j)
      BY <2>3, <2>4 DEF Acking, Holds
    <3>2. IsFiniteSet(Acking(j)') /\ Cardinality(Acking(j)') = Cardinality(Acking(j)) + 1
      BY <1>a, <3>1, AckingGains
    <3> QED  BY <1>a, <2>2, <2>3, <2>4, <3>2
  <2>5. CASE ~ (pc'[s] = "ack" /\ job[s] = j)
    <3>1. Acking(j)' \subseteq Acking(j)
      BY <2>3, <2>5 DEF Acking, Holds
    <3>2. queue'["results"][j] >= OldResults /\ queue'["results"][j] \in Nat
      BY <1>a, <2>2
    <3> QED  BY <1>b, <2>3, <3>1, <3>2
  <2> QED  BY <2>4, <2>5
<1>6. ASSUME NEW s \in Slots, Ack(s) PROVE Goal
  <2>1. /\ queue' = queue /\ verdict[s] \in {"PASSED", "FAILED"} /\ pc[s] = "ack"
        /\ pc'[s] = "free" /\ \A r \in Slots : r # s => pc'[r] = pc[r] /\ job'[r] = job[r]
    BY <1>6, <1>0 DEF Ack, Release, TypeOK, HandlerOK, Verdicts
  <2>2. CASE job[s] = j
    <3>1. Acking(j)' = Acking(j) \ {s} /\ s \in Acking(j)
      BY <2>1, <2>2 DEF Acking, Holds
    <3>2. IsFiniteSet(Acking(j)') /\ Cardinality(Acking(j)') = Cardinality(Acking(j)) - 1
      BY <1>a, <3>1, AckingLoses
    <3>3. /\ acked'[verdict[s]][j] = acked[verdict[s]][j] + 1
          /\ \A v \in Verdicts : v # verdict[s] => acked'[v][j] = acked[v][j]
      BY <1>6, <2>2, AckCounts
    <3> QED  BY <1>a, <2>1, <3>2, <3>3 DEF Verdicts
  <2>3. CASE job[s] # j
    <3>1. Acking(j)' = Acking(j)
      BY <2>1, <2>3 DEF Acking, Holds
    <3>2. \A v \in Verdicts : acked'[v][j] = acked[v][j]
      BY <1>6, <2>3, AckCounts
    <3> QED  BY <1>a, <2>1, <3>1, <3>2 DEF Verdicts
  <2> QED  BY <2>2, <2>3
<1>7. ASSUME NEW s \in Slots, Nack(s) \/ Requeue(s) PROVE Goal
  <2>1. /\ pc[s] # "free" /\ Release(s) /\ acked' = acked
        /\ Publish("deadletter", job[s]) \/ Publish(s.source, job[s])
    BY <1>7 DEF Nack, Requeue
  <2>2. job[s] \in Jobs
    BY <1>0, <2>1, BusySlotHoldsJob
  <2>3. queue'["results"][j] = OldResults
    BY <1>0, <2>1, <2>2, PublishCounts, SourceIsQueue DEF TypeOK, QueueNames, Consumed
  <2>4. pc'[s] # "ack" /\ \A r \in Slots : r # s => pc'[r] = pc[r] /\ job'[r] = job[r]
    BY <1>0, <2>1 DEF Release, TypeOK
  <2> QED  BY <1>a, <1>b, <1>c, <2>1, <2>3, <2>4
<1>8. ASSUME (\E w \in Workers : Crash(w) \/ StartWorker(w)) \/ UNCHANGED vars PROVE Goal
  <2>1. queue' = queue /\ acked' = acked /\ pc' = pc /\ job' = job
    BY <1>8 DEF Crash, StartWorker, slotVars, vars
  <2>2. Acking(j)' = Acking(j)
    BY <2>1 DEF Acking, Holds
  <2> QED  BY <1>a, <1>b, <2>1, <2>2
<1> QED
  BY <1>1, <1>2, <1>3, <1>4, <1>5, <1>6, <1>7, <1>8 DEF Next, Handle

\* Every ack is covered by a message on test.results, for any number of workers,
\* redeliveries and crashes: a handler has published its result before it acks.
THEOREM ResultsCoverAcks == Spec => []ResultsAccountForAcks
<1>1. Init => ResultsCovered
  <2> SUFFICES ASSUME Init, NEW j \in Jobs
               PROVE  /\ IsFiniteSet(Acking(j))
                      /\ queue["results"][j] >= acked["PASSED"][j] + acked["FAILED"][j]
                                                  + Cardinality(Acking(j))
    BY DEF ResultsCovered
  <2>1. Acking(j) = {}
    BY DEF Init, Acking, Holds
  <2>2. queue["results"][j] = 0 /\ acked["PASSED"][j] = 0 /\ acked["FAILED"][j] = 0
    BY DEF Init, QueueNames, Verdicts
  <2>3. IsFiniteSet(Acking(j)) /\ Cardinality(Acking(j)) = 0
    BY <2>1, FS_EmptySet
  <2> QED  BY <2>2, <2>3
<1>2. IndInv /\ ResultsCovered /\ [Next]_vars => ResultsCovered'
  BY ResultsStep DEF IndInv
<1>3. ASSUME IndInv, ResultsCovered PROVE ResultsAccountForAcks
  <2> SUFFICES ASSUME NEW j \in Jobs
               PROVE  queue["results"][j] >= acked["PASSED"][j] + acked["FAILED"][j]
    BY DEF ResultsAccountForAcks
  <2>1. Cardinality(Acking(j)) \in Nat
    BY <1>3, FS_CardinalityType DEF ResultsCovered
  <2>2. queue["results"][j] \in Nat /\ acked["PASSED"][j] \in Nat /\ acked["FAILED"][j] \in Nat
    BY <1>3 DEF IndInv, Sound, TypeOK, QueueNames, Verdicts
  <2> QED  BY <1>3, <2>1, <2>2 DEF ResultsCovered
<1>4. IndInv /\ ResultsCovered => ResultsAccountForAcks
  BY <1>3
<1> QED  BY <1>1, <1>2, <1>4, Inductive, PTL DEF Spec

-----------------------------------------------------------------------------
(* Before the first crash.                                                 *)

\* The handler of j may still publish the retry of j.
Pending(j) ==
  \/ \E q \in Consumed : queue[q][j] > 0
  \/ \E s \in Slots : Holds(s, j) /\ pc[s] \in {"run", "retry"}

\* While nothing has crashed there is one copy of a job at most, and no retry
\* of it as long as that copy may still publish one.
Orderly ==
  /\ \A w \in Workers : up[w]
  /\ \A j \in Jobs : Copies(j) <= 1
  /\ \A j \in Jobs : Pending(j) =>
       ~ (NextAttempt(j) \in Jobs /\ Exists(NextAttempt(j)))

OrderlyUntilCrash == crashes = 0 => Orderly

\* A slot that holds the only copy of a job is alone with it.
LEMMA OnlyHolder ==
  ASSUME TypeOK, HeldFinite, NEW j \in Jobs, Copies(j) <= 1,
         NEW s \in Slots, Holds(s, j)
  PROVE  /\ \A q \in Consumed : queue[q][j] = 0
         /\ \A r \in Slots : Holds(r, j) => r = s
<1>1. IsFiniteSet(Held(j)) /\ s \in Held(j)
  BY DEF HeldFinite, Held
<1>2. /\ IsFiniteSet(Held(j) \ {s})
      /\ Cardinality(Held(j) \ {s}) = Cardinality(Held(j)) - 1
  BY <1>1, FS_RemoveElement
<1>3. Cardinality(Held(j) \ {s}) \in Nat
  BY <1>2, FS_CardinalityType
<1>n. /\ queue["execution"][j] \in Nat /\ queue["retry"][j] \in Nat
      /\ queue["deadletter"][j] \in Nat
      /\ acked["PASSED"][j] \in Nat /\ acked["FAILED"][j] \in Nat
      /\ Cardinality(Held(j)) \in Nat
  BY CountsAreNumbers DEF QueueNames, Verdicts
<1>4. /\ queue["execution"][j] = 0 /\ queue["retry"][j] = 0
      /\ Cardinality(Held(j) \ {s}) = 0
  <2>1. Cardinality(Held(j)) >= 1
    BY <1>n, <1>2, <1>3
  <2>2. /\ queue["execution"][j] = 0 /\ queue["retry"][j] = 0
        /\ Cardinality(Held(j)) = 1
    BY <1>n, <2>1 DEF Copies
  <2> QED  BY <1>2, <2>2
<1>5. Held(j) \ {s} = {}
  BY <1>2, <1>4, FS_EmptySet
<1> QED  BY <1>4, <1>5 DEF Held, Consumed

\* Only submitting or retrying a job makes it pending while all workers are up.
LEMMA BecomesPending ==
  ASSUME Sound, [Next]_vars, \A w \in Workers : up[w],
         NEW j \in Jobs, ~ Pending(j), Pending(j)'
  PROVE  /\ failed' = failed
         /\ \/ \E t \in Tests : Submit(t) /\ j = First(t)
            \/ \E s \in Slots : RetryOf(s, j)
<1>0. TypeOK /\ HandlerOK
  BY DEF Sound
\* A step that publishes no copy of j and takes nobody back to its run.
<1>a. ASSUME \A q \in Consumed : queue'[q][j] = queue[q][j],
             \A r \in Slots : Holds(r, j)' /\ pc'[r] \in {"run", "retry"}
                                => Holds(r, j) /\ pc[r] \in {"run", "retry"}
      PROVE  FALSE
  BY <1>a DEF Pending
<1>b. ASSUME NEW s \in Slots, \A r \in Slots : r # s => pc'[r] = pc[r],
             \A r \in Slots : r # s => job'[r] = job[r], pc'[s] \notin {"run", "retry"}
      PROVE  \A r \in Slots : Holds(r, j)' /\ pc'[r] \in {"run", "retry"}
                                => Holds(r, j) /\ pc[r] \in {"run", "retry"}
  BY <1>b DEF Holds
<1>1. ASSUME NEW t \in Tests, Submit(t) PROVE j = First(t) /\ failed' = failed
  <2>1. j # First(t) => \A q \in Consumed : queue'[q][j] = queue[q][j]
    BY <1>1, <1>0, FirstIsJob, PublishCounts DEF Submit, TypeOK, QueueNames, Consumed
  <2> QED  BY <1>1, <1>a, <2>1 DEF Submit, slotVars, Holds
<1>2. ASSUME NEW s \in Slots, Deliver(s) PROVE FALSE
  <2>1. \A r \in Slots : r # s => pc'[r] = pc[r] /\ job'[r] = job[r]
    BY <1>2, <1>0, DeliverCounts DEF Deliver, Goto, TypeOK
  <2>2. job'[s] # j
    BY <1>2, <1>0, DeliverCounts, SourceIsQueue DEF Pending
  <2>3. \A q \in Consumed : queue'[q][j] = queue[q][j]
    BY <1>2, <1>0, <2>2, DeliverCounts DEF Consumed, QueueNames
  <2> QED  BY <1>a, <2>1, <2>2, <2>3 DEF Holds
<1>3. ASSUME NEW s \in Slots, (\E v \in Verdicts : RunReturns(s, v)) \/ RunThrows(s)
      PROVE  FALSE
  <2>1. /\ queue' = queue /\ job' = job /\ pc[s] = "run"
        /\ \A r \in Slots : r # s => pc'[r] = pc[r]
    BY <1>3, <1>0 DEF RunReturns, RunThrows, Goto, TypeOK
  <2> QED  BY <1>a, <2>1 DEF Holds
<1>4. ASSUME NEW s \in Slots, PublishRetry(s) PROVE RetryOf(s, j) /\ failed' = failed
  <2>1. NextAttempt(job[s]) \in Jobs
    BY <1>4, <1>0, BusySlotHoldsJob, NextAttemptIsJob DEF PublishRetry, HandlerOK
  <2>2. /\ Publish("retry", NextAttempt(job[s])) /\ job' = job /\ failed' = failed
        /\ pc[s] = "retry" /\ pc'[s] \in {"result", "nack"}
        /\ \A r \in Slots : r # s => pc'[r] = pc[r]
    BY <1>4, <1>0 DEF PublishRetry, PublishThenGoto, Goto, TypeOK
  <2>3. NextAttempt(job[s]) # j => \A q \in Consumed : queue'[q][j] = queue[q][j]
    BY <1>0, <2>1, <2>2, PublishCounts DEF TypeOK, QueueNames, Consumed
  <2>4. NextAttempt(job[s]) = j
    BY <1>a, <1>b, <2>2, <2>3
  <2> QED  BY <1>4, <2>2, <2>4 DEF RetryOf
<1>5. ASSUME NEW s \in Slots, PublishResult(s) PROVE FALSE
  <2>1. job[s] \in Jobs
    BY <1>5, <1>0, BusySlotHoldsJob DEF PublishResult
  <2>2. \A q \in Consumed : queue'[q][j] = queue[q][j]
    BY <1>5, <1>0, <2>1, PublishCounts
    DEF PublishResult, PublishThenGoto, TypeOK, QueueNames, Consumed
  <2>3. /\ job' = job /\ pc'[s] \in {"ack", "nack"}
        /\ \A r \in Slots : r # s => pc'[r] = pc[r]
    BY <1>5, <1>0 DEF PublishResult, PublishThenGoto, Goto, TypeOK
  <2> QED  BY <1>a, <1>b, <2>2, <2>3
<1>6. ASSUME NEW s \in Slots, Ack(s) PROVE FALSE
  BY <1>6, <1>0, <1>a, <1>b DEF Ack, Release, TypeOK
<1>7. ASSUME NEW s \in Slots, Nack(s) PROVE FALSE
  <2>1. job[s] \in Jobs
    BY <1>7, <1>0, BusySlotHoldsJob DEF Nack
  <2>2. \A q \in Consumed : queue'[q][j] = queue[q][j]
    BY <1>7, <1>0, <2>1, PublishCounts DEF Nack, TypeOK, QueueNames, Consumed
  <2>3. /\ pc'[s] = "free"
        /\ \A r \in Slots : r # s => pc'[r] = pc[r] /\ job'[r] = job[r]
    BY <1>7, <1>0 DEF Nack, Release, TypeOK
  <2> QED  BY <1>a, <1>b, <2>2, <2>3
<1>8. ASSUME NEW s \in Slots, Requeue(s) PROVE FALSE
  BY <1>8, SourceIsQueue DEF Requeue
<1>9. ASSUME (\E w \in Workers : Crash(w) \/ StartWorker(w)) \/ UNCHANGED vars PROVE FALSE
  BY <1>9, <1>a DEF Crash, StartWorker, slotVars, vars, Holds
<1> QED
  BY <1>1, <1>2, <1>3, <1>4, <1>5, <1>6, <1>7, <1>8, <1>9 DEF Next, Handle

\* A job that is submitted or retried before the first crash is new.
LEMMA NewJobIsUnborn ==
  ASSUME IndInv, Orderly, [Next]_vars, NEW j \in Jobs,
         \/ \E t \in Tests : Submit(t) /\ j = First(t)
         \/ \E s \in Slots : RetryOf(s, j)
  PROVE  ~ Exists(j)
<1>1. ASSUME NEW t \in Tests, Submit(t), j = First(t) PROVE ~ Exists(j)
  BY <1>1 DEF Submit, First, IndInv, RetriesJustified
<1>2. ASSUME NEW s \in Slots, RetryOf(s, j) PROVE ~ Exists(j)
  <2>1. job[s] \in Jobs /\ Pending(job[s])
    BY <1>2, BusySlotHoldsJob DEF RetryOf, IndInv, Sound, Pending, Holds
  <2> QED  BY <1>2, <2>1 DEF Orderly, RetryOf
<1> QED  BY <1>1, <1>2

\* Only crashing and starting change which workers are up.
LEMMA UpSteps ==
  ASSUME [Next]_vars
  PROVE  \/ up' = up /\ crashes' = crashes
         \/ \E w \in Workers : Crash(w) \/ StartWorker(w)
  BY DEF Next, Handle, vars, Submit, Deliver, RunReturns, RunThrows, PublishRetry,
     PublishResult, Ack, Nack, Requeue

LEMMA OrderlyStep ==
  ASSUME Counted, Orderly, [Next]_vars, crashes' = crashes
  PROVE  Orderly'
<1>0. /\ IndInv /\ Sound /\ TypeOK /\ HandlerOK /\ HeldFinite
      /\ RetriesJustified /\ FailedExist /\ RetriesJustified' /\ TypeOK'
  BY StepRetriesJustified, StepTypeOK DEF Counted, IndInv, Sound
<1>1. \A w \in Workers : up'[w]
  <2>1. \A w \in Workers : ~ Crash(w) /\ ~ StartWorker(w)
    BY <1>0, DispatchAssumption DEF Crash, StartWorker, Orderly, TypeOK
  <2> QED  BY <2>1, UpSteps DEF Orderly
<1>2. ASSUME NEW j \in Jobs PROVE Copies(j)' <= 1
  <2>1. CASE Kept(j)
    BY <2>1 DEF Kept, Orderly
  <2>2. CASE /\ Gained(j)
             /\ \/ \E t \in Tests : Submit(t) /\ j = First(t)
                \/ \E s \in Slots : RetryOf(s, j)
    <3>1. Copies(j) = 0
      BY <1>0, <2>2, NewJobIsUnborn, NoCopyOfUnborn
    <3> QED  BY <2>2, <3>1 DEF Gained
  <2> QED  BY <1>0, <2>1, <2>2, CopiesStep
<1>3. ASSUME NEW j \in Jobs, Pending(j)', NextAttempt(j) \in Jobs, Exists(NextAttempt(j))'
      PROVE  FALSE
  <2> DEFINE n == NextAttempt(j)
  <2>1. n \in Jobs /\ n # j /\ n.attempt > 1
        /\ [test |-> n.test, attempt |-> n.attempt - 1] = j
    BY <1>3, DispatchAssumption DEF NextAttempt, Jobs, Attempts
  <2>2. j \in failed'
    BY <1>0, <1>3, <2>1 DEF RetriesJustified
  <2>3. CASE ~ Pending(j)
    <3>1. /\ failed' = failed
          /\ \/ \E t \in Tests : Submit(t) /\ j = First(t)
             \/ \E s \in Slots : RetryOf(s, j)
      BY <1>0, <1>3, <2>3, BecomesPending DEF Orderly
    <3>2. ~ Exists(j)
      BY <1>0, <3>1, NewJobIsUnborn
    <3> QED  BY <1>0, <2>2, <3>1, <3>2 DEF FailedExist
  <2>4. CASE Pending(j)
    <3>1. ~ Exists(n)
      BY <2>1, <2>4 DEF Orderly
    <3>2. ~ \E t \in Tests : FirstAttemptOf(t, n)
      BY <2>1 DEF FirstAttemptOf, First
    <3>3. PICK s \in Slots : RetryOf(s, n)
      BY <1>0, <1>3, <2>1, <3>1, <3>2, ExistsOrigin
    <3>4. job[s] = j /\ Holds(s, j)
      <4>1. job[s] \in Jobs
        BY <1>0, <3>3, BusySlotHoldsJob DEF RetryOf
      <4> QED  BY <3>3, <4>1, DispatchAssumption DEF RetryOf, NextAttempt, Jobs, Attempts, Holds
    <3>5. /\ \A q \in Consumed : queue[q][j] = 0
          /\ \A r \in Slots : Holds(r, j) => r = s
      BY <1>0, <3>4, OnlyHolder DEF Orderly
    <3>6. /\ Publish("retry", n) /\ job' = job /\ pc'[s] \in {"result", "nack"}
          /\ \A r \in Slots : r # s => pc'[r] = pc[r]
      BY <1>0, <3>3 DEF RetryOf, PublishRetry, PublishThenGoto, Goto, TypeOK
    <3>7. \A q \in Consumed : queue'[q][j] = queue[q][j]
      <4> HIDE DEF n
      <4>1. queue \in [QueueNames -> [Jobs -> Nat]] /\ "retry" \in QueueNames
        BY <1>0 DEF TypeOK, QueueNames
      <4>2. \A q \in QueueNames : queue'[q][j] = queue[q][j]
        BY <2>1, <3>6, <4>1, PublishCounts
      <4> QED  BY <4>2 DEF QueueNames, Consumed
    <3> QED  BY <1>3, <3>5, <3>6, <3>7 DEF Pending, Holds
  <2> QED  BY <2>3, <2>4
<1> QED  BY <1>1, <1>2, <1>3 DEF Orderly

\* Until a worker crashes there is at most one message of each attempt, for any
\* number of tests, workers and retries, whichever publishes are refused: only
\* the handler that holds a job retries it, once, and no retry of it exists then.
THEOREM OnceUntilCrash == Spec => []ExactlyOnceUntilCrash
<1>1. Init => HeldFinite /\ OrderlyUntilCrash
  <2> SUFFICES ASSUME Init PROVE HeldFinite /\ Orderly
    BY DEF OrderlyUntilCrash
  <2>1. TypeOK /\ HeldFinite
    BY InitTypeOK, HeldFiniteInit
  <2>2. \A j \in Jobs : ~ Exists(j) /\ ~ Pending(j)
    BY DEF Init, Exists, Live, Dead, Acked, Holds, Pending, Consumed, QueueNames, Verdicts
  <2>3. \A j \in Jobs : Copies(j) <= 1
    BY <2>1, <2>2, NoCopyOfUnborn
  <2>4. \A w \in Workers : up[w]
    BY DEF Init
  <2> QED  BY <2>1, <2>2, <2>3, <2>4 DEF Orderly
<1>2. Counted /\ OrderlyUntilCrash /\ [Next]_vars => HeldFinite' /\ OrderlyUntilCrash'
  <2> SUFFICES ASSUME Counted, OrderlyUntilCrash, [Next]_vars PROVE OrderlyUntilCrash'
    BY HeldFiniteStep
  <2>1. crashes \in Nat /\ (crashes' = crashes \/ crashes' = crashes + 1)
    BY UpSteps, DispatchAssumption DEF Counted, IndInv, Sound, TypeOK, Crash, StartWorker
  <2>2. crashes' = 0 => crashes = 0 /\ crashes' = crashes
    BY <2>1
  <2> QED  BY <2>2, OrderlyStep DEF OrderlyUntilCrash
<1>3. OrderlyUntilCrash => ExactlyOnceUntilCrash
  BY DEF OrderlyUntilCrash, Orderly, ExactlyOnceUntilCrash
<1> QED  BY <1>1, <1>2, <1>3, Inductive, PTL DEF Spec, Counted
=============================================================================
