------------------------------ MODULE Dispatch ------------------------------
(***************************************************************************)
(* The queue boundary of the platform: the orchestrator publishes one job  *)
(* per test, RabbitMQ hands jobs to workers, and a worker's processJob     *)
(* runs the test, queues a retry for a failure, reports a result and acks. *)
(*                                                                         *)
(* A queue is a bag: with several consumers and requeued deliveries the    *)
(* broker promises no order that the code relies on.  A slot is one unit   *)
(* of prefetch of one consumer of one worker; each worker has a consumer   *)
(* on test.execution and another on test.retry, on one channel.            *)
(*                                                                         *)
(* Every call on the channel takes effect at the broker when it is made.   *)
(* The client buffers frames and sends them in order, so a crash that      *)
(* drops the unsent ones looks, to the broker, like a crash right after    *)
(* the last frame sent: the crash below may come after any call.  The      *)
(* calls to the execution store return nothing the handler uses and never  *)
(* throw, so they do not appear here (see Reporting).                      *)
(***************************************************************************)
EXTENDS Naturals, FiniteSets

CONSTANTS
  Tests,        \* the tests of one run
  Workers,      \* the worker processes
  MaxRetries,   \* config.maxRetries, copied into every job
  Concurrency,  \* config.workerConcurrency
  MaxCrashes,   \* bound: how often a worker may lose its connection or die
  NoJob         \* what a free slot holds

\* Attempts 1 .. MaxRetries+1 are the ones the code can reach; one more is
\* representable, so that overshooting is a state the properties can refute.
Attempts == 1 .. MaxRetries + 2
Jobs     == [test : Tests, attempt : Attempts]
Verdicts == {"PASSED", "FAILED"}
First(t)       == [test |-> t, attempt |-> 1]
NextAttempt(j) == [test |-> j.test, attempt |-> j.attempt + 1]

QueueNames == {"execution", "retry", "results", "deadletter"}
Consumed   == {"execution", "retry"}

\* setPrefetch never lets a consumer go below one unacknowledged message.
Prefetch == IF Concurrency > 1 THEN Concurrency ELSE 1
Slots    == [worker : Workers, source : Consumed, lane : 1 .. Prefetch]

ASSUME DispatchAssumption ==
  /\ MaxRetries \in Nat
  /\ Concurrency \in Nat
  /\ MaxCrashes \in Nat
  /\ NoJob \notin Jobs

VARIABLES
  submitted,  \* tests whose first job the orchestrator has published
  queue,      \* [QueueNames -> [Jobs -> Nat]]: copies ready in each queue
  up,         \* up[w]: worker w is connected and consuming
  pc,         \* where the handler of each slot stands; "free" when idle
  job,        \* the job the slot's unacknowledged message carries
  verdict,    \* what the slot's run of the test returned
  failed,     \* history: jobs some run of which returned FAILED
  acked,      \* history: [Verdicts -> [Jobs -> Nat]], messages acked
  crashes     \* how many crashes there have been

vars == <<submitted, queue, up, pc, job, verdict, failed, acked, crashes>>
slotVars == <<pc, job, verdict>>

HandlerSteps == {"run", "retry", "result", "ack", "nack"}

TypeOK ==
  /\ submitted \in SUBSET Tests
  /\ queue \in [QueueNames -> [Jobs -> Nat]]
  /\ up \in [Workers -> BOOLEAN]
  /\ pc \in [Slots -> HandlerSteps \cup {"free"}]
  /\ job \in [Slots -> Jobs \cup {NoJob}]
  /\ verdict \in [Slots -> Verdicts \cup {"none"}]
  /\ failed \in SUBSET Jobs
  /\ acked \in [Verdicts -> [Jobs -> Nat]]
  /\ crashes \in 0 .. MaxCrashes
  /\ \A s \in Slots : pc[s] = "free" <=> job[s] = NoJob

Init ==
  /\ submitted = {}
  /\ queue = [q \in QueueNames |-> [j \in Jobs |-> 0]]
  /\ up = [w \in Workers |-> TRUE]
  /\ pc = [s \in Slots |-> "free"]
  /\ job = [s \in Slots |-> NoJob]
  /\ verdict = [s \in Slots |-> "none"]
  /\ failed = {}
  /\ acked = [v \in Verdicts |-> [j \in Jobs |-> 0]]
  /\ crashes = 0

-----------------------------------------------------------------------------
(* What the queue client does to the broker.                               *)

\* publishJob: the message is on the queue whatever sendToQueue returns.
Publish(q, j) == queue' = [queue EXCEPT ![q][j] = @ + 1]

\* Mutant: the handler is done but its job is not let go.
ReleaseKeepsJob(s) ==
  /\ pc' = [pc EXCEPT ![s] = "free"]
  /\ verdict' = [verdict EXCEPT ![s] = "none"]
  /\ UNCHANGED job

\* The slot's message is no longer unacknowledged.
Release(s) ==
  /\ pc' = [pc EXCEPT ![s] = "free"]
  /\ job' = [job EXCEPT ![s] = NoJob]
  /\ verdict' = [verdict EXCEPT ![s] = "none"]

Goto(s, step) == pc' = [pc EXCEPT ![s] = step]

\* Mutant: a publish that was refused is tried again.
PublishAgain(s, q, j, step) ==
  /\ Publish(q, j)
  /\ \/ Goto(s, step)
     \/ Goto(s, pc[s])

\* sendToQueue answers false when the channel's write buffer is full; the
\* client then throws although the message will be sent, and the handler's
\* catch rejects the job.
PublishThenGoto(s, q, j, step) ==
  /\ Publish(q, j)
  /\ \/ Goto(s, step)
     \/ Goto(s, "nack")

-----------------------------------------------------------------------------
\* Mutant: a test can be submitted twice.
SubmitTwice(t) ==
  /\ queue["execution"][First(t)] < 2
  /\ submitted' = submitted \cup {t}
  /\ Publish("execution", First(t))
  /\ UNCHANGED <<up, slotVars, failed, acked, crashes>>

(* The orchestrator's publishing loop, seen from the queue.  A run whose   *)
(* publish throws simply stops submitting.                                 *)
Submit(t) ==
  /\ t \notin submitted
  /\ submitted' = submitted \cup {t}
  /\ Publish("execution", First(t))
  /\ UNCHANGED <<up, slotVars, failed, acked, crashes>>

(* The broker delivers a ready message to a consumer with prefetch left.   *)
Deliver(s) ==
  /\ up[s.worker]
  /\ pc[s] = "free"
  /\ \E j \in Jobs :
       /\ queue[s.source][j] > 0
       /\ queue' = [queue EXCEPT ![s.source][j] = @ - 1]
       /\ job' = [job EXCEPT ![s] = j]
  /\ Goto(s, "run")
  /\ UNCHANGED <<submitted, up, verdict, failed, acked, crashes>>

-----------------------------------------------------------------------------
(* processJob.                                                             *)

\* Mutant: one retry too many.
OneRetryTooMany(j) == j.attempt <= MaxRetries + 1

\* The condition on which a failed job is queued again.
RetriesLeft(j) == j.attempt <= MaxRetries

\* Mutant: the retry branch is skipped.
RunReturnsNoRetry(s, v) ==
  /\ up[s.worker]
  /\ pc[s] = "run"
  /\ verdict' = [verdict EXCEPT ![s] = v]
  /\ failed' = IF v = "FAILED" THEN failed \cup {job[s]} ELSE failed
  /\ Goto(s, "result")
  /\ UNCHANGED <<submitted, queue, up, job, acked, crashes>>

\* runSpecTest or runDummyTest returns a verdict.
RunReturns(s, v) ==
  /\ up[s.worker]
  /\ pc[s] = "run"
  /\ verdict' = [verdict EXCEPT ![s] = v]
  /\ failed' = IF v = "FAILED" THEN failed \cup {job[s]} ELSE failed
  /\ IF v = "FAILED" /\ RetriesLeft(job[s])
       THEN Goto(s, "retry")
       ELSE Goto(s, "result")
  /\ UNCHANGED <<submitted, queue, up, job, acked, crashes>>

\* The run throws instead: mkdir, spawn or the browser's close failed.
RunThrows(s) ==
  /\ up[s.worker]
  /\ pc[s] = "run"
  /\ Goto(s, "nack")
  /\ UNCHANGED <<submitted, queue, up, job, verdict, failed, acked, crashes>>

\* Mutant: a job that is retried has no result.
RetryNoResult(s) ==
  /\ up[s.worker]
  /\ pc[s] = "retry"
  /\ PublishThenGoto(s, "retry", NextAttempt(job[s]), "ack")
  /\ UNCHANGED <<submitted, up, job, verdict, failed, acked, crashes>>

PublishRetry(s) ==
  /\ up[s.worker]
  /\ pc[s] = "retry"
  /\ PublishThenGoto(s, "retry", NextAttempt(job[s]), "result")
  /\ UNCHANGED <<submitted, up, job, verdict, failed, acked, crashes>>

PublishResult(s) ==
  /\ up[s.worker]
  /\ pc[s] = "result"
  /\ PublishThenGoto(s, "results", job[s], "ack")
  /\ UNCHANGED <<submitted, up, job, verdict, failed, acked, crashes>>

Ack(s) ==
  /\ up[s.worker]
  /\ pc[s] = "ack"
  /\ acked' = [acked EXCEPT ![verdict[s]][job[s]] = @ + 1]
  /\ Release(s)
  /\ UNCHANGED <<submitted, queue, up, failed, crashes>>

\* Mutant: the queues are asserted without dead-letter arguments.
NackDrops(s) ==
  /\ up[s.worker]
  /\ pc[s] = "nack"
  /\ Release(s)
  /\ UNCHANGED <<submitted, queue, up, failed, acked, crashes>>

\* Mutant: the rejected message goes back to its queue.
NackRequeues(s) ==
  /\ up[s.worker]
  /\ pc[s] = "nack"
  /\ Publish(s.source, job[s])
  /\ Release(s)
  /\ UNCHANGED <<submitted, up, failed, acked, crashes>>

\* consumeJobs catches what the handler threw and rejects the message without
\* requeue; the queue's dead-letter arguments route it to test.deadletter.
Nack(s) ==
  /\ up[s.worker]
  /\ pc[s] = "nack"
  /\ Publish("deadletter", job[s])
  /\ Release(s)
  /\ UNCHANGED <<submitted, up, failed, acked, crashes>>

-----------------------------------------------------------------------------
(* Failures.  SIGTERM and SIGINT close the channel without draining it, a  *)
(* lost connection makes the next ack or nack throw and ends the process,  *)
(* and a kill ends it at once: to the broker all three close the channel.  *)
Crash(w) ==
  /\ up[w]
  /\ crashes < MaxCrashes
  /\ up' = [up EXCEPT ![w] = FALSE]
  /\ crashes' = crashes + 1
  /\ UNCHANGED <<submitted, queue, slotVars, failed, acked>>

\* The broker puts an unacknowledged message of a closed channel back.
Requeue(s) ==
  /\ ~ up[s.worker]
  /\ pc[s] # "free"
  /\ Publish(s.source, job[s])
  /\ Release(s)
  /\ UNCHANGED <<submitted, up, failed, acked, crashes>>

\* startWorker: connect, assert the queues, set the prefetch, consume both.
StartWorker(w) ==
  /\ ~ up[w]
  /\ \A s \in Slots : s.worker = w => pc[s] = "free"
  /\ up' = [up EXCEPT ![w] = TRUE]
  /\ UNCHANGED <<submitted, queue, slotVars, failed, acked, crashes>>

-----------------------------------------------------------------------------
Handle(s) ==
  \/ \E v \in Verdicts : RunReturns(s, v)
  \/ RunThrows(s)
  \/ PublishRetry(s)
  \/ PublishResult(s)
  \/ Ack(s)
  \/ Nack(s)

Next ==
  \/ \E t \in Tests : Submit(t)
  \/ \E s \in Slots : Deliver(s) \/ Handle(s) \/ Requeue(s)
  \/ \E w \in Workers : Crash(w) \/ StartWorker(w)

Spec == Init /\ [][Next]_vars

(* The broker delivers and requeues, every handler step returns (the page  *)
(* and child process calls carry timeouts), and the deployment restarts a  *)
(* dead worker.  Nothing makes the orchestrator submit or a worker crash.  *)
Fairness ==
  /\ \A s \in Slots : WF_vars(Deliver(s)) /\ WF_vars(Handle(s)) /\ WF_vars(Requeue(s))
  /\ \A w \in Workers : WF_vars(StartWorker(w))

FairSpec == Spec /\ Fairness

-----------------------------------------------------------------------------
(* Where the messages of a test are.                                       *)

Holds(s, j)  == pc[s] # "free" /\ job[s] = j
Held(j)      == {s \in Slots : Holds(s, j)}
Running(w)   == {s \in Slots : s.worker = w /\ pc[s] = "run"}
Acked(j)     == \E v \in Verdicts : acked[v][j] > 0
Dead(j)      == queue["deadletter"][j] > 0

\* Some worker will still run the job.
Live(j) ==
  \/ \E q \in Consumed : queue[q][j] > 0
  \/ \E s \in Slots : Holds(s, j)

\* A message for the job has been published.
Exists(j) == Live(j) \/ Dead(j) \/ Acked(j)

Outstanding(t) == \E j \in Jobs : j.test = t /\ Live(j)

\* The run of the test is over: it passed, it failed its last attempt, or a
\* job of it waits in the dead-letter queue.
Settled(t) ==
  \E j \in Jobs :
    /\ j.test = t
    /\ \/ acked["PASSED"][j] > 0
       \/ acked["FAILED"][j] > 0 /\ ~ RetriesLeft(j)
Parked(t) == \E j \in Jobs : j.test = t /\ Dead(j)

Copies(j) ==
  queue["execution"][j] + queue["retry"][j] + queue["deadletter"][j]
    + Cardinality(Held(j)) + acked["PASSED"][j] + acked["FAILED"][j]

-----------------------------------------------------------------------------
(* Properties.                                                             *)

\* A submitted test is never silently dropped: whatever workers crash and
\* whatever publishes are refused, some job of it is queued or held by a
\* worker, or it ended with a verdict, or a job of it is in the dead-letter
\* queue.  This rests on the order retry - result - ack of processJob.
NoTestLost ==
  \A t \in submitted : Outstanding(t) \/ Settled(t) \/ Parked(t)

\* A retry exists only because the attempt before it was run and failed, and
\* no job goes past attempt MaxRetries + 1, however often jobs are redelivered.
RetriesJustified ==
  \A j \in Jobs : Exists(j) =>
    /\ j.test \in submitted
    /\ j.attempt <= MaxRetries + 1
    /\ j.attempt > 1 => [test |-> j.test, attempt |-> j.attempt - 1] \in failed

\* The message of a first attempt is neither lost nor doubled by crashes and
\* redeliveries: it is in one queue, in one slot, or was acked once.
FirstAttemptConserved ==
  \A t \in submitted : Copies(First(t)) = 1

\* As long as no worker has crashed, no attempt of any test is duplicated, the
\* refused publishes notwithstanding.
ExactlyOnceUntilCrash ==
  crashes = 0 => \A j \in Jobs : Copies(j) <= 1

\* Every ack is covered by a message on test.results, also when the same
\* attempt is processed twice: a consumer of that queue misses no attempt.
ResultsAccountForAcks ==
  \A j \in Jobs :
    queue["results"][j] >= acked["PASSED"][j] + acked["FAILED"][j]

\* Under fair scheduling every submitted test ends: with a final verdict or in
\* the dead-letter queue.
EveryTestConcludes ==
  \A t \in Tests : t \in submitted ~> Settled(t) \/ Parked(t)

-----------------------------------------------------------------------------
(* What the repository's README says of this part, refuted by the run      *)
(* dispatch_doc_worker_concurrency.                                        *)

\* README: "10 workers x 4 concurrency = 40 concurrent test executions", that
\* is, a worker runs at most WORKER_CONCURRENCY tests at a time.  Only the slots
\* whose test is being run count, not those past it on their way to the ack.
WorkerConcurrencyBound ==
  \A w \in Workers : Cardinality(Running(w)) <= Prefetch
=============================================================================
