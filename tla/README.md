# Verification of the distributed Playwright platform

TLA+ modules, TLC runs and TLAPS proofs about the platform in this repository:
an orchestrator publishes one job per test to RabbitMQ, workers run the tests
with Playwright and report to an execution store, which keeps one row per
attempt in Postgres, archives finished attempts in MinIO and serves a portal.

Paths below are relative to the repository's `src/`; names in `code` without a
path are definitions of the modules or functions of the code.

## 1. The system

| Component | State it keeps | Operations that change state | Talks to |
|---|---|---|---|
| Orchestrator, `apps/orchestrator/src/index.ts` | `runs`, a map in memory: status, totalTests, jobsPublished | `POST /runs` (create, generate, publish one by one), `POST /runs/:id/cancel` | scheduler (call), queue client, broker |
| Scheduler, `apps/scheduler/src/scheduler.ts` and `e2e-catalog.ts` | none (reads spec files) | pure functions: tests, priorities, jobs | orchestrator |
| Queue client, `packages/queue/src/index.ts` | one connection, one channel | connect, setPrefetch, publish, consume, ack, nack, close | RabbitMQ |
| RabbitMQ (external) | queues `test.execution`, `test.retry`, `test.results`, `test.deadletter`; unacknowledged messages per consumer | deliver, requeue, dead-letter | workers |
| Worker, `apps/worker/src/index.ts` | a handler per unacknowledged job, a live log buffer per handler | `processJob`, the log timer, `startWorker`, signal handlers | queue client, execution store (HTTP), MinIO |
| Execution store, `apps/execution-store/src/index.ts` | none of its own besides requests in flight | `POST /executions/status`, `POST /executions/complete`, start-up import; the GETs read | Postgres, MinIO |
| Database, `packages/database/src/index.ts` | `execution_store_records`, key execution id (four more tables are created and never used) | save (an upsert of all columns), read, count, list | Postgres |
| Storage, `packages/storage/src/index.ts` | objects in MinIO: `execution.json`, `screenshot.png` per attempt | put, get, list | MinIO |
| Portal, `apps/execution-store/public/app.js` | the rows it holds, the address, the filter, what the view shows, cached keys of what was rendered | `refresh` each second, clicks, address and filter changes, pause, the end of `renderDetail` after its await | execution store |
| Common, config | run ids from the clock; environment | - | all |

How they interact. The queue is the only thing between orchestrator and
workers; the orchestrator learns nothing back, since `test.results` and
`test.deadletter` have no consumer in the repository. A worker reports to the
store by HTTP pushes that never fail for their caller. The store's handlers
share the row of an attempt with each other and hold no lock.

What is hard about it, and the properties that make each part correct:

* Retry, result and ack of a job are three calls, any of which can be refused,
  and the worker can die between them. Correct means: no test disappears
  (`NoTestLost`), no attempt appears that no failure justifies
  (`RetriesJustified`), messages are neither lost nor doubled where the code
  does not mean to (`FirstAttemptConserved`, `ExactlyOnceUntilCrash`), results
  cover acks (`ResultsAccountForAcks`), and every test comes to an end
  (`EveryTestConcludes`).
* A run is answered 202 while its jobs are still in a buffer of the process.
  Correct means: nothing but a lost connection takes a test of an accepted run
  away (`AcceptedTestAccounted`), and every other one ends
  (`AcceptedTestConcludes`).
* A store handler reads a row, awaits, and overwrites the whole row; on a
  completion it awaits a put and overwrites it again. Correct means: pointers
  lead somewhere (`PointerValid`), what is archived is complete
  (`ArchiveSelfContained`), and a save that is not outdated takes nothing away
  (`FreshSaveLosesNothing`).
* The import at start-up is all or nothing in intent, in fact row by row and
  without what it cannot read. Correct means: it serves all else (`ArchiveServed`).
* Log flushes are not awaited; pushes can be lost, or only their answers, so that
  a handler goes on beside the store; redelivered jobs report the same attempt
  again. Correct means: the archive is complete when the job is acked, or the
  completion is on its way there (`AckedIsArchived`), a row left without a verdict has a cause
  (`StuckHasCause`), and a record names only screenshots that exist
  (`ScreenshotExists`).
* Run records live in memory, run ids come from the millisecond clock, and
  concurrent requests replace each other's channel. Correct means: a record and
  the jobs written for it agree (`RecordMatchesJobs`), no job is published twice
  (`NoJobTwice`), an accepted run is known (`AcceptedIsKnown`), a cancelled one
  stays cancelled (`CancelIsFinal`), and every request is answered
  (`EveryPostAnswered`).
* The portal polls without waiting for answers, writes a detail view when the
  archive has answered, whatever is selected by then, and skips a render whose
  key is unchanged, though a list shows more than its key holds. Correct means: a
  skipped render is as good as a written one, except for the name and the file of
  a row that two spec files share (`SkippedRenderIsCurrent`), late answers mislead detail views only
  (`OnlyDetailsAreLate`), and the page comes to show what the store has
  (`ViewSettles`).
* A test is known by an id made of the path of its spec file. Correct means:
  tests keep apart whose paths have different words (`DistinctWordsKeepRows`), as
  long as the run's folder is not above `tests/e2e`, which the ids leave out.
* Which dummy tests are long and which attempts fail is arithmetic on the number
  of a test. Correct means: the documented mix (`MixMet`), and retries that do
  not repeat the failure they are for (`RetriesRecover`).

## 2. The modules

| Module | What it is |
|---|---|
| `Dispatch` | orchestrator's publishing, broker, queue client and the broker side of `processJob` |
| `TestLifecycle` | what the platform promises for a test, without queues or workers |
| `DispatchLifecycle` | the refinement mapping from `Dispatch` to `TestLifecycle` |
| `DispatchProofs` | theorems about `Dispatch`: types, retries, no test lost, and those that count messages |
| `DispatchRefinement` | the theorem that `Dispatch` implements `TestLifecycle` |
| `Orchestrator` | `POST /runs`, cancel, `GET /health`, the queue client they share, the run records |
| `RunLifecycle` | what the orchestrator promises for a run, without connections, channels or buffers |
| `OrchestratorLifecycle` | the refinement mapping from `Orchestrator` to `RunLifecycle` |
| `OrchestratorProofs` | theorems about `Orchestrator`, and that it implements `RunLifecycle` |
| `Platform` | runs through `Orchestrator` and `Dispatch`, joined at `test.execution` |
| `PlatformProofs` | theorems about `Platform`: it implements both, and what one side can say of the other |
| `ExecutionStore` | the store's handlers, its table, its objects, its start and its crashes |
| `ExecutionStoreProofs` | theorems about `ExecutionStore` |
| `Reporting` | one attempt: the store side of `processJob`, the log buffer and the network, composed with `ExecutionStore` |
| `ReportingProofs` | theorems about `Reporting` |
| `Portal` | the page: overlapping polls, late archive answers, cached keys, the user |
| `PortalProofs` | theorems about `Portal` |
| `Scheduling` | the dummy tests: durations, and which attempts fail |
| `Catalog` | spec files, the ids made of their paths, and the rows those lead to |
| `Scheduler` | a run of dummy tests (`Scheduling`) or of spec files (`Catalog`) |
| `SchedulerProofs` | theorems about `Scheduling`, `Catalog` and `Scheduler` |
| `MCDispatch`, `MCPlatform`, `MCExecutionStore`, `MCReporting`, `MCPortal` | instances for TLC |

`Dispatch`, `Orchestrator`, `ExecutionStore`, `Reporting`, `Portal`,
`Scheduling` and `Catalog` hold, before some definitions, a variant marked
`Mutant:`. It is not part of the model; it is the plausible bug that shows that
the property named with it in `PROJECT.json` can fail.

### Dispatch

| Code | Model |
|---|---|
| one job of `for (const job of ...) publishJob` in `POST /runs` | `Submit(t)` |
| delivery to a consumer with prefetch left | `Deliver(s)`; a slot `s` is one unit of prefetch of one consumer |
| `runSpecTest` / `runDummyTest` returns, or throws | `RunReturns(s, v)`, `RunThrows(s)` |
| `attempt <= maxRetries` and the publish to `test.retry` | `RetriesLeft`, `PublishRetry(s)` |
| the publish to `test.results`, then `ack` | `PublishResult(s)`, `Ack(s)` |
| `consumeJobs`' catch: `nack` without requeue | `Nack(s)` |
| `sendToQueue` returns false, `publishJson` throws | second disjunct of `PublishThenGoto`: the message is enqueued all the same |
| SIGTERM, SIGINT, a kill, a lost connection | `Crash(w)`, then `Requeue(s)` by the broker, then `StartWorker(w)` |

Choices. Queues are bags: two consumers and requeued deliveries leave no order
that anything could rely on. Frames are buffered by the client and sent in
order, so a crash that drops the unsent ones is to the broker a crash after the
last one sent, which the model has. The broker (external) applies a channel's
prefetch to each consumer, and a worker has two; `Slots` says so. A body that
is not JSON never gets there, since the platform publishes every one. Jobs are
a test and an attempt; `failed`, `acked` and `crashes` are history that the
properties speak of. `Attempts` has one attempt more than the code can reach so
that a retry too many is a state.

### Orchestrator

| Code | Model |
|---|---|
| `POST /runs` up to its first await | `PostRun(p)`: the run id is the clock, the record is not in the map yet |
| `await connect()` | `Connect(r)`, `ConnectFails(r)`; the channel is named by the request that opened it |
| `assertQueues`, one await per queue | `AssertNext(p)` while more answers are to come |
| the last answer, the loop over the jobs and the end of the handler | `Publish(p)` |
| an await or a call on a channel that is closed | `ChannelFails(p)` |
| `POST /runs/:runId/cancel` | `Cancel(i)` |
| `GET /health` | `GetHealth(h)` and `Connect(h)` |
| the socket sends what the buffer holds | `Send(c)` (external) |
| the broker closes a connection; the process dies | `Close(c)`, `Crash` (external) |

Choices. `publishJob` is awaited but awaits nothing that is pending, so the loop
and what follows it are one step, and no `Send` comes between two jobs of it.
`Room` is the number of jobs a channel's write buffer takes until `sendToQueue`
answers false; the job it says so of is in the buffer all the same. The number
of queues asserted is left open (`AssertNext` any number of times), because
what matters is which channel the next call finds. A record that fails is put
in the map by the catch. A run has no test, or more (`Sizes`); a loop over none
meets no refusal, however full the buffer. Requests answered 400 change nothing and are left out,
as are the GETs that only read. `Dispatch` starts where `Send` ends: its
`Submit` is the arrival of one job at the broker.

`RunLifecycle` is what a client may rely on. A request is answered in the step in
which its jobs are written and its record can be looked up; the record counts
what was written, but for the job that a refusal ended with; a job is written
once, and comes to the workers once or is lost with a connection, never both; all
of it unless runs share an id. `OrchestratorLifecycle` maps `Orchestrator` to it:
a request is at work while it connects or asserts, written is every job that is
buffered, queued or lost, and which channel a job went through is hidden.

### Platform

`Orchestrator` (instantiated) and `Dispatch` (extended), with all their actions
unchanged but one that they share: `Arrive(c)` is `Send(c)` of the one and
`Submit` of the other. A test is the job written for it. The queue of
`Orchestrator` is mapped to what has been submitted. There may be any number of
requests, which replace each other's channel and share its buffer as in
`Orchestrator`; left out are requests that come within one millisecond
(`IdIsFree`), whose tests share their names and are checked in `Orchestrator`
alone, and `GET /health`, which does to a channel what another `POST /runs`
does too. `Submit` takes a test once. That this takes nothing away from `Send`
is not by construction: it is `NothingArrivesTwice`.

### ExecutionStore

`Receive` is the validation and the read of the row; `Save` the merge computed
by `upsert` and its save; `PutObject` and `SavePointer` the two awaited calls
of `persistArtifacts`; `ArtifactsFail` its error, which the handler swallows.
Any other request, a crash or a restart may come between any two of them.
`Crash` covers an error of a query as well: it rejects a promise that Express 4
does not handle, which ends the process. `Start`, `Import` and `Listen` are
`start()`; the objects are read before the first is saved, and `Listings` lets any
of them be unreadable (`getJson` swallows the error, and the listing skips the
object). `missed` is history: what the last import did not save, unread or cut.
`LoseTable` is Postgres coming back with an empty volume, the case
the import is written for, and happens only while the store is down.

A row is abstracted to what the merge tells apart: its status, which of the
optional columns are not null, the number of log entries, and the pointer
`logObject`. Columns that hold a plain value of the request (run, test, worker,
times as numbers) are not distinguished. A query is atomic, and one that was
sent by a process that has died does not land after the restart.

### Reporting

One attempt and the invocations of `processJob` that may get it: the pushes
STARTED, RUNNING, the verdict's status and `/executions/complete`, each awaited
(`PushAwaited`, `Ready`), the flushes of the log buffer, which are not (`Flush`),
the upload of the screenshot, and the end of the handler (`Settle`, or `Reject`
to the dead-letter queue). A dummy test logs, which starts the timer of the
flushes, before it launches its browser (`LaunchBrowser`), and may end FAILED
there; the kinds of test also differ in what their run may leave (`RunArtifact`)
and in where they may throw. `pushExecution` goes on after any error, and there are
two: the push never arrived (`LosePush`), or it was sent and its answer was lost
(`LoseAnswer`). In the second case nobody awaits the push any more, but its
request goes on, on its way or in a handler of the store, while the next push
takes another lane. A `Scenario` says which kind
the test is, which invocations there are and what may go wrong; it is chosen at
the start and stays. The store is
`ExecutionStore`, instantiated with the one attempt and with one request per
invocation and lane; its actions are used unchanged, and `troubles` records
what went wrong: a push of the handler or an answer lost, a store crash, a failed put or
upload, a save of an outdated row.

### Portal

| Code | Model |
|---|---|
| the timer, `GET /executions`, its answer, its failure | `Poll(p)`, `AnswerPoll(p)` (external), `FailPoll(p)` |
| `refresh` after its await, `render` included | `Land(p)` |
| `groupedRuns`, `renderRuns` | `RunsPage`, `RenderRuns` |
| `renderTests` and `lastTestsKey` | `TestsPage`, `TestsKey`, `RenderTests` |
| `renderDetail` up to its await, and after it | `RenderDetail`, then `AnswerFetch(f)` (external) and `LandFetch(f)` |
| `lastDetailKey` | `DetailKey`, `WriteDetail` |
| the click handler: a run, a test, a crumb | `ClickRun`, `ClickTest`, `ClickCrumb` |
| `hashchange`, the filter, the pause button | `HashChange`, `ChangeFilter`, `TogglePause` |
| the store saves a row, or archives an attempt | `Save(i)`, `Archive(i)` (external) |

Choices. The store is any store: every save of a row that `Reports` allows may
happen. `stamp` is `updatedAt`, which tells two versions of a row apart;
`worker` stands for the columns worker and duration, which a list shows and its
key holds; `file` stands for test name and spec file, which a list shows and its
key lacks. Both belong to the job and come with every push, so the rows of one id
name one of `FilesOf`, the jobs that have this id: one, or two where two spec
files of a run share it (`Shared`). Two pages agree (`Agrees`) if they are equal
but for the file of shared rows; the properties ask for that, since a list that is
skipped goes on naming the file it named. Setting the address and the event that tells of it are one step:
the event renders the same page again. `hash.run` without `hash.item` is a list,
with it a detail view. A filter is the set of statuses it lets through; the
order of rows, the grouping by folder (`testView`), the subtitle and the
wording are left out. Logs are none or some. In the run one detail view awaits
the archive at a time (`Fetches`), so a poll that would start another one waits;
the proofs are for any number.

### Scheduling

`MakeTest` is one turn of the loop of `createDummyTestCaseSet`,
`EstimatedDuration` its roll, `ShouldFail` the worker's `shouldFail`, and `Fail`
its retry decision for a dummy test. `Seed` is the sum of the character codes of
`TC-000001` and so on: 484 for `TC-000000`, plus the digits, plus 31 per attempt.
`FailBelow` and `FlakyBelow` are how many remainders by 100 and by 1000 lie
below the configured rates. The tests run one after the other, since no verdict
depends on another test.

### Catalog

`AddFile` fills the spec folder, `PostRun` makes a job of each file in it, and
`Report` is a push of a job's first attempt as the store saves it, under the key
that its test id gives. A path is the one from the project's root, since
`testDir` may be any folder of the project. Its `start` is what the strip
`^tests/e2e/?` finds there, in either case, or nothing, and its `rest` is what
follows: a slash and what lies in the folder, more of a longer name such as
`e2e2`, or, where there is no such start, the whole path (`Paths`). Of the
characters of the rest four are enough to tell apart what the code tells apart: two
letters that differ in case, a hyphen for all that is neither letter nor digit, and
the slash. `TestId` is `testIdFromSpec`, told by the positions of the rest that it
keeps: the letters and digits, and where a run of other characters begins that lies
between two of them, the place of its hyphen (`Kept`); `Upper` is its last call.
That the strip takes a slash along shows in no id, because a hyphen in its place
would be dropped at the start. `Cut` is what the strip takes of a path's words. It
is the same for all files of `tests/e2e`, the default, of a folder below or beside
it and of every other folder that is not above it; `DistinctWordsKeepRows`
compares files for which it is the same. Titles (`termFromSpec`) and the check that the folder lies inside the
project are left out. `Scheduler` lets a run be one of dummy tests or one of spec
files, as `source` in the body of `POST /runs` says; neither side has a step of
the other.

## 3. The runs

"pass" runs find no error; "violation" runs refute a sentence of the
repository's own documentation.

| Run | Instance | Question |
|---|---|---|
| `dispatch_safety` | 2 tests, 2 workers, 1 retry, 1 crash | safety of dispatch |
| `platform_run` | 2 posts of runs of up to 1 test at 2 values of the clock, buffers of 2, 1 loss or crash of the orchestrator, 1 worker (2 slots), whose tests do not fail when both posts come; 1 retry and 1 worker crash when one comes | tests of accepted runs; nothing twice, nothing uncounted; refinement of `TestLifecycle`; every test ends |
| `store_races` | 2 attempts, 2 requests of every kind of body | races on one row, failing puts, crashes, a lost table, imports that are cut or cannot read an object |
| `reporting_troubles` | a spec test, 2 workers, 1 worker crash; a dummy test, 1 worker, lost pushes and 1 store crash, with 1 worker crash or with lost answers | redelivery and flushes against final pushes; a handler ahead of the store; failures of everything on the way |
| `orchestrator_safety` | 2 posts, 1 probe, runs of up to 3 jobs, buffers of 3, 1 loss or crash | records against jobs, shared channels, cancellation; refinement of `RunLifecycle`; every request is answered |
| `portal_views` | 2 items of one run, one of them shared by two spec files, and a run without rows, 2 polls, 1 fetch, 2 saves, 1 user action, 1 failed request | skipped renders, late answers; the page settles |
| `scheduler_sources` | 10,000 dummy tests, rates of 69% and 54%; or 2 spec files anywhere in the project, paths of up to 3 characters after their start | the mix; two retries recover; which spec files share a row |
| `dispatch_doc_worker_concurrency` (violation) | 2 tests, 1 worker | README.md:147 |
| `orchestrator_doc_large_run` (violation) | 1 post, nothing lost | README.md:3, 113 |
| `reporting_doc_verdict` (violation) | no crash, no loss | README.md:177, status |
| `reporting_doc_logs` (violation) | no crash, no loss | README.md:177, logs |
| `scheduling_doc_failure_rate` (violation) | 1,000 tests, the default rates | README.md:54 |

Why the bounds are enough to be worth something. Messages of different tests
meet only in the prefetch, so two tests suffice to have them compete, and two
workers with two slots each let a redelivered attempt overlap its first
handling. One crash at any point gives every duplicate that redelivery can
cause at first hand; the proofs remove the bound, and the
bound on retries: a chain of attempts with one that is neither first nor last is
the case of `DispatchImplementsLifecycle`. In `Platform` two posts give what the
channel has to do with it: a request that writes to the channel of the other one,
and is refused there because the other's job fills the buffer, or loses its job
with the other's connection. What befalls a test after it has arrived has nothing
to do with that, so `MCPlatform` (`OneTrouble`) lets tests fail and the worker
crash only in behaviours with one request; this stops no fair action, since a
test that is run may pass. That all of it comes together is in the proofs of the
invariants, which have no bound. Two requests of every kind are a race; the proofs
remove that bound too. Two attempts let an import be cut with one saved and one
to come. In `Reporting` two flushes of one handler differ
by nothing the properties see, and one flush in flight per handler, repeated,
already overtakes and is overtaken by every awaited push. Two awaited pushes of a
handler in flight, possible once an answer was lost, are enough for the verdict's
status to race the completion, and for the ack to come before the put; an
invocation that died gets the job again only when its awaited pushes are over
(another one gets it before), and lost answers come in behaviours without a crash
of the worker. The proofs have any number of lanes and any scenario. In
`Orchestrator` two
posts and a probe give a request that finds another one's channel, with or
without a handler of its own behind it; buffers of three let two runs share one
and either of them meet the refusal, at its first job or later; two values of
the clock let the posts have one id or two. In `Portal` two polls overtake each
other, and a fetch is overtaken by both; two saves give a row an older and a
newer version under the same status, or under equal keys the two files of a shared
row; the second run, which has no rows, is an
address with an empty list. In `Scheduling` 10,000 tests are the size the
platform is made for, 69% is the highest failure rate at which two retries always
help (at 70% a test whose digits add up to 23 fails its second and its third
attempt), and 54% lets some first attempts fail as flaky and others not; the
proofs are for any rates up to these and up to 99,999 tests. In `Catalog` ids
collide in pairs, and three characters hold a separator, or two, within words,
before and after them; with and without `tests/e2e` before them they are files
inside that folder, beside it under a longer name, and outside.

Symmetry is used only with invariants and with action properties; the liveness
runs have none. Deadlock checking is off: the platform stops when all tests are
settled and nobody submits more, and the store is passive.

### What the violations show

* A worker with `WORKER_CONCURRENCY=1` runs two tests: one from each queue, both
  being in the middle of their run (`Running`).
  `MAX_CONCURRENT_TESTS`, which README.md:143 calls the global limit, is read
  by no code.
* With nothing lost, a run that fills the channel's write buffer is answered
  500 and recorded as FAILED, while its first jobs are queued and run. The loop
  gives the socket no chance to send, so the size of the buffer (some one or two
  thousand jobs with amqplib's defaults) limits the size of a run.
* `upsert` reads and saves in two calls. A RUNNING flush that read the row
  before the verdict and saves after it turns a finished attempt back to
  RUNNING, for good, without any failure involved.
* A flush that reaches the store after `/executions/complete` replaces the
  complete logs of the row by the few it carries; the portal turns to the
  archived logs only if the row has none. The archive itself stays right
  (`AckedIsArchived`).
* The sum of the characters of `TC-000001` to `TC-099999`, plus 31, lies between
  516 and 560. By 100 that leaves 15 at least, by 1000 it leaves 515 at least,
  so with a failure rate up to 15% and a flaky rate up to 51% no dummy test ever
  fails its first attempt; the defaults are 2% and 1%. `LowRatesNeverFail` is the
  proof of it.

No run refutes these, but the models have them as the code does:

* `a.spec.ts` and `a.spec.js`, or `x/y.spec.ts` and `x-y.spec.ts`, get one test
  id. Table, archive and portal know a test by its id, so the two tests of a run
  share a row and the objects of it. In a folder above `tests/e2e` so do
  `tests/e2e/2/x.spec.ts` and `tests/e2e2/x.spec.ts` (both `TC-2-X`), or
  `tests/e2e/x.spec.ts` and `x.spec.ts`, since the strip of `^tests/e2e/?`
  (`e2e-catalog.ts:39`) looks neither for the end of the name nor for what is left.
  `DistinctWordsKeepRows` says that nothing but suffix, case, separators and that
  strip does it.
* Of two spec files that share a row, a list of tests may go on showing the one that
  reported earlier: its key (`public/app.js:275`) holds neither test name nor file.
  `SkippedRenderIsCurrent` says that this is all a skipped list can be wrong about.
* A failed dummy test has its screenshot taken and then forgotten, since the catch
  of `runDummyTest` (`apps/worker/src/index.ts:190`) returns no path; a passed
  one keeps it.
* A `testCount` that is no number makes a run of no tests: `Math.max(1, NaN)` is
  NaN, and only a run of spec files is refused for being empty. It is answered
  202 and stays RUNNING with nothing to run. `Sizes` has it, and what is said of
  runs holds of this one too.
* When the answer of `/executions/complete` is lost or late, the job is acked all
  the same, maybe before the store has put the record; if the store dies then,
  the archive lacks an attempt that nobody will report again
  (`AckedIsArchived` has both as exceptions).
* A run answered 202 loses the tests that were still in the buffer of the process
  when the connection was lost or the process died, and nothing tells
  (`AcceptedTestAccounted` names the exception).

## 4. Fairness

`Dispatch!Fairness` is weak fairness of `Deliver`, `Handle` and `Requeue` for
each slot and of `StartWorker` for each worker. The broker delivers to a
consumer with credit and requeues what a closed channel held; every await of
`processJob` ends, since page calls and the child process have timeouts and
pushes settle; a dead worker is restarted by its Deployment (with
docker-compose, which sets no restart policy, this has to be done by hand).
Nothing is assumed of `Submit` or `Crash`, and no strong fairness is needed: a
slot that is ready to take a job stays ready. The number of crashes is bounded,
without which a crash in every attempt would be a fair behaviour.

`Orchestrator!Fairness` is weak fairness of `HandleConnect` for each request and
of `HandlePost` for each post: a connect settles, the broker answers on an open
channel, and calls on a closed one fail. Nothing is assumed of `Send`, `Tick`,
`Cancel` or the failures.

`PlatformFairness` is `Dispatch!Fairness`, and weak fairness of `Arrive`: a socket
that is open sends what it holds. The orchestrator need not go on: what is
claimed begins with its answer.

`Portal!Fairness` is weak fairness of some `Poll` while there is room for one,
and of `AnswerPoll`, `Land`, `AnswerFetch` and `LandFetch` for each request:
`setInterval` keeps firing, and a request that was sent settles, as do the
continuations that wait for it. Nothing is assumed of the user or the store.
That at most one detail fetch is in flight in the run delays a poll's landing at
most until that fetch has landed.

## 5. The proofs

All of it for every value of the constants that satisfies the assumption of its
module: `DispatchAssumption` (retries, concurrency and the crash bound are
naturals; the marker of a free slot is no job), `StoreAssumption` (the log bound
is a natural; the marker of a missing row is no row; bodies are messages),
`ReportingAssumption` (the scenarios are scenarios; lanes are numbers, and those of
awaited pushes are no flush lanes; the marker of a missing row is no row),
`OrchestratorAssumption` (the bounds are naturals, the bound of a run and the room
of a buffer positive; posts and
probes are different requests; the marker of no record is neither),
`CatalogAssumption` (the bounds are naturals; the marker of a missing row is no
spec file), `PlatformAssumption` (a test is a job of the orchestrator; its bounds
are as there), `PortalAssumption` (each item has a run and its files; what the store saves are rows; the
filters are sets of statuses, the one that lets everything through among them;
the bounds are naturals; the marker of nothing is neither a name, a row nor a
key) or `SchedulingAssumption` (up to 99,999 tests, since ids have six digits of
which the model sums six; rates between 0 and 1). Sets of tests, workers,
requests, attempts, items and polls may be infinite.

`DispatchProofs`:

* `TypeCorrect`: `TypeOK`. Not inductive alone: a handler at its retry step
  must hold a job that has retries left, or its retry is out of range
  (`HandlerOK`; together `Sound`).
* `RetriesAreJustified`: `RetriesJustified`. A job's existence (queued, held,
  dead-lettered or acked) is stable (`ExistsStable`), and a new job exists only
  by `Submit` or `PublishRetry` (`ExistsOrigin`), where the handler's job has
  just failed.
* `NoTestIsLost`: `NoTestLost`. The invariant `IndInv` adds: a handler at its
  result or ack step with a FAILED verdict and retries left has its retry in
  existence, and so has every acked failure (`FailuresRetried`); jobs that
  failed exist (`FailedExist`); and each submitted test has a last attempt that
  exists (`LastAttemptExists`). That last attempt is live, parked or acked; if
  it was acked with a failure and retries left, there would be a later one.

and, from `IndInv` and from what a step does to `Copies`
(`CopiesStep`: it keeps the copies of a job, or adds one by `Submit` or
`PublishRetry`). The slots need not be finitely many; those that hold one job
are, which is part of the induction (`HeldFinite`).

* `FirstAttemptsAreConserved`: `FirstAttemptConserved`. A test not yet submitted
  has no message, and no retry is a first attempt.
* `ResultsCoverAcks`: `ResultsAccountForAcks`. The invariant counts the handlers
  between result and ack too (`ResultsCovered`).
* `OnceUntilCrash`: `ExactlyOnceUntilCrash`. As long as nothing has crashed, a
  job that is queued, run or about to be retried has no retry in existence
  (`Orderly`). A handler at its retry step holds the only copy, so once it has
  published no other handler of the job can; and a job that comes to be queued
  is new, so it has not failed, and without its failure `RetriesJustified`
  allows no retry of it.

`DispatchRefinement`:

* `DispatchImplementsLifecycle`: `Dispatch` implements `TestLifecycle` under the
  mapping of `DispatchLifecycle`. `Submit` is the abstract issue, since a test
  not yet submitted has no job (`RetriesJustified`); `PublishRetry` is the
  abstract retry, of which a redelivered attempt may take a second one that
  changes nothing; `Ack` is a report, whose condition is `FailuresRetried`;
  `Nack` parks; everything else changes no mapped variable, a crash and a
  requeue included, because a message that moves still exists.

`OrchestratorProofs`, from the invariant `OrchInv`: `TypeOK`; every record in
the map has the id of the record of a request that is at its end (`Authored`);
a request answered 202 is at its end with all its jobs counted (`Accepted`).

* `TypeCorrect`: `TypeOK`, which has the records stand under their own ids.
* `AcceptedRunsAreKnown`: `AcceptedIsKnown`. The record of an accepted run could
  be overwritten only by a request with the same id, which makes the id shared.
* `CancellationIsFinal`: `CancelIsFinal`, an action property. A handler that
  ends writes the record of its own id; if that one is in the map already,
  another request made it.

and from `JobInv`, which adds that every written job was counted by a handler
that has ended, or refused to it (`JobsHaveAuthor`), that what a handler counted
is written (`CountedIsWritten`) and that each record of the map is that of a
handler, or it cancelled (`RecordsStand`):

* `RecordsMatchJobs`: `RecordMatchesJobs`. Where the id is not shared, the
  handler that wrote a job and the one whose record stands are the same.
* `NoJobIsTwice`: `NoJobTwice`. A loop finds no job of its run written, or the
  run has another author; a send takes the one copy there is (`SendMoves`), and
  a loss only drops (`LossMoves`).
* `OrchestratorImplementsRunLifecycle`: `ImplementsRunLifecycle`. The invariant
  (`LifeInv`) adds to `JobInv` that a job that is lost is in no buffer and not on
  the queue, unless its id is shared (`LostIsGone`); without it a send could
  bring a job that the promise has as lost. Connecting, asserting and `Tick`
  change nothing that a client sees; the end of a request, whichever action has
  it, is `Accept` or `Refuse`, where that no job of the run was written before is
  `JobsHaveAuthor`; `Send` is `Arrive`, `Close` is `Lose`, and `Crash` is
  `Forget`.

`ExecutionStoreProofs`:

* `TypeCorrect`, `PointersLead` and `ArchiveIsSelfContained`: `TypeOK`,
  `PointerValid` and `ArchiveSelfContained`. The invariant `StoreInv` adds what a
  request between save and put holds: the record of a completion, with a
  terminal status and its columns, and that a row read with a pointer had an
  object.
* `ArchiveIsServed`: `ArchiveServed`. The invariant adds that a request past its
  save has a row (`RequestsHaveRows`; requests live only while the store is up,
  and the table is lost only while it is down) and that what is archived has a row,
  is still to be imported or was missed (`ImportComplete`).
* `LossNeedsRace`: `FreshSaveLosesNothing`, an action property, from the same
  invariant and from what a merge keeps (`MergeKeeps`, `PointedKeeps`).

`ReportingProofs`, for every scenario and any number of invocations and flushes,
from three invariants, each of which needs the one before it:

* `TypeCorrect`: `TypeOK`. A store handler between its save and its put must
  hold a whole row (`RowsSaved`; together `Typed`).
* `ScreenshotsExist`: `ScreenshotExists`. While MinIO has no screenshot, no
  handler has uploaded one, and no push on the wire, request, row or archived
  record names one (`Shown`).
* `AckedIsInArchive` and `StuckRowsHaveCause`: `AckedIsArchived` and
  `StuckHasCause`. Every completion carries all logs and a terminal status, a
  store handler that is about to put holds a final row, and the store is down
  only after a crash (`Reported`). A handler at its last step then awaits its
  completion, or has it in the archive, or its answer was lost and a completion is
  still on its way (`ArchiveArrives`); and the row has the completion or one is
  about to be saved (`RowArrives`), unless one of the troubles that the property
  excepts has happened. A push takes a lane that is free, so it puts no completion
  aside.
* `ReportingUsesStore`: the store takes steps of `ExecutionStore` only, since every
  push on the wire is a message it knows (`TypeOK`). `SP` is the instance of
  `ExecutionStoreProofs` for one attempt and all its messages; `Reporting` starts
  with a store that is up, which satisfies the invariant of `SP` too
  (`InitServed`), and so its steps give
* `ReportedArchiveHolds`: `PointerValid`, `ArchiveSelfContained` and
  `ArchiveServed`, and
* `ReportedLossNeedsRace`: `FreshSaveLosesNothing`, of the store that workers
  report to. The last one is why `StuckHasCause` may name a stale save as a cause.

`PortalProofs`, from the invariant `IInv`: `TypeOK`; the view is one of the
pages, and a key that is set is the key of what the view shows, if the view is
of its kind (`ViewOK`); a list of tests is shown only while a run is selected
(`ListHasRun`), without which a click on a test would lead to an item without a
run; and a stamp names one version of a row, wherever the row is held: store,
page, answers, fetches, view (`StampsUnique`).

* `TypeCorrect`: `TypeOK`.
* `SkippedRendersAreCurrent`: `SkippedRenderIsCurrent`, an action property. Equal
  keys have pages that agree: for a list because the key holds all it shows but
  the file, and every row that the store and the page ever have of an item names a
  file of it (`Tables`, in `TypeOK`), of which there is one unless it is shared
  (`TestsKeyTellsPage`); for a detail view they are equal, because of
  `StampsUnique`.
* `LateViewsAreDetails`: `OnlyDetailsAreLate`.

`SchedulerProofs`, of `Scheduling`, with the range of a digit sum and of the
seeds (`DigitSumRange`, `SeedRemainders`):

* `TypeCorrect`: `TypeOK`, for which a first attempt that is pending must not have
  been counted as failed yet (`PendingOK`).
* `RetriesAlwaysRecover`: `RetriesRecover`. Of the seeds of the second and the
  third attempt, which lie 31 apart, one leaves a remainder of 69 or more.
* `LowRatesNeverFail`: with a failure rate up to 15% and a flaky rate up to 51.5%
  no first attempt fails, for any number of tests.
* `MixIsMet`: `MixMet`. `MixMet` compares the counts with shares of the number of
  tests; the invariant (`Mixed`) says what the counts are: 60, 35 and 5 for each
  hundred that is complete, and for the last one how many of its rolls lie below
  the limits (`ShortOnes`, `LongOnes`). The roll repeats after a hundred, so
  a step adds one to the count that its roll names (`NextOfHundred`), and a
  hundred adds up (`HundredCounted`).

and of `Catalog`:

* `DistinctWordsKeepTheirRows`: `DistinctWordsKeepRows`. Two paths with one id
  have the same words after the strip (`IdGivesWords`), and so the same words
  altogether if the strip takes the same from both (`Cut`): equal spellings put the kept positions of
  one in correspondence with those of the other, hyphens with hyphens and so
  letters with letters, in order (`MatchOfRanks`, `MatchOfSubsets`,
  `MatchKeepsPlaces`); and a letter begins a word exactly if what was kept before
  it is no letter, or nothing (`FirstIsKept`). A row that was reported to holds the
  file of a job with the row's id (`RowsAreOfJobs`), and so with the same words.
* `SchedulerHolds`: both, and the invariants of `Scheduling`, of a scheduler that
  has either source.

`PlatformProofs`, from the theorems about both parts. `OP` is the instance of
`OrchestratorProofs` that reads the queue as what has been submitted.

* `PlatformImplementsOrchestrator`, `PlatformImplementsDispatch`: each step of
  `Platform` is a step of the one and of the other, or changes nothing of it.
  The second includes `Dispatch`'s fairness. So everything above holds of the two
  joined; `PlatformImplementsLifecycle`, the property `ImplementsLifecycle`, and
  `PlatformImplementsRunLifecycle`, the promise to the client, are consequences.
* `AcceptedTestsAreAccounted`: `AcceptedTestAccounted`. A run answered 202 counts
  all its tests; what is counted was written (`JobInv`), so it is buffered, lost or
  on the queue; on the queue is submitted, and what is submitted stays
  (`NoTestLost`).
* `NothingComesTwice`: `NothingArrivesTwice`. No two runs share an id
  (`Distinct`, an invariant: only a new request brings an id into the state), and
  then `NoJobTwice` says that a job in a buffer is not on the queue.
* `AllWorkWasCounted`: `WorkWasCounted`. A job exists only for a submitted test,
  a retry only for a job that failed (`RetriesJustified`), and what is submitted
  was written by a request that counts it or was refused at it.

Only model-checked: liveness (`EveryTestConcludes`, `AcceptedTestConcludes`,
`EveryPostAnswered`, `ViewSettles`), which rests on fairness and is out of the
prover's reach, and the five violations.

## 6. Not modelled

* Of the spec catalog, titles and the check of the folder, which have no state.
* The priority order of the jobs: they go to a queue without priorities that
  several consumers read, so nothing that is checked depends on it.
* The portal's layout, wording, sorting and grouping by folder.
* What nothing in the code does: consume `test.results` or `test.deadletter`,
  move a run out of RUNNING or count what it completed (README.md:127), enforce
  `MAX_CONCURRENT_TESTS`. There is no step to model.
* The load scripts, Docker and Kubernetes files: no state of the platform.
* The tests that are run: a run of one is a verdict chosen freely. Timeouts of
  a page or child process are FAILED verdicts.
* Retention, authentication, the unused tables of the database schema.
* Losing the table while requests are in flight, and two store processes.

## 7. Plan

In this order; all of it is done.

1. `Dispatch` and its proofs of safety.
2. `TestLifecycle`, `DispatchLifecycle`: the promise, model-checked.
3. `ExecutionStore` and its proofs.
4. `Reporting`.
5. `Orchestrator` and its first proofs.
6. `DispatchRefinement`: the promise, proved.
7. `Scheduling` and its proofs.
8. `Portal` and its proofs.
9. Conservation in `Dispatch` as theorems. `ArchiveIsServed`.
10. `Reporting`: its four invariants as theorems. `RecordMatchesJobs` and
    `NoJobTwice` as theorems.
11. `Catalog`, and `Scheduler` to run it beside `Scheduling`.
12. `Platform`: runs through orchestrator, queue and workers.
13. `SchedulerProofs`: the mix and the ids as theorems. `PlatformProofs`: the
    composition implements its parts, and its own invariants.
14. `RunLifecycle`, `OrchestratorLifecycle`: the promise to a client, checked and
    proved, of `Orchestrator` and of `Platform`. `Reporting` keeps what
    `ExecutionStore` promises.

What could follow: `Platform` joined with `Reporting`, for what a reader of the
portal may conclude from the record of a run and its rows, which needs a much
coarser abstraction of the store to stay checkable.
