----------------------------- MODULE Reporting ------------------------------
(***************************************************************************)
(* How one attempt of a test gets into the execution store: the pushes of  *)
(* the worker's processJob and of its live log buffer, composed with the   *)
(* handlers of ExecutionStore.                                             *)
(*                                                                         *)
(* processJob awaits its pushes one after the other (the handler lanes);   *)
(* the timer of the log buffer pushes what has been logged without anybody *)
(* waiting for it (the flush lanes).  A push never throws: when it gets    *)
(* lost, or only its answer does, the error is logged and processJob goes  *)
(* on, in the latter case beside the handler of the store.  The broker is  *)
(* reduced to the one message of the attempt; Dispatch has the retries and *)
(* results that go with it.                                                *)
(***************************************************************************)
EXTENDS Naturals

CONSTANTS
  Attempt,         \* the execution id of the attempt
  Workers,         \* handler invocations that may get the job
  HandlerLanes,    \* bound: awaited pushes of one handler in flight at once;
                   \*   lost answers make it more than one
  FlushLanes,      \* bound: flushes of one handler in flight at once
  Scenarios,       \* the circumstances an attempt may meet, see Scenario
  Absent

Lanes    == HandlerLanes \cup FlushLanes
Requests == Workers \X Lanes

\* A flush carries the first of the attempt's log entries, the final push all.
SomeLogs == 1
AllLogs  == 2

\* The kind of job (for runSpecTest or for runDummyTest), the workers there are,
\* whether the network loses pushes, or answers to them, and two bounds: how often
\* a worker dies with the job in hand, and how often the store dies.
Scenario == [hasSpecFile : BOOLEAN, workers : SUBSET Workers,
             mayLosePush : BOOLEAN, mayLoseAnswer : BOOLEAN,
             maxCrashes : Nat, maxStoreCrashes : Nat]

VARIABLES
  scenario,
  table, objects, step, body, row, mode, todo, missed,  \* see ExecutionStore
  wire,        \* wire[r]: a push under way to the store
  queued,      \* the message of the attempt is ready in its queue
  stage,       \* stage[w]: what the handler of w does next
  awaited,     \* awaited[w]: the lane of the push that w awaits, if any
  verdict,     \* verdict[w]: what its run of the test returned
  artifact,    \* artifact[w]: the screenshot the run took and named, if any
  uploaded,    \* uploaded[w]: the screenshot object exists, processJob knows it
  logsOpen,    \* logsOpen[w]: the log buffer has entries and is not closed
  screenshots, \* the screenshot objects in MinIO
  acked,       \* history: a handling was acked
  crashes, storeCrashes,
  troubles     \* history: what went wrong on the way

Store == INSTANCE ExecutionStore WITH
  Keys <- {Attempt}, MaxLogs <- AllLogs, Bodies <- {}

ASSUME ReportingAssumption ==
  /\ Scenarios \subseteq Scenario
  /\ HandlerLanes \subseteq Nat /\ FlushLanes \subseteq Nat
  /\ HandlerLanes \cap FlushLanes = {}
  /\ Absent \notin Store!Rows

storeVars  == <<table, objects, step, body, row, mode, todo, missed>>
workerVars == <<stage, awaited, verdict, artifact, uploaded, logsOpen>>
histVars   == <<acked, crashes, storeCrashes, troubles>>
vars == <<scenario, storeVars, wire, queued, workerVars, screenshots, histVars>>

Verdicts == {"PASSED", "FAILED"}
Stages == {"idle", "prepare", "started", "launch", "running",
           "upload", "status", "complete", "settle"}
Nothing == Store!NoBody

\* taken: the screenshot file was written; named: the run returned its path.
Artifacts == [taken : BOOLEAN, named : BOOLEAN]
NoArtifact == [taken |-> FALSE, named |-> FALSE]
Troubles == {"lostPush", "lostAnswer", "storeCrash", "archiveFailed",
             "uploadFailed", "staleSave"}

TypeOK ==
  /\ scenario \in Scenarios
  /\ Store!TypeOK
  /\ wire \in [Requests -> Store!Messages \cup {Nothing}]
  /\ queued \in BOOLEAN
  /\ stage \in [Workers -> Stages]
  /\ awaited \in [Workers -> SUBSET HandlerLanes]
  /\ verdict \in [Workers -> Verdicts \cup {"none"}]
  /\ artifact \in [Workers -> Artifacts]
  /\ uploaded \in [Workers -> BOOLEAN]
  /\ logsOpen \in [Workers -> BOOLEAN]
  /\ screenshots \subseteq {Attempt}
  /\ acked \in BOOLEAN
  /\ crashes \in 0 .. scenario.maxCrashes
  /\ storeCrashes \in 0 .. scenario.maxStoreCrashes
  /\ troubles \subseteq Troubles

\* The broker has the job and the store is up.
Init ==
  /\ scenario \in Scenarios
  /\ table = [k \in {Attempt} |-> Absent]
  /\ objects = [k \in {Attempt} |-> Absent]
  /\ step = [r \in Requests |-> "idle"]
  /\ body = [r \in Requests |-> Nothing]
  /\ row = [r \in Requests |-> Absent]
  /\ mode = "up" /\ todo = {} /\ missed = {}
  /\ wire = [r \in Requests |-> Nothing]
  /\ queued = TRUE
  /\ stage = [w \in Workers |-> "idle"]
  /\ awaited = [w \in Workers |-> {}]
  /\ verdict = [w \in Workers |-> "none"]
  /\ artifact = [w \in Workers |-> NoArtifact]
  /\ uploaded = [w \in Workers |-> FALSE]
  /\ logsOpen = [w \in Workers |-> FALSE]
  /\ screenshots = {}
  /\ acked = FALSE
  /\ crashes = 0 /\ storeCrashes = 0
  /\ troubles = {}

-----------------------------------------------------------------------------
(* Pushing.                                                                *)

Busy(r) == wire[r] # Nothing \/ step[r] # "idle"

\* What processJob awaits has come back, in whatever way.
Ready(w, at) == stage[w] = at /\ \A lane \in awaited[w] : ~ Busy(<<w, lane>>)

Goto(w, s) == stage' = [stage EXCEPT ![w] = s]

StatusPush(s, logs) ==
  [endpoint |-> "status", key |-> Attempt, status |-> s, logs |-> logs,
   screenshot |-> FALSE]
CompletePush(s, shot) ==
  [endpoint |-> "complete", key |-> Attempt, status |-> s, logs |-> AllLogs,
   screenshot |-> shot]

Push(w, lane, m) ==
  /\ ~ Busy(<<w, lane>>)
  /\ wire' = [wire EXCEPT ![<<w, lane>>] = m]

\* The handler awaits this push, and no longer one whose answer was lost.  Which
\* free lane it takes makes no difference; to save states it takes the first.
PushAwaited(w, m) ==
  \E lane \in HandlerLanes :
    /\ \A other \in HandlerLanes : other < lane => Busy(<<w, other>>)
    /\ Push(w, lane, m)
    /\ awaited' = [awaited EXCEPT ![w] = {lane}]

\* Mutant: the verdict is pushed as it is.
VerdictAsStatus(v) == v

TerminalStatus(v) == IF v = "FAILED" THEN "FAILED" ELSE "COMPLETED"

-----------------------------------------------------------------------------
(* processJob.                                                             *)

\* A new invocation has a log buffer of its own.  Bound: one that died is reused
\* only when its awaited pushes are over; another gets the job before.
Deliver(w) ==
  /\ queued
  /\ stage[w] = "idle"
  /\ \A lane \in HandlerLanes : ~ Busy(<<w, lane>>)
  /\ queued' = FALSE
  /\ Goto(w, "prepare")
  /\ logsOpen' = [logsOpen EXCEPT ![w] = FALSE]
  /\ UNCHANGED <<storeVars, wire, awaited, verdict, artifact, uploaded, screenshots,
                 histVars>>

\* The invocation is over.
Leave(w) ==
  /\ Goto(w, "idle")
  /\ awaited' = [awaited EXCEPT ![w] = {}]
  /\ verdict' = [verdict EXCEPT ![w] = "none"]
  /\ artifact' = [artifact EXCEPT ![w] = NoArtifact]
  /\ uploaded' = [uploaded EXCEPT ![w] = FALSE]

PushStarted(w) ==
  /\ Ready(w, "prepare")
  /\ PushAwaited(w, StatusPush("STARTED", 0))
  /\ Goto(w, "started")
  /\ UNCHANGED <<storeVars, queued, verdict, artifact, uploaded, logsOpen,
                 screenshots, histVars>>

\* The first log entry of a dummy test, which starts the timer of the buffer,
\* comes before its browser is launched.
LaunchBrowser(w) ==
  /\ Ready(w, "started")
  /\ ~ scenario.hasSpecFile
  /\ logsOpen' = [logsOpen EXCEPT ![w] = TRUE]
  /\ Goto(w, "launch")
  /\ UNCHANGED <<storeVars, wire, queued, awaited, verdict, artifact, uploaded,
                 screenshots, histVars>>

\* A spec test makes its first log entry in the same step.
PushRunning(w) ==
  /\ Ready(w, IF scenario.hasSpecFile THEN "started" ELSE "launch")
  /\ PushAwaited(w, StatusPush("RUNNING", 0))
  /\ Goto(w, "running")
  /\ logsOpen' = [logsOpen EXCEPT ![w] = TRUE]
  /\ UNCHANGED <<storeVars, queued, verdict, artifact, uploaded, screenshots, histVars>>

\* The timer of the buffer fires.  After an exception nothing closes it, and
\* the last timer still does.
Flush(w, lane) ==
  /\ logsOpen[w]
  /\ Push(w, lane, StatusPush("RUNNING", SomeLogs))
  /\ logsOpen' = [logsOpen EXCEPT ![w] = stage[w] # "idle"]
  /\ UNCHANGED <<storeVars, queued, stage, awaited, verdict, artifact, uploaded,
                 screenshots, histVars>>

\* What a run of the test leaves.  runSpecTest names the path whether or not
\* the spec wrote it; runDummyTest takes a screenshot of a failed page too, if
\* it gets that far, but its catch returns without the path.
RunArtifact(v, a) ==
  /\ a \in Artifacts
  /\ a.named = (scenario.hasSpecFile \/ v = "PASSED")
  /\ ~ scenario.hasSpecFile /\ v = "PASSED" => a.taken

\* The run returns and the buffer is closed.  The browser of a dummy test may
\* fail before the RUNNING push; the attempt then FAILED without it.
RunReturns(w, v, a) ==
  /\ \/ Ready(w, "running")
     \/ Ready(w, "launch") /\ v = "FAILED" /\ ~ a.taken
  /\ RunArtifact(v, a)
  /\ verdict' = [verdict EXCEPT ![w] = v]
  /\ artifact' = [artifact EXCEPT ![w] = a]
  /\ logsOpen' = [logsOpen EXCEPT ![w] = FALSE]
  /\ Goto(w, "upload")
  /\ UNCHANGED <<storeVars, wire, queued, awaited, uploaded, screenshots, histVars>>

\* Mutant: the object's name is returned although the upload failed.
UploadUnchecked(w) ==
  /\ Ready(w, "upload")
  /\ IF artifact[w].named
       THEN \/ screenshots' = {Attempt} /\ artifact[w].taken /\ UNCHANGED troubles
            \/ troubles' = troubles \cup {"uploadFailed"} /\ UNCHANGED screenshots
       ELSE UNCHANGED <<screenshots, troubles>>
  /\ uploaded' = [uploaded EXCEPT ![w] = artifact[w].named]
  /\ Goto(w, "status")
  /\ UNCHANGED <<storeVars, wire, queued, awaited, verdict, artifact, logsOpen,
                 acked, crashes, storeCrashes>>

\* uploadScreenshot: swallows its errors, among them that there is no file.
Upload(w) ==
  /\ Ready(w, "upload")
  /\ IF artifact[w].named /\ artifact[w].taken
       THEN \/ /\ screenshots' = {Attempt}
               /\ uploaded' = [uploaded EXCEPT ![w] = TRUE]
               /\ UNCHANGED troubles
            \/ /\ troubles' = troubles \cup {"uploadFailed"}
               /\ UNCHANGED <<screenshots, uploaded>>
       ELSE UNCHANGED <<screenshots, uploaded, troubles>>
  /\ Goto(w, "status")
  /\ UNCHANGED <<storeVars, wire, queued, awaited, verdict, artifact, logsOpen,
                 acked, crashes, storeCrashes>>

PushTerminal(w) ==
  /\ Ready(w, "status")
  /\ PushAwaited(w, StatusPush(TerminalStatus(verdict[w]), 0))
  /\ Goto(w, "complete")
  /\ UNCHANGED <<storeVars, queued, verdict, artifact, uploaded, logsOpen,
                 screenshots, histVars>>

PushComplete(w) ==
  /\ Ready(w, "complete")
  /\ PushAwaited(w, CompletePush(TerminalStatus(verdict[w]), uploaded[w]))
  /\ Goto(w, "settle")
  /\ UNCHANGED <<storeVars, queued, verdict, artifact, uploaded, logsOpen,
                 screenshots, histVars>>

\* Mutant: the last push is not awaited.
SettleEarly(w) ==
  /\ stage[w] = "settle"
  /\ acked' = TRUE
  /\ Leave(w)
  /\ UNCHANGED <<storeVars, wire, queued, logsOpen, screenshots,
                 crashes, storeCrashes, troubles>>

\* The publishes, which are Dispatch's, and the ack.
Settle(w) ==
  /\ Ready(w, "settle")
  /\ acked' = TRUE
  /\ Leave(w)
  /\ UNCHANGED <<storeVars, wire, queued, logsOpen, screenshots,
                 crashes, storeCrashes, troubles>>

\* Something throws (mkdir before the STARTED push, the browser's close, a
\* publish) and the message goes to the dead-letter queue.
Reject(w) ==
  /\ \/ scenario.hasSpecFile /\ Ready(w, "prepare")
     \/ ~ scenario.hasSpecFile /\ (Ready(w, "launch") \/ Ready(w, "running"))
     \/ Ready(w, "settle")
  /\ Leave(w)
  /\ UNCHANGED <<storeVars, wire, queued, logsOpen, screenshots, histVars>>

-----------------------------------------------------------------------------
(* Failures.                                                               *)

\* The worker dies; what it has sent stays sent, and the broker requeues.
CrashWorker(w) ==
  /\ stage[w] # "idle"
  /\ crashes < scenario.maxCrashes
  /\ crashes' = crashes + 1
  /\ Leave(w)
  /\ logsOpen' = [logsOpen EXCEPT ![w] = FALSE]
  /\ queued' = TRUE
  /\ UNCHANGED <<storeVars, wire, screenshots, acked, storeCrashes, troubles>>

\* A push that never reaches the store: fetch rejects, pushExecution logs it.
LosePush(r) ==
  /\ wire[r] # Nothing
  /\ scenario.mayLosePush \/ mode # "up"
  /\ wire' = [wire EXCEPT ![r] = Nothing]
  /\ troubles' = IF r[2] \in HandlerLanes THEN troubles \cup {"lostPush"} ELSE troubles
  /\ UNCHANGED <<storeVars, queued, workerVars, screenshots, acked, crashes, storeCrashes>>

\* The connection breaks, or times out, when the push is sent: fetch rejects and
\* processJob goes on, while the push may still arrive and be handled.
LoseAnswer(w) ==
  /\ scenario.mayLoseAnswer
  /\ \E lane \in awaited[w] : Busy(<<w, lane>>)
  /\ awaited' = [awaited EXCEPT ![w] = {}]
  /\ troubles' = troubles \cup {"lostAnswer"}
  /\ UNCHANGED <<storeVars, wire, queued, stage, verdict, artifact, uploaded, logsOpen,
                 screenshots, acked, crashes, storeCrashes>>

CrashStore ==
  /\ storeCrashes < scenario.maxStoreCrashes
  /\ Store!Crash
  /\ storeCrashes' = storeCrashes + 1
  /\ troubles' = troubles \cup {"storeCrash"}
  /\ UNCHANGED <<wire, queued, workerVars, screenshots, acked, crashes>>

-----------------------------------------------------------------------------
(* The store.                                                              *)

StoreReceive(r) ==
  /\ wire[r] # Nothing
  /\ Store!Receive(r, wire[r])
  /\ wire' = [wire EXCEPT ![r] = Nothing]
  /\ UNCHANGED <<queued, workerVars, screenshots, histVars>>

\* A save is stale if the row has changed since its handler read or wrote it.
Stale(r) == step[r] \in {"save", "repoint"} /\ row[r] # table[Attempt]

StoreSaves(r) ==
  /\ Store!Save(r) \/ Store!SavePointer(r)
  /\ troubles' = IF Stale(r) THEN troubles \cup {"staleSave"} ELSE troubles
  /\ UNCHANGED <<wire, queued, workerVars, screenshots, acked, crashes, storeCrashes>>

StorePuts(r) ==
  /\ Store!PutObject(r)
  /\ UNCHANGED <<wire, queued, workerVars, screenshots, histVars>>

StoreArtifactsFail(r) ==
  /\ Store!ArtifactsFail(r)
  /\ troubles' = troubles \cup {"archiveFailed"}
  /\ UNCHANGED <<wire, queued, workerVars, screenshots, acked, crashes, storeCrashes>>

StoreRestarts ==
  /\ Store!Start \/ Store!Listen \/ Store!Import(Attempt)
  /\ UNCHANGED <<wire, queued, workerVars, screenshots, histVars>>

-----------------------------------------------------------------------------
ProcessJob(w) ==
  \/ Deliver(w)
  \/ PushStarted(w)
  \/ LaunchBrowser(w)
  \/ PushRunning(w)
  \/ \E v \in Verdicts, a \in Artifacts : RunReturns(w, v, a)
  \/ Upload(w)
  \/ PushTerminal(w)
  \/ PushComplete(w)
  \/ Settle(w)
  \/ Reject(w)

HandleRequest(r) ==
  \/ StoreReceive(r)
  \/ StoreSaves(r)
  \/ StorePuts(r)
  \/ StoreArtifactsFail(r)

Next ==
  /\ \/ \E w \in scenario.workers :
          \/ ProcessJob(w) \/ CrashWorker(w) \/ LoseAnswer(w)
          \/ \E lane \in FlushLanes : Flush(w, lane)
     \/ \E r \in Requests : HandleRequest(r) \/ LosePush(r)
     \/ CrashStore
     \/ StoreRestarts
  /\ UNCHANGED scenario

Spec == Init /\ [][Next]_vars

-----------------------------------------------------------------------------
(* Properties.                                                             *)

\* Nobody works on the attempt and no push of it is under way.
Quiet ==
  /\ \A w \in Workers : stage[w] = "idle"
  /\ \A r \in Requests : ~ Busy(r)

\* A completion of the attempt that has not put its object yet.
Completing(r) ==
  \/ wire[r].endpoint = "complete"
  \/ step[r] = "save" /\ body[r].endpoint = "complete"
  \/ step[r] = "put"

\* Whatever races and redeliveries happen, an attempt is acked only after its
\* record, with all logs, is in MinIO, unless a push was lost or a put failed; if
\* only an answer was lost, a completion may still be on its way there.  The
\* archive survives the races that spoil the row.
AckedIsArchived ==
  acked /\ troubles \cap {"lostPush", "storeCrash", "archiveFailed"} = {} =>
    \/ Store!IsTerminal(objects[Attempt]) /\ objects[Attempt].logs = AllLogs
    \/ "lostAnswer" \in troubles /\ \E r \in Requests : Completing(r)

\* A row of a settled attempt that still shows a live status, or that has no
\* duration, has a cause: a push was lost, the store died, or a handler saved a
\* stale row.  Late and reordered flushes and lost answers alone never do that.
StuckHasCause ==
  acked /\ Quiet /\ troubles \cap {"lostPush", "storeCrash", "staleSave"} = {} =>
    /\ Store!IsTerminal(table[Attempt])
    /\ "durationMs" \in table[Attempt].columns

\* No record names a screenshot that is not in MinIO.
ScreenshotExists ==
  \A rec \in {table[Attempt], objects[Attempt]} :
    rec # Absent /\ "screenshotObject" \in rec.columns => Attempt \in screenshots

-----------------------------------------------------------------------------
(* What the repository's README says of this part, refuted by the runs     *)
(* whose names begin with reporting_doc_.                                  *)

\* README: "The execution store shows per-test status, duration": once a test is
\* over and all pushes were answered, its row shows how it ended.
ShowsVerdict == acked /\ Quiet => Store!IsTerminal(table[Attempt])

\* README: "shows per-test status, duration, logs": the row of a finished test,
\* which the portal shows whenever it has any logs, has them all, even leaving
\* stale saves aside.
ShowsLogs ==
  acked /\ Quiet /\ "staleSave" \notin troubles => table[Attempt].logs = AllLogs
=============================================================================
