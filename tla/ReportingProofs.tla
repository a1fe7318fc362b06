-------------------------- MODULE ReportingProofs --------------------------
(***************************************************************************)
(* Theorems about Reporting for every number of handler invocations and of *)
(* flushes, and for every scenario.                                        *)
(***************************************************************************)
EXTENDS Reporting, TLAPS

-----------------------------------------------------------------------------
(* Type correctness.                                                       *)

LEMMA ScenarioFacts ==
  ASSUME scenario \in Scenarios
  PROVE  /\ scenario.workers \subseteq Workers
         /\ scenario.maxCrashes \in Nat /\ scenario.maxStoreCrashes \in Nat
  BY ReportingAssumption DEF Scenario

LEMMA MessageFacts ==
  ASSUME NEW m \in Store!Messages
  PROVE  /\ m # Nothing /\ m.key = Attempt
         /\ m.endpoint \in {"status", "complete"}
         /\ m.status \in Store!Statuses /\ m.logs \in 0 .. AllLogs
<1>1. m.endpoint # "none" /\ Nothing.endpoint = "none"
  BY DEF Store!Messages, Nothing, Store!NoBody
<1> QED  BY <1>1 DEF Store!Messages

LEMMA PushesAreMessages ==
  /\ \A s \in {"STARTED", "RUNNING"}, n \in {0, SomeLogs} :
       StatusPush(s, n) \in Store!Messages
  /\ \A s \in Store!TerminalStatuses : StatusPush(s, 0) \in Store!Messages
  /\ \A s \in Store!TerminalStatuses, shot \in BOOLEAN :
       CompletePush(s, shot) \in Store!Messages
  BY DEF StatusPush, CompletePush, SomeLogs, AllLogs, Store!Messages,
     Store!Statuses, Store!LiveStatuses, Store!TerminalStatuses

LEMMA RowsArePresent == \A rec \in Store!Rows : rec # Absent
  BY ReportingAssumption

LEMMA StampedIsColumns ==
  \A m \in Store!Messages : Store!Stamped(m) \subseteq Store!Columns
  BY DEF Store!Stamped, Store!Columns, Store!Messages, Store!Statuses,
     Store!LiveStatuses, Store!TerminalStatuses

LEMMA MergeIsRow ==
  ASSUME NEW existing \in Store!MaybeRows, NEW m \in Store!Messages
  PROVE  Store!Merge(existing, m) \in Store!Rows
<1>1. existing # Absent => existing \in Store!Rows
  BY DEF Store!MaybeRows
<1>2. Store!MergedStatus(existing, m) \in Store!Statuses
  BY <1>1 DEF Store!MergedStatus, Store!IsTerminal, Store!Messages, Store!Rows
<1>3. Store!Stamped(m) \cup (IF existing = Absent THEN {} ELSE existing.columns)
        \in SUBSET Store!Columns
  BY <1>1, StampedIsColumns DEF Store!Rows
<1>4. (IF m.logs > 0 \/ existing = Absent THEN m.logs ELSE existing.logs) \in 0 .. AllLogs
  BY <1>1 DEF Store!Rows, Store!Messages
<1>5. (existing # Absent /\ existing.logObject) \in BOOLEAN
  OBVIOUS
<1> QED  BY <1>2, <1>3, <1>4, <1>5 DEF Store!Merge, Store!Rows

LEMMA PointedRow ==
  ASSUME NEW rec \in Store!Rows
  PROVE  /\ Store!Pointed(rec) \in Store!Rows
         /\ Store!Pointed(rec).status = rec.status
         /\ Store!Pointed(rec).columns = rec.columns
         /\ Store!Pointed(rec).logs = rec.logs
  BY DEF Store!Pointed, Store!Rows

\* What a request knows of its row between the saves and the put.
RowsSaved ==
  \A r \in Requests : step[r] \in {"put", "repoint"} => row[r] \in Store!Rows

\* What the store does to its types, whoever calls it.
StoreActs ==
  \/ \E r \in Requests :
       (\E m \in Store!Messages : Store!Receive(r, m)) \/ Store!Handle(r)
  \/ Store!Crash \/ Store!Start \/ Store!Import(Attempt) \/ Store!Listen

LEMMA StoreTypes ==
  ASSUME Store!TypeOK, RowsSaved, StoreActs
  PROVE  Store!TypeOK' /\ RowsSaved'
<1>1. ASSUME NEW r \in Requests, NEW m \in Store!Messages, Store!Receive(r, m)
      PROVE  Store!TypeOK' /\ RowsSaved'
  <2>1. m.key = Attempt
    BY MessageFacts
  <2> QED  BY <1>1, <2>1 DEF Store!Receive, Store!processVars, Store!TypeOK, RowsSaved
<1>2. ASSUME NEW r \in Requests, Store!Save(r)
      PROVE  Store!TypeOK' /\ RowsSaved'
  <2>1. body[r] \in Store!Messages /\ row[r] \in Store!MaybeRows
    BY <1>2 DEF Store!Save, Store!TypeOK
  <2>2. Store!Merge(row[r], body[r]) \in Store!Rows
    BY <2>1, MergeIsRow
  <2> QED  BY <1>2, <2>1, <2>2
           DEF Store!Save, Store!Answer, Store!processVars, Store!TypeOK, Store!MaybeRows, RowsSaved
<1>3. ASSUME NEW r \in Requests, Store!PutObject(r) \/ Store!SavePointer(r)
      PROVE  Store!TypeOK' /\ RowsSaved'
  <2>1. row[r] \in Store!Rows /\ Store!Pointed(row[r]) \in Store!Rows
    BY <1>3, PointedRow DEF Store!PutObject, Store!SavePointer, RowsSaved
  <2>2. CASE Store!PutObject(r)
    BY <2>1, <2>2 DEF Store!PutObject, Store!processVars, Store!TypeOK, Store!MaybeRows, RowsSaved
  <2>3. CASE Store!SavePointer(r)
    BY <2>1, <2>3 DEF Store!SavePointer, Store!Answer, Store!processVars, Store!TypeOK,
       Store!MaybeRows, RowsSaved
  <2> QED  BY <1>3, <2>2, <2>3
<1>4. ASSUME NEW r \in Requests, Store!ArtifactsFail(r)
      PROVE  Store!TypeOK' /\ RowsSaved'
  BY <1>4 DEF Store!ArtifactsFail, Store!Answer, Store!processVars, Store!TypeOK,
     Store!MaybeRows, RowsSaved
<1>5. CASE Store!Crash
  BY <1>5 DEF Store!Crash, Store!TypeOK, Store!MaybeRows, RowsSaved
<1>6. CASE Store!Start \/ Store!Listen
  BY <1>6 DEF Store!Start, Store!Listen, Store!Listings, Store!Archived, Store!requestVars,
     Store!TypeOK, RowsSaved
<1>7. CASE Store!Import(Attempt)
  BY <1>7 DEF Store!Import, Store!requestVars, Store!TypeOK, RowsSaved
<1> QED  BY <1>1, <1>2, <1>3, <1>4, <1>5, <1>6, <1>7 DEF StoreActs, Store!Handle

Typed == TypeOK /\ RowsSaved

\* The worker's actions leave the store alone.
LEMMA StoreKeeps ==
  ASSUME Store!TypeOK, RowsSaved, UNCHANGED storeVars
  PROVE  Store!TypeOK' /\ RowsSaved'
  BY DEF storeVars, Store!TypeOK, RowsSaved

WorkerActs(w) ==
  \/ ProcessJob(w) \/ CrashWorker(w) \/ LoseAnswer(w)
  \/ \E lane \in FlushLanes : Flush(w, lane)

LEMMA WorkerTypes ==
  ASSUME Typed, NEW w \in Workers, UNCHANGED scenario,
         WorkerActs(w)
  PROVE  Typed'
<1>0. TypeOK /\ RowsSaved /\ Store!TypeOK
  BY DEF Typed, TypeOK
<1>s. ASSUME UNCHANGED storeVars
      PROVE  Store!TypeOK' /\ RowsSaved' /\ scenario' \in Scenarios
  BY <1>0, <1>s, StoreKeeps DEF TypeOK
<1>v. TerminalStatus(verdict[w]) \in Store!TerminalStatuses
  BY DEF TerminalStatus, Store!TerminalStatuses
<1>1. CASE Deliver(w)
  BY <1>0, <1>1, <1>s DEF Deliver, Goto, histVars, Typed, TypeOK, Stages
<1>b. CASE LaunchBrowser(w)
  BY <1>0, <1>b, <1>s DEF LaunchBrowser, Goto, histVars, Typed, TypeOK, Stages
<1>2. CASE PushStarted(w) \/ PushRunning(w) \/ PushTerminal(w) \/ PushComplete(w)
  <2>1. PICK m \in Store!Messages : PushAwaited(w, m)
    <3>1. StatusPush("STARTED", 0) \in Store!Messages /\ StatusPush("RUNNING", 0) \in Store!Messages
      BY PushesAreMessages
    <3>2. /\ StatusPush(TerminalStatus(verdict[w]), 0) \in Store!Messages
          /\ CompletePush(TerminalStatus(verdict[w]), uploaded[w]) \in Store!Messages
      BY <1>0, <1>v, PushesAreMessages DEF TypeOK
    <3> QED  BY <1>2, <3>1, <3>2 DEF PushStarted, PushRunning, PushTerminal, PushComplete
  <2>2. /\ wire' \in [Requests -> Store!Messages \cup {Nothing}]
        /\ awaited' \in [Workers -> SUBSET HandlerLanes]
    <3>1. PICK lane \in HandlerLanes :
                 Push(w, lane, m) /\ awaited' = [awaited EXCEPT ![w] = {lane}]
      BY <2>1 DEF PushAwaited
    <3>2. awaited' \in [Workers -> SUBSET HandlerLanes]
      BY <1>0, <3>1 DEF TypeOK
    <3> QED  BY <1>0, <3>1, <3>2 DEF Push, TypeOK
  <2> QED  BY <1>0, <1>2, <1>s, <2>2
           DEF PushStarted, PushRunning, PushTerminal, PushComplete, Goto, histVars,
               Typed, TypeOK, Stages
<1>3. ASSUME NEW v \in Verdicts, NEW a \in Artifacts, RunReturns(w, v, a) PROVE Typed'
  BY <1>0, <1>3, <1>s DEF RunReturns, Goto, histVars, Typed, TypeOK, Stages
<1>4. CASE Upload(w)
  BY <1>0, <1>4, <1>s DEF Upload, Goto, Typed, TypeOK, Stages, Troubles
<1>l. ASSUME Leave(w)
      PROVE  /\ stage' \in [Workers -> Stages]
             /\ awaited' \in [Workers -> SUBSET HandlerLanes]
             /\ verdict' \in [Workers -> Verdicts \cup {"none"}]
             /\ artifact' \in [Workers -> Artifacts]
             /\ uploaded' \in [Workers -> BOOLEAN]
  BY <1>0, <1>l DEF Leave, Goto, TypeOK, Stages, Artifacts, NoArtifact
<1>5. CASE Settle(w) \/ Reject(w)
  BY <1>0, <1>5, <1>s, <1>l DEF Settle, Reject, histVars, Typed, TypeOK
<1>6. CASE CrashWorker(w)
  <2>1. crashes' \in 0 .. scenario.maxCrashes
    BY <1>0, <1>6, ScenarioFacts DEF CrashWorker, TypeOK
  <2> QED  BY <1>0, <1>6, <1>s, <1>l, <2>1 DEF CrashWorker, Typed, TypeOK
<1>7. ASSUME NEW lane \in FlushLanes, Flush(w, lane) PROVE Typed'
  <2>1. StatusPush("RUNNING", SomeLogs) \in Store!Messages
    BY PushesAreMessages
  <2>2. wire' \in [Requests -> Store!Messages \cup {Nothing}]
    BY <1>0, <1>7, <2>1 DEF Flush, Push, TypeOK
  <2> QED  BY <1>0, <1>7, <1>s, <2>2 DEF Flush, histVars, Typed, TypeOK
<1>8. CASE LoseAnswer(w)
  BY <1>0, <1>8, <1>s DEF LoseAnswer, Typed, TypeOK, Troubles
<1> QED  BY <1>1, <1>b, <1>2, <1>3, <1>4, <1>5, <1>6, <1>7, <1>8 DEF WorkerActs, ProcessJob

LEMMA StoreSideTypes ==
  ASSUME Typed, UNCHANGED scenario,
         \/ \E r \in Requests : HandleRequest(r) \/ LosePush(r)
         \/ CrashStore
         \/ StoreRestarts
  PROVE  Typed'
<1>0. TypeOK /\ RowsSaved /\ Store!TypeOK
  BY DEF Typed, TypeOK
<1>1. ASSUME NEW r \in Requests, StoreReceive(r) PROVE Typed'
  <2>1. wire[r] \in Store!Messages
    BY <1>0, <1>1 DEF StoreReceive, TypeOK
  <2>2. Store!TypeOK' /\ RowsSaved'
    BY <1>0, <1>1, <2>1, StoreTypes DEF StoreReceive, StoreActs
  <2> QED  BY <1>0, <1>1, <2>2 DEF StoreReceive, workerVars, histVars, Typed, TypeOK
<1>2. ASSUME NEW r \in Requests, StoreSaves(r) \/ StorePuts(r) \/ StoreArtifactsFail(r)
      PROVE  Typed'
  <2>1. Store!TypeOK' /\ RowsSaved'
    BY <1>0, <1>2, StoreTypes
    DEF StoreSaves, StorePuts, StoreArtifactsFail, StoreActs, Store!Handle
  <2> QED  BY <1>0, <1>2, <2>1
           DEF StoreSaves, StorePuts, StoreArtifactsFail, workerVars, histVars, Typed, TypeOK,
               Troubles
<1>3. ASSUME NEW r \in Requests, LosePush(r) PROVE Typed'
  BY <1>0, <1>3, StoreKeeps DEF LosePush, workerVars, Typed, TypeOK, Troubles
<1>4. CASE CrashStore
  <2>1. Store!TypeOK' /\ RowsSaved'
    BY <1>0, <1>4, StoreTypes DEF CrashStore, StoreActs
  <2>2. storeCrashes' \in 0 .. scenario.maxStoreCrashes
    BY <1>0, <1>4, ScenarioFacts DEF CrashStore, TypeOK
  <2> QED  BY <1>0, <1>4, <2>1, <2>2 DEF CrashStore, workerVars, Typed, TypeOK, Troubles
<1>5. CASE StoreRestarts
  <2>1. Store!TypeOK' /\ RowsSaved'
    BY <1>0, <1>5, StoreTypes DEF StoreRestarts, StoreActs
  <2> QED  BY <1>0, <1>5, <2>1 DEF StoreRestarts, workerVars, histVars, Typed, TypeOK
<1> QED  BY <1>1, <1>2, <1>3, <1>4, <1>5 DEF HandleRequest

LEMMA InitTyped == Init => Typed
<1> SUFFICES ASSUME Init PROVE Typed
  OBVIOUS
<1>1. Store!TypeOK /\ RowsSaved
  BY DEF Init, Store!TypeOK, Store!MaybeRows, Nothing, RowsSaved
<1>2. scenario \in Scenarios
  BY DEF Init
<1>3. crashes \in 0 .. scenario.maxCrashes /\ storeCrashes \in 0 .. scenario.maxStoreCrashes
  BY <1>2, ScenarioFacts DEF Init
<1>4. /\ wire \in [Requests -> Store!Messages \cup {Nothing}]
      /\ stage \in [Workers -> Stages]
      /\ awaited \in [Workers -> SUBSET HandlerLanes]
      /\ verdict \in [Workers -> Verdicts \cup {"none"}]
      /\ artifact \in [Workers -> Artifacts]
      /\ uploaded \in [Workers -> BOOLEAN] /\ logsOpen \in [Workers -> BOOLEAN]
  BY DEF Init, Stages, Artifacts, NoArtifact
<1> QED  BY <1>1, <1>2, <1>3, <1>4 DEF Init, Typed, TypeOK

LEMMA StepTyped == Typed /\ [Next]_vars => Typed'
<1> SUFFICES ASSUME Typed, [Next]_vars PROVE Typed'
  OBVIOUS
<1>0. TypeOK /\ RowsSaved /\ Store!TypeOK
  BY DEF Typed, TypeOK
<1>1. CASE Next
  BY <1>0, <1>1, ScenarioFacts, WorkerTypes, StoreSideTypes DEF Next, WorkerActs, TypeOK
<1>2. CASE UNCHANGED vars
  BY <1>0, <1>2, StoreKeeps DEF vars, workerVars, histVars, Typed, TypeOK
<1> QED  BY <1>1, <1>2

\* Worker, wire and store keep their types for every number of invocations and
\* flushes: what processJob pushes is what the handlers of the store take, and a
\* handler past its first save has a whole row in hand.
THEOREM TypeCorrect == Spec => []TypeOK
<1>1. Typed => TypeOK
  BY DEF Typed
<1> QED  BY InitTyped, StepTyped, <1>1, PTL DEF Spec

-----------------------------------------------------------------------------
(* What a merge makes of a row.                                            *)

\* The record names a screenshot; it is in the archive for good; it shows how
\* the attempt ended.
Names(rec) == rec # Absent /\ "screenshotObject" \in rec.columns
Final(rec) == Store!IsTerminal(rec) /\ rec.logs = AllLogs
Done(rec)  == Store!IsTerminal(rec) /\ "durationMs" \in rec.columns

\* A completion as PushComplete makes it.
Complete(m) == m.endpoint = "complete"
WellFormed(m) ==
  Complete(m) => m.logs = AllLogs /\ m.status \in Store!TerminalStatuses

LEMMA StampedNames ==
  ASSUME NEW m \in Store!Messages, "screenshotObject" \in Store!Stamped(m)
  PROVE  Complete(m) /\ m.screenshot
<1>1. CASE m.endpoint = "complete"
  BY <1>1 DEF Store!Stamped, Complete
<1>2. CASE m.endpoint # "complete"
  <2>1. CASE m.status = "STARTED"
    BY <1>2, <2>1 DEF Store!Stamped
  <2>2. CASE m.status = "RUNNING"
    BY <1>2, <2>2 DEF Store!Stamped
  <2>3. CASE m.status \notin {"STARTED", "RUNNING"}
    BY <1>2, <2>3 DEF Store!Stamped
  <2> QED  BY <2>1, <2>2, <2>3
<1> QED  BY <1>1, <1>2

LEMMA MergeNames ==
  ASSUME NEW existing \in Store!MaybeRows, NEW m \in Store!Messages,
         Names(Store!Merge(existing, m))
  PROVE  Names(existing) \/ (Complete(m) /\ m.screenshot)
<1>1. Store!Merge(existing, m).columns =
        Store!Stamped(m) \cup (IF existing = Absent THEN {} ELSE existing.columns)
  BY DEF Store!Merge
<1> QED  BY <1>1, StampedNames DEF Names

LEMMA MergeCompletes ==
  ASSUME NEW existing \in Store!MaybeRows, NEW m \in Store!Messages,
         Complete(m), WellFormed(m)
  PROVE  Final(Store!Merge(existing, m)) /\ Done(Store!Merge(existing, m))
<1>1. /\ m.status \in Store!TerminalStatuses /\ m.status \notin Store!LiveStatuses
      /\ m.logs = AllLogs /\ AllLogs > 0
  BY DEF WellFormed, AllLogs, Store!TerminalStatuses, Store!LiveStatuses
<1>2. Store!Merge(existing, m) # Absent
  BY MergeIsRow, RowsArePresent
<1>3. Store!Merge(existing, m).status = m.status
  BY <1>1 DEF Store!Merge, Store!MergedStatus
<1>4. Store!Merge(existing, m).logs = AllLogs
  BY <1>1 DEF Store!Merge
<1>5. "durationMs" \in Store!Stamped(m)
  BY DEF Complete, Store!Stamped
<1>6. "durationMs" \in Store!Merge(existing, m).columns
  BY <1>5 DEF Store!Merge
<1> QED  BY <1>1, <1>2, <1>3, <1>4, <1>6 DEF Final, Done, Store!IsTerminal

LEMMA MergeKeepsDone ==
  ASSUME NEW existing \in Store!MaybeRows, NEW m \in Store!Messages, Done(existing)
  PROVE  Done(Store!Merge(existing, m))
<1>1. existing # Absent /\ existing.status \in Store!TerminalStatuses
  BY DEF Done, Store!IsTerminal
<1>2. Store!Merge(existing, m) # Absent
  BY MergeIsRow, RowsArePresent
<1>3. Store!Merge(existing, m).status \in Store!TerminalStatuses
  BY <1>1, MessageFacts DEF Store!Merge, Store!MergedStatus, Store!IsTerminal, Store!Statuses
<1>4. "durationMs" \in Store!Merge(existing, m).columns
  BY <1>1 DEF Done, Store!Merge
<1> QED  BY <1>2, <1>3, <1>4 DEF Done, Store!IsTerminal

LEMMA PointedKeeps ==
  ASSUME NEW rec \in Store!Rows
  PROVE  /\ Store!Pointed(rec) # Absent
         /\ Names(Store!Pointed(rec)) => Names(rec)
         /\ Final(rec) => Final(Store!Pointed(rec))
         /\ Done(rec) => Done(Store!Pointed(rec))
<1>1. Store!Pointed(rec) # Absent /\ rec # Absent
  BY PointedRow, RowsArePresent
<1> QED  BY <1>1, PointedRow DEF Names, Final, Done, Store!IsTerminal

-----------------------------------------------------------------------------
(* What requests carry and what the store keeps.                           *)

Reported ==
  /\ \A r \in Requests : WellFormed(wire[r]) /\ WellFormed(body[r])
  /\ \A r \in Requests : Complete(wire[r]) => r[2] \in HandlerLanes
  /\ \A r \in Requests : step[r] \in {"put", "repoint"} => Final(row[r]) /\ Done(row[r])
  /\ objects[Attempt] # Absent => Final(objects[Attempt])
  /\ mode # "up" => "storeCrash" \in troubles

\* Whoever knows of the screenshot knows of one that is in MinIO.
Known(m) == Complete(m) /\ m.screenshot
Shown ==
  Attempt \notin screenshots =>
    /\ \A w \in Workers : ~ uploaded[w]
    /\ \A r \in Requests : ~ Known(wire[r]) /\ ~ Known(body[r]) /\ ~ Names(row[r])
    /\ ~ Names(table[Attempt]) /\ ~ Names(objects[Attempt])

LEMMA NothingIsNoCompletion == ~ Complete(Nothing)
  BY DEF Complete, Nothing, Store!NoBody

\* A push on one lane leaves the others as they are.
LEMMA PushFacts ==
  ASSUME TypeOK, NEW w \in Workers, NEW lane \in Lanes, NEW m, Push(w, lane, m)
  PROVE  /\ <<w, lane>> \in Requests
         /\ wire[<<w, lane>>] = Nothing /\ step[<<w, lane>>] = "idle"
         /\ wire'[<<w, lane>>] = m
         /\ \A r \in Requests : r # <<w, lane>> => wire'[r] = wire[r]
<1>1. <<w, lane>> \in Requests
  BY DEF Requests
<1> QED  BY <1>1 DEF Push, Busy, TypeOK

LEMMA WorkerReported ==
  ASSUME Typed, Reported, Shown, NEW w \in Workers,
         WorkerActs(w)
  PROVE  Reported' /\ Shown'
<1>0. TypeOK
  BY DEF Typed
\* A step that pushes nothing and learns of no screenshot.
<1>a. ASSUME UNCHANGED <<storeVars, wire>>, troubles \subseteq troubles',
             screenshots' = screenshots,
             \A u \in Workers : uploaded'[u] => uploaded[u]
      PROVE  Reported' /\ Shown'
  BY <1>a DEF storeVars, Reported, Shown, Known, Complete, WellFormed, Final, Done, Names,
     Store!IsTerminal
\* A step that pushes m.
<1>b. ASSUME NEW lane \in Lanes, NEW m, Push(w, lane, m), WellFormed(m),
             Known(m) => uploaded[w], Complete(m) => lane \in HandlerLanes,
             UNCHANGED <<storeVars, uploaded, screenshots, troubles>>
      PROVE  Reported' /\ Shown'
  <2>1. \A r \in Requests : wire'[r] = m \/ wire'[r] = wire[r]
    BY <1>0, <1>b, PushFacts
  <2>2. \A r \in Requests :
          WellFormed(wire'[r]) /\ (Complete(wire'[r]) => r[2] \in HandlerLanes)
    <3>1. /\ wire'[<<w, lane>>] = m
          /\ \A r \in Requests : r # <<w, lane>> => wire'[r] = wire[r]
      BY <1>0, <1>b, PushFacts
    <3> QED  BY <1>b, <3>1 DEF Reported
  <2>3. Attempt \notin screenshots => \A r \in Requests : ~ Known(wire'[r])
    BY <1>b, <2>1 DEF Shown
  <2> QED  BY <1>b, <2>2, <2>3
           DEF storeVars, Reported, Shown, Known, Complete, WellFormed, Final, Done, Names,
               Store!IsTerminal
<1>l. HandlerLanes \subseteq Lanes /\ FlushLanes \subseteq Lanes
  BY DEF Lanes
<1>1. CASE PushStarted(w) \/ PushRunning(w) \/ PushTerminal(w)
  <2>1. PICK s, n : PushAwaited(w, StatusPush(s, n))
    BY <1>1 DEF PushStarted, PushRunning, PushTerminal
  <2>3. PICK lane \in HandlerLanes : Push(w, lane, StatusPush(s, n))
    BY <2>1 DEF PushAwaited
  <2>2. ~ Complete(StatusPush(s, n))
    BY DEF Complete, StatusPush
  <2> QED  BY <1>1, <1>b, <1>l, <2>3, <2>2
           DEF PushStarted, PushRunning, PushTerminal, histVars, WellFormed, Known
<1>2. CASE PushComplete(w)
  <2> DEFINE m == CompletePush(TerminalStatus(verdict[w]), uploaded[w])
  <2>1. PICK lane \in HandlerLanes : Push(w, lane, m)
    BY <1>2 DEF PushComplete, PushAwaited
  <2>2. WellFormed(m) /\ m.screenshot = uploaded[w]
    BY DEF WellFormed, CompletePush, TerminalStatus, Store!TerminalStatuses
  <2> QED  BY <1>2, <1>b, <1>l, <2>1, <2>2 DEF PushComplete, histVars, Known
<1>3. ASSUME NEW lane \in FlushLanes, Flush(w, lane) PROVE Reported' /\ Shown'
  <2>1. ~ Complete(StatusPush("RUNNING", SomeLogs))
    BY DEF Complete, StatusPush
  <2> QED  BY <1>3, <1>b, <1>l, <2>1 DEF Flush, histVars, WellFormed, Known
<1>4. CASE Upload(w)
  <2>1. CASE Attempt \in screenshots'
    BY <1>4, <2>1 DEF Upload, storeVars, Reported, Shown, WellFormed, Complete, Final, Done,
       Store!IsTerminal
  <2>2. CASE Attempt \notin screenshots'
    <3>1. screenshots' = screenshots /\ uploaded' = uploaded /\ troubles \subseteq troubles'
      BY <1>4, <2>2 DEF Upload
    <3> QED  BY <1>4, <3>1, <1>a DEF Upload
  <2> QED  BY <2>1, <2>2
<1>5. ASSUME Leave(w) PROVE \A u \in Workers : uploaded'[u] => uploaded[u]
  BY <1>0, <1>5 DEF Leave, TypeOK
<1>6. CASE Settle(w) \/ Reject(w) \/ CrashWorker(w)
  BY <1>6, <1>5, <1>a DEF Settle, Reject, CrashWorker, histVars
<1>7. CASE \/ Deliver(w) \/ LaunchBrowser(w)
           \/ \E v \in Verdicts, a \in Artifacts : RunReturns(w, v, a)
  BY <1>7, <1>a DEF Deliver, LaunchBrowser, RunReturns, histVars
<1>8. CASE LoseAnswer(w)
  BY <1>8, <1>a DEF LoseAnswer
<1> QED  BY <1>1, <1>2, <1>3, <1>4, <1>6, <1>7, <1>8 DEF WorkerActs, ProcessJob

LEMMA StoreReported ==
  ASSUME Typed, Reported, Shown,
         \/ \E r \in Requests : HandleRequest(r) \/ LosePush(r)
         \/ CrashStore
         \/ StoreRestarts
  PROVE  Reported' /\ Shown'
<1>0. /\ TypeOK /\ Store!TypeOK /\ RowsSaved
      /\ \A r \in Requests : row[r] \in Store!MaybeRows
      /\ table[Attempt] \in Store!MaybeRows
  BY DEF Typed, TypeOK, Store!TypeOK
<1> USE NothingIsNoCompletion DEF Reported, Shown, Known, WellFormed
<1>n. ~ Names(Absent) /\ Nothing = Store!NoBody
  BY DEF Names, Nothing
\* The end of a handler.
<1>a. ASSUME NEW r \in Requests, Store!Answer(r)
      PROVE  /\ step'[r] = "idle" /\ body'[r] = Nothing /\ row'[r] = Absent
             /\ \A q \in Requests : q # r =>
                  step'[q] = step[q] /\ body'[q] = body[q] /\ row'[q] = row[q]
  BY <1>0, <1>a DEF Store!Answer, Store!TypeOK, Nothing
<1>1. ASSUME NEW r \in Requests, StoreReceive(r) PROVE Reported' /\ Shown'
  <2>1. wire[r] \in Store!Messages /\ wire[r].key = Attempt
    BY <1>0, <1>1, MessageFacts DEF StoreReceive, TypeOK
  <2>2. /\ wire'[r] = Nothing /\ body'[r] = wire[r] /\ row'[r] = table[Attempt]
        /\ step'[r] = "save"
        /\ \A q \in Requests : q # r => /\ wire'[q] = wire[q] /\ body'[q] = body[q]
                                        /\ row'[q] = row[q] /\ step'[q] = step[q]
    BY <1>0, <1>1, <2>1 DEF StoreReceive, Store!Receive, TypeOK, Store!TypeOK
  <2>3. UNCHANGED <<table, objects, mode, uploaded, screenshots, troubles>>
    BY <1>1 DEF StoreReceive, Store!Receive, Store!processVars, workerVars, histVars
  <2> QED  BY <2>2, <2>3
<1>2. ASSUME NEW r \in Requests, StoreSaves(r), Store!Save(r) PROVE Reported' /\ Shown'
  <2> DEFINE rec == Store!Merge(row[r], body[r])
  <2>1. body[r] \in Store!Messages /\ body[r].key = Attempt /\ row[r] \in Store!MaybeRows
    BY <1>0, <1>2, MessageFacts DEF Store!Save, Store!TypeOK
  <2>2. /\ Names(rec) => Names(row[r]) \/ Known(body[r])
        /\ Complete(body[r]) => Final(rec) /\ Done(rec)
    BY <2>1, MergeNames, MergeCompletes
  <2>3. /\ table'[Attempt] = rec
        /\ \/ /\ Complete(body[r]) /\ body' = body /\ row'[r] = rec
              /\ \A q \in Requests : q # r => row'[q] = row[q] /\ step'[q] = step[q]
           \/ Store!Answer(r)
    BY <1>0, <1>2, <2>1 DEF Store!Save, Store!TypeOK, Complete
  <2>4. UNCHANGED <<wire, objects, mode, uploaded, screenshots>> /\ troubles \subseteq troubles'
    BY <1>2 DEF StoreSaves, Store!Save, Store!processVars, workerVars
  <2> HIDE DEF rec
  <2> QED  BY <1>a, <1>n, <2>2, <2>3, <2>4
<1>3. ASSUME NEW r \in Requests, StoreSaves(r), Store!SavePointer(r) PROVE Reported' /\ Shown'
  <2>1. body[r].key = Attempt /\ row[r] \in Store!Rows
    BY <1>0, <1>3, MessageFacts DEF Store!SavePointer, Store!TypeOK, RowsSaved
  <2>2. table'[Attempt] = Store!Pointed(row[r]) /\ Store!Answer(r)
    BY <1>0, <1>3, <2>1 DEF Store!SavePointer, Store!TypeOK
  <2>3. UNCHANGED <<wire, objects, mode, uploaded, screenshots>> /\ troubles \subseteq troubles'
    BY <1>3 DEF StoreSaves, Store!SavePointer, Store!processVars, workerVars
  <2> QED  BY <1>a, <1>n, <2>1, <2>2, <2>3, PointedKeeps
<1>4. ASSUME NEW r \in Requests, StorePuts(r) PROVE Reported' /\ Shown'
  <2>1. body[r].key = Attempt /\ row[r] \in Store!Rows /\ Final(row[r])
    BY <1>0, <1>4, MessageFacts DEF StorePuts, Store!PutObject, Store!TypeOK, RowsSaved
  <2>2. /\ objects'[Attempt] = Store!Pointed(row[r])
        /\ step[r] = "put" /\ \A q \in Requests : q # r => step'[q] = step[q]
    BY <1>0, <1>4, <2>1 DEF StorePuts, Store!PutObject, Store!TypeOK
  <2>3. UNCHANGED <<wire, table, body, row, mode, uploaded, screenshots, troubles>>
    BY <1>4 DEF StorePuts, Store!PutObject, Store!processVars, workerVars, histVars
  <2> QED  BY <2>1, <2>2, <2>3, PointedKeeps
<1>5. ASSUME NEW r \in Requests, StoreArtifactsFail(r) PROVE Reported' /\ Shown'
  <2>1. /\ UNCHANGED <<wire, table, objects, mode, uploaded, screenshots>>
        /\ troubles \subseteq troubles' /\ Store!Answer(r)
    BY <1>5 DEF StoreArtifactsFail, Store!ArtifactsFail, Store!processVars, workerVars
  <2> QED  BY <1>a, <1>n, <2>1
<1>6. ASSUME NEW r \in Requests, LosePush(r) PROVE Reported' /\ Shown'
  <2>1. \A q \in Requests : wire'[q] \in {wire[q], Nothing}
    BY <1>0, <1>6 DEF LosePush, TypeOK
  <2>2. UNCHANGED <<storeVars, uploaded, screenshots>> /\ troubles \subseteq troubles'
    BY <1>6 DEF LosePush, workerVars
  <2> QED  BY <2>1, <2>2 DEF storeVars
<1>7. CASE CrashStore
  <2>1. /\ UNCHANGED <<wire, table, objects, uploaded, screenshots>>
        /\ "storeCrash" \in troubles'
        /\ \A q \in Requests : step'[q] = "idle" /\ body'[q] = Nothing /\ row'[q] = Absent
    BY <1>7, <1>n DEF CrashStore, Store!Crash, workerVars
  <2> QED  BY <1>n, <2>1
<1>8. CASE StoreRestarts
  <2>1. /\ UNCHANGED <<wire, step, body, row, objects, uploaded, screenshots, troubles>>
        /\ "storeCrash" \in troubles
        /\ table'[Attempt] \in {table[Attempt], objects[Attempt]}
    BY <1>0, <1>8 DEF StoreRestarts, Store!Start, Store!Listen, Store!Import, Store!requestVars,
       Store!TypeOK, workerVars, histVars
  <2> QED  BY <2>1
<1> QED  BY <1>1, <1>2, <1>3, <1>4, <1>5, <1>6, <1>7, <1>8 DEF HandleRequest, StoreSaves

LEMMA InitReported == Init => Reported /\ Shown
<1> SUFFICES ASSUME Init PROVE Reported /\ Shown
  OBVIOUS
<1>1. \A r \in Requests : wire[r] = Nothing /\ body[r] = Nothing /\ row[r] = Absent /\ step[r] = "idle"
  BY DEF Init
<1>2. table[Attempt] = Absent /\ objects[Attempt] = Absent /\ mode = "up"
      /\ \A w \in Workers : ~ uploaded[w]
  BY DEF Init
<1> QED  BY <1>1, <1>2, NothingIsNoCompletion DEF Reported, Shown, Known, WellFormed, Names

LEMMA StepReported ==
  Typed /\ Reported /\ Shown /\ [Next]_vars => Reported' /\ Shown'
<1> SUFFICES ASSUME Typed, Reported, Shown, [Next]_vars PROVE Reported' /\ Shown'
  OBVIOUS
<1>1. CASE Next
  BY <1>1, ScenarioFacts, WorkerReported, StoreReported DEF Next, WorkerActs, Typed, TypeOK
<1>2. CASE UNCHANGED vars
  BY <1>2 DEF vars, storeVars, workerVars, histVars, Reported, Shown, Known, Complete,
     WellFormed, Final, Done, Names, Store!IsTerminal
<1> QED  BY <1>1, <1>2

\* No row and no archived record names a screenshot that is not in MinIO, for any
\* number of handlings of the attempt: only an upload that has succeeded lets a
\* completion name the object, and merges, stale saves and imports pass on
\* only what some completion has named.
THEOREM ScreenshotsExist == Spec => []ScreenshotExists
<1>1. Shown => ScreenshotExists
  BY DEF Shown, ScreenshotExists, Names
<1> QED  BY InitTyped, StepTyped, InitReported, StepReported, <1>1, PTL DEF Spec

-----------------------------------------------------------------------------
(* How the completion of an attempt arrives.                               *)

Archiving == troubles \cap {"lostPush", "storeCrash", "archiveFailed"} = {}
Showing   == troubles \cap {"lostPush", "storeCrash", "staleSave"} = {}

\* A completion is on the wire or about to be saved.
Underway(r) == Complete(wire[r]) \/ (step[r] = "save" /\ Complete(body[r]))

LEMMA CompletingIs == \A r : Completing(r) <=> Underway(r) \/ step[r] = "put"
  BY DEF Completing, Underway, Complete

Archived == objects[Attempt] # Absent

\* An answer was lost, and a completion that nobody awaits is on its way.
Unawaited == "lostAnswer" \in troubles /\ \E r \in Requests : Completing(r)

\* Unless something goes wrong, a handler at its last step awaits its completion
\* or has it in the archive, and acks when it has arrived; but if its answer was
\* lost, it no longer knows.
ArchiveArrives ==
  Archiving =>
    /\ acked => Archived \/ Unawaited
    /\ \A w \in Workers : stage[w] = "settle" =>
         \/ \E lane \in awaited[w] : Completing(<<w, lane>>)
         \/ Archived \/ Unawaited

\* A completion is under way or in the row.
RowComes == Done(table[Attempt]) \/ \E r \in Requests : Underway(r)
RowArrives ==
  /\ Showing
  /\ acked \/ \E w \in Workers : stage[w] = "settle"
  => RowComes

Arrives == ArchiveArrives /\ RowArrives

LEMMA AwaitedAreRequests ==
  ASSUME TypeOK, NEW w \in Workers, NEW lane \in awaited[w]
  PROVE  <<w, lane>> \in Requests
  BY DEF TypeOK, Requests, Lanes

\* A handler that has come to the end of its awaits.
LEMMA ReadyIsOver ==
  ASSUME NEW w \in Workers, NEW at, Ready(w, at), NEW lane \in awaited[w]
  PROVE  ~ Completing(<<w, lane>>)
  BY NothingIsNoCompletion, CompletingIs DEF Ready, Busy, Underway

LEMMA WorkerArrives ==
  ASSUME Typed, Arrives, NEW w \in Workers,
         WorkerActs(w)
  PROVE  Arrives'
<1>0. TypeOK
  BY DEF Typed
<1> USE DEF Arrives, ArchiveArrives, RowArrives
<1>s. UNCHANGED storeVars /\ troubles \subseteq troubles'
  BY DEF WorkerActs, ProcessJob, Deliver, PushStarted, LaunchBrowser, PushRunning, RunReturns,
     Upload, PushTerminal, PushComplete, Settle, Reject, CrashWorker, LoseAnswer, Flush, histVars
<1>c. /\ UNCHANGED <<step, body, objects, table>>
      /\ Archiving' => Archiving
      /\ Showing' => Showing
  BY <1>s DEF storeVars, Archiving, Showing
<1>d. Archived' = Archived /\ Done(table[Attempt])' = Done(table[Attempt])
  BY <1>c DEF Archived, Done, Store!IsTerminal
\* A push takes a free lane, so no completion gets lost by it.
<1>p. \A q \in Requests : /\ Underway(q) => Underway(q)'
                          /\ Completing(q) => Completing(q)'
  <2>1. CASE UNCHANGED wire
    BY <1>c, <2>1 DEF Underway, Completing, Complete
  <2>2. CASE \E lane \in Lanes : \E m : Push(w, lane, m)
    <3>1. PICK lane \in Lanes : \E m : Push(w, lane, m)
      BY <2>2
    <3>2. ASSUME NEW q \in Requests, Completing(q) PROVE q # <<w, lane>>
      BY <1>0, <3>1, <3>2, PushFacts, NothingIsNoCompletion, CompletingIs DEF Underway
    <3>3. ASSUME NEW q \in Requests, Completing(q) PROVE wire'[q] = wire[q]
      BY <1>0, <3>1, <3>2, <3>3, PushFacts
    <3> QED  BY <1>c, <3>3, CompletingIs DEF Underway, Completing, Complete
  <2>3. UNCHANGED wire \/ \E lane \in Lanes : \E m : Push(w, lane, m)
    BY DEF WorkerActs, ProcessJob, Deliver, PushStarted, LaunchBrowser, PushRunning, RunReturns,
       Upload, PushTerminal, PushComplete, Settle, Reject, CrashWorker, LoseAnswer, Flush,
       PushAwaited, Lanes
  <2> QED  BY <2>1, <2>2, <2>3
<1>q. (Unawaited => Unawaited') /\ (RowComes => RowComes')
  BY <1>s, <1>d, <1>p DEF Unawaited, RowComes
\* Nobody comes to its last step, or acks.
<1>a. ASSUME acked' = acked,
             \A u \in Workers : stage'[u] = "settle" =>
               stage[u] = "settle" /\ awaited'[u] = awaited[u]
      PROVE  Arrives'
  <2>1. \A u \in Workers : \A lane \in awaited[u] :
          Completing(<<u, lane>>) => Completing(<<u, lane>>)'
    BY <1>0, <1>p, AwaitedAreRequests
  <2> QED  BY <1>a, <1>c, <1>d, <1>q, <2>1
<1>g. ASSUME NEW s \in Stages, Goto(w, s)
      PROVE  /\ stage'[w] = s
             /\ \A u \in Workers : u # w => stage'[u] = stage[u]
  BY <1>0, <1>g DEF Goto, TypeOK
<1>1. CASE PushStarted(w) \/ PushRunning(w) \/ PushTerminal(w)
  <2>2. \A u \in Workers : u # w => awaited'[u] = awaited[u]
    BY <1>0, <1>1 DEF PushStarted, PushRunning, PushTerminal, PushAwaited, TypeOK
  <2>3. /\ stage'[w] # "settle"
        /\ \A u \in Workers : u # w => stage'[u] = stage[u]
    BY <1>1, <1>g DEF PushStarted, PushRunning, PushTerminal, Stages
  <2> QED  BY <1>1, <1>a, <2>2, <2>3 DEF PushStarted, PushRunning, PushTerminal, histVars
<1>2. CASE PushComplete(w)
  <2> DEFINE m == CompletePush(TerminalStatus(verdict[w]), uploaded[w])
  <2>1. acked' = acked /\ Goto(w, "settle")
    BY <1>2 DEF PushComplete, histVars
  <2>2. PICK lane \in HandlerLanes :
          Push(w, lane, m) /\ awaited' = [awaited EXCEPT ![w] = {lane}]
    BY <1>2 DEF PushComplete, PushAwaited
  <2>3. <<w, lane>> \in Requests /\ wire'[<<w, lane>>] = m
    BY <1>0, <2>2, PushFacts DEF Lanes
  <2>4. Underway(<<w, lane>>)' /\ Completing(<<w, lane>>)'
    BY <2>3 DEF Underway, Completing, Complete, CompletePush
  <2>5. /\ awaited'[w] = {lane}
        /\ \A u \in Workers : u # w => awaited'[u] = awaited[u] /\ stage'[u] = stage[u]
    BY <1>0, <2>1, <2>2, <1>g DEF Stages, TypeOK
  <2>6. RowComes'
    BY <2>3, <2>4 DEF RowComes
  <2>7. \A u \in Workers : \A other \in awaited[u] :
          Completing(<<u, other>>) => Completing(<<u, other>>)'
    BY <1>0, <1>p, AwaitedAreRequests
  <2>8. ArchiveArrives'
    BY <1>c, <1>d, <1>q, <2>1, <2>4, <2>5, <2>7
  <2> QED  BY <2>6, <2>8
<1>3. ASSUME NEW lane \in FlushLanes, Flush(w, lane) PROVE Arrives'
  BY <1>3, <1>a DEF Flush, histVars
<1>4. CASE Settle(w)
  <2>1. /\ stage[w] = "settle"
        /\ ~ \E lane \in awaited[w] : Completing(<<w, lane>>)
    BY <1>4, ReadyIsOver DEF Settle, Ready
  <2>2. /\ stage'[w] # "settle"
        /\ \A u \in Workers : u # w => stage'[u] = stage[u] /\ awaited'[u] = awaited[u]
    BY <1>0, <1>4, <1>g DEF Settle, Leave, Stages, TypeOK
  <2>3. \A u \in Workers : \A lane \in awaited[u] :
          Completing(<<u, lane>>) => Completing(<<u, lane>>)'
    BY <1>0, <1>p, AwaitedAreRequests
  <2>4. ArchiveArrives'
    BY <1>c, <1>d, <1>q, <2>1, <2>2, <2>3
  <2>5. RowArrives'
    BY <1>c, <1>q, <2>1
  <2> QED  BY <2>4, <2>5
<1>5. CASE Reject(w) \/ CrashWorker(w)
  <2>1. Goto(w, "idle") /\ UNCHANGED acked
    BY <1>5 DEF Reject, CrashWorker, Leave, histVars
  <2>2. \A u \in Workers : u # w => awaited'[u] = awaited[u]
    BY <1>0, <1>5 DEF Reject, CrashWorker, Leave, TypeOK
  <2> QED  BY <1>a, <1>g, <2>1, <2>2 DEF Stages
<1>6. CASE \/ Deliver(w) \/ LaunchBrowser(w) \/ Upload(w)
           \/ \E v \in Verdicts, a \in Artifacts : RunReturns(w, v, a)
  <2>1. /\ UNCHANGED <<awaited, acked>>
        /\ \E s \in {"prepare", "launch", "status", "upload"} : Goto(w, s)
    BY <1>6 DEF Deliver, LaunchBrowser, Upload, RunReturns, histVars
  <2> QED  BY <1>a, <1>g, <2>1 DEF Stages
<1>7. CASE LoseAnswer(w)
  <2>1. UNCHANGED <<stage, acked>> /\ "lostAnswer" \in troubles'
    BY <1>7 DEF LoseAnswer
  <2>2. awaited'[w] = {} /\ \A u \in Workers : u # w => awaited'[u] = awaited[u]
    BY <1>0, <1>7 DEF LoseAnswer, TypeOK
  <2>3. \A u \in Workers : \A lane \in awaited[u] :
          /\ <<u, lane>> \in Requests
          /\ Completing(<<u, lane>>) => Completing(<<u, lane>>)'
    BY <1>0, <1>p, AwaitedAreRequests
  <2>4. (\E lane \in awaited[w] : Completing(<<w, lane>>)) => Unawaited'
    BY <2>1, <2>3 DEF Unawaited
  <2> QED  BY <1>c, <1>d, <1>q, <2>1, <2>2, <2>3, <2>4
<1> QED  BY <1>1, <1>2, <1>3, <1>4, <1>5, <1>6, <1>7 DEF WorkerActs, ProcessJob

LEMMA StoreArrives ==
  ASSUME Typed, Reported, Arrives,
         \/ \E r \in Requests : HandleRequest(r) \/ LosePush(r)
         \/ CrashStore
         \/ StoreRestarts
  PROVE  Arrives'
<1>0. TypeOK /\ Store!TypeOK /\ RowsSaved
  BY DEF Typed, TypeOK
<1> USE DEF Arrives, ArchiveArrives, RowArrives
<1>c. /\ UNCHANGED <<acked, stage, awaited>> /\ troubles \subseteq troubles'
      /\ Archiving' => Archiving
      /\ Showing' => Showing
  <2>1. UNCHANGED <<acked, stage, awaited>> /\ troubles \subseteq troubles'
    BY DEF HandleRequest, StoreReceive, StoreSaves, StorePuts, StoreArtifactsFail, LosePush,
       CrashStore, StoreRestarts, workerVars, histVars
  <2> QED  BY <2>1 DEF Archiving, Showing
\* What a request that carries a completion may do.
<1>a. ASSUME Archiving' => (Archived => Archived'),
             Archiving' => \A q \in Requests :
               Underway(q) \/ step[q] = "put" =>
                 Underway(q)' \/ step'[q] = "put" \/ Archived',
             Showing' => (Done(table[Attempt]) => Done(table[Attempt])'),
             Showing' => \A q \in Requests :
               Underway(q) => Underway(q)' \/ Done(table[Attempt])'
      PROVE  Arrives'
  <2>1. Archiving' => \A q \in Requests : Completing(q) => Completing(q)' \/ Archived'
    BY <1>a, CompletingIs DEF Completing, Underway, Complete
  <2>2. Archiving' => (Archived \/ Unawaited => Archived' \/ Unawaited')
    BY <1>a, <1>c, <2>1 DEF Unawaited
  <2>3. Showing' => (RowComes => RowComes')
    BY <1>a DEF RowComes
  <2>4. \A w \in Workers : \A lane \in awaited[w] : <<w, lane>> \in Requests
    BY <1>0, AwaitedAreRequests
  <2>5. ArchiveArrives'
    BY <1>c, <2>1, <2>2, <2>4
  <2>6. RowArrives'
    BY <1>c, <2>3
  <2> QED  BY <2>5, <2>6
<1>e. ASSUME NEW r \in Requests, Store!Answer(r)
      PROVE  \A q \in Requests : q # r => step'[q] = step[q] /\ body'[q] = body[q]
  BY <1>0, <1>e DEF Store!Answer, Store!TypeOK
<1>1. ASSUME NEW r \in Requests, StoreReceive(r) PROVE Arrives'
  <2>1. /\ body'[r] = wire[r] /\ step'[r] = "save" /\ step[r] = "idle"
        /\ \A q \in Requests : q # r => /\ wire'[q] = wire[q] /\ body'[q] = body[q]
                                        /\ step'[q] = step[q]
    BY <1>0, <1>1 DEF StoreReceive, Store!Receive, TypeOK, Store!TypeOK
  <2>2. UNCHANGED <<table, objects>>
    BY <1>1 DEF StoreReceive, Store!Receive
  <2>3. \A q \in Requests : /\ Underway(q) => Underway(q)'
                            /\ step[q] = "put" => step'[q] = "put"
    BY <2>1 DEF Underway, Complete
  <2>4. Archived' = Archived /\ Done(table[Attempt])' = Done(table[Attempt])
    BY <2>2 DEF Archived, Done, Store!IsTerminal
  <2> QED  BY <1>0, <1>a, <2>3, <2>4
<1>2. ASSUME NEW r \in Requests, StoreSaves(r), Store!Save(r) PROVE Arrives'
  <2> DEFINE rec == Store!Merge(row[r], body[r])
  <2>1. /\ body[r] \in Store!Messages /\ body[r].key = Attempt
        /\ row[r] \in Store!MaybeRows /\ step[r] = "save"
    BY <1>0, <1>2, MessageFacts DEF Store!Save, Store!TypeOK
  <2>2. Complete(body[r]) => Done(rec)
    BY <2>1, MergeCompletes DEF Reported
  <2>3. Showing' => row[r] = table[Attempt]
    BY <1>2, <2>1 DEF StoreSaves, Stale, Showing
  <2>4. Done(row[r]) => Done(rec)
    BY <2>1, MergeKeepsDone
  <2>5. /\ table'[Attempt] = rec /\ objects' = objects /\ wire' = wire
        /\ Complete(body[r]) => step'[r] = "put"
        /\ \A q \in Requests : q # r => step'[q] = step[q] /\ body'[q] = body[q]
    BY <1>0, <1>2, <1>e, <2>1
    DEF StoreSaves, Store!Save, Store!TypeOK, Complete
  <2> HIDE DEF rec
  <2>6. \A q \in Requests :
          /\ Underway(q) => \/ Underway(q)'
                            \/ step'[q] = "put" /\ Done(rec)
          /\ step[q] = "put" => step'[q] = "put"
    BY <2>1, <2>2, <2>5 DEF Underway, Complete
  <2>7. Archived' = Archived
    BY <2>5 DEF Archived
  <2>8. Done(table[Attempt])' <=> Done(rec)
    BY <2>5 DEF Done, Store!IsTerminal
  <2> QED  BY <1>0, <1>a, <2>3, <2>4, <2>6, <2>7, <2>8
<1>3. ASSUME NEW r \in Requests, StoreSaves(r), Store!SavePointer(r) PROVE Arrives'
  <2>1. /\ body[r].key = Attempt /\ row[r] \in Store!Rows /\ Done(row[r])
        /\ step[r] = "repoint"
    BY <1>0, <1>3, MessageFacts DEF Store!SavePointer, Store!TypeOK, RowsSaved, Reported
  <2>2. /\ table'[Attempt] = Store!Pointed(row[r]) /\ Store!Answer(r)
        /\ objects' = objects /\ wire' = wire
    BY <1>0, <1>3, <2>1 DEF StoreSaves, Store!SavePointer, Store!TypeOK
  <2>3. Done(table[Attempt])' /\ Archived' = Archived
    <3>1. Done(Store!Pointed(row[r]))
      BY <2>1, PointedKeeps
    <3> QED  BY <2>2, <3>1 DEF Done, Store!IsTerminal, Archived
  <2>4. \A q \in Requests : /\ Underway(q) => Underway(q)'
                            /\ step[q] = "put" => step'[q] = "put"
    BY <1>e, <2>1, <2>2 DEF Underway, Complete
  <2> QED  BY <1>0, <1>a, <2>3, <2>4
<1>4. ASSUME NEW r \in Requests, StorePuts(r) PROVE Arrives'
  <2>1. body[r].key = Attempt /\ row[r] \in Store!Rows /\ step[r] = "put"
    BY <1>0, <1>4, MessageFacts DEF StorePuts, Store!PutObject, Store!TypeOK, RowsSaved
  <2>2. /\ objects'[Attempt] = Store!Pointed(row[r])
        /\ UNCHANGED <<wire, table, body>>
        /\ \A q \in Requests : q # r => step'[q] = step[q]
    BY <1>0, <1>4, <2>1 DEF StorePuts, Store!PutObject, Store!TypeOK
  <2>3. Archived' /\ Done(table[Attempt])' = Done(table[Attempt])
    BY <2>1, <2>2, PointedKeeps DEF Archived, Done, Store!IsTerminal
  <2>4. \A q \in Requests : Underway(q) => Underway(q)'
    BY <2>1, <2>2 DEF Underway, Complete
  <2> QED  BY <1>0, <1>a, <2>3, <2>4
<1>5. ASSUME NEW r \in Requests, StoreArtifactsFail(r) PROVE Arrives'
  <2>1. /\ UNCHANGED <<wire, table, objects>> /\ ~ Archiving'
        /\ step[r] # "save" /\ Store!Answer(r)
    BY <1>5 DEF StoreArtifactsFail, Store!ArtifactsFail, Archiving
  <2>2. \A q \in Requests : Underway(q) => Underway(q)'
    BY <1>e, <2>1 DEF Underway, Complete
  <2>3. Done(table[Attempt])' = Done(table[Attempt])
    BY <2>1 DEF Done, Store!IsTerminal
  <2> QED  BY <1>0, <1>a, <2>1, <2>2, <2>3
<1>6. ASSUME NEW r \in Requests, LosePush(r) PROVE Arrives'
  <2>1. CASE r[2] \in HandlerLanes
    <3>1. ~ Archiving' /\ ~ Showing'
      BY <1>6, <2>1 DEF LosePush, Archiving, Showing
    <3> QED  BY <3>1
  <2>2. CASE r[2] \notin HandlerLanes
    <3>1. ~ Complete(wire[r])
      BY <2>2 DEF Reported
    <3>2. /\ UNCHANGED <<table, objects, step, body>>
          /\ \A q \in Requests : q # r => wire'[q] = wire[q]
      BY <1>0, <1>6 DEF LosePush, storeVars, TypeOK
    <3>3. \A q \in Requests : Underway(q) => Underway(q)'
      BY <3>1, <3>2 DEF Underway, Complete
    <3>4. Archived' = Archived /\ Done(table[Attempt])' = Done(table[Attempt])
      BY <3>2 DEF Archived, Done, Store!IsTerminal
    <3> QED  BY <1>a, <3>2, <3>3, <3>4
  <2> QED  BY <2>1, <2>2
<1>7. CASE CrashStore \/ StoreRestarts
  <2>1. "storeCrash" \in troubles'
    BY <1>7 DEF CrashStore, StoreRestarts, histVars, Store!Start, Store!Listen, Store!Import,
       Reported
  <2>2. ~ Archiving' /\ ~ Showing'
    BY <2>1 DEF Archiving, Showing
  <2> QED  BY <2>2
<1> QED  BY <1>1, <1>2, <1>3, <1>4, <1>5, <1>6, <1>7 DEF HandleRequest, StoreSaves

LEMMA InitArrives == Init => Arrives
  BY DEF Init, Arrives, ArchiveArrives, RowArrives

LEMMA StepArrives ==
  Typed /\ Reported /\ Arrives /\ [Next]_vars => Arrives'
<1> SUFFICES ASSUME Typed, Reported, Arrives, [Next]_vars PROVE Arrives'
  OBVIOUS
<1>1. CASE Next
  BY <1>1, ScenarioFacts, WorkerArrives, StoreArrives DEF Next, WorkerActs, Typed, TypeOK
<1>2. CASE UNCHANGED vars
  BY <1>2 DEF vars, storeVars, workerVars, histVars, Arrives, ArchiveArrives, RowArrives,
     Archiving, Showing, Underway, Completing, Archived, Unawaited, RowComes, Complete, Done,
     Store!IsTerminal
<1> QED  BY <1>1, <1>2

LEMMA ReportingInvariant == Spec => [](Reported /\ Arrives)
  BY InitTyped, StepTyped, InitReported, StepReported, InitArrives, StepArrives, PTL DEF Spec

\* An acked attempt is archived with all its logs, however its handlings and
\* flushes interleave, unless a push was lost, the store crashed or a put failed,
\* or else an answer was lost and a completion that nobody awaits is on its way:
\* otherwise the handler acks only when its completion was answered, and every
\* completion carries all logs and merges into a finished row.
THEOREM AckedIsInArchive == Spec => []AckedIsArchived
<1>1. Reported /\ Arrives => AckedIsArchived
  BY DEF Reported, Arrives, ArchiveArrives, Archiving, Archived, Unawaited, Final, AckedIsArchived
<1> QED  BY ReportingInvariant, <1>1, PTL

\* The row of an acked attempt is finished and has a duration, for any number of
\* handlings and flushes, unless a push was lost, the store crashed or a handler
\* saved a row that others had changed: a save of a row that is still current
\* keeps what a completion has brought.
THEOREM StuckRowsHaveCause == Spec => []StuckHasCause
<1>1. Arrives => StuckHasCause
  <2> SUFFICES ASSUME Arrives, acked, Quiet, Showing
               PROVE  Done(table[Attempt])
    BY DEF Showing, Done, StuckHasCause
  <2>1. \A r \in Requests : ~ Underway(r)
    BY NothingIsNoCompletion DEF Quiet, Busy, Underway
  <2> QED  BY <2>1 DEF Arrives, RowArrives, RowComes
<1> QED  BY ReportingInvariant, <1>1, PTL

-----------------------------------------------------------------------------
(* The store that workers report to is an ExecutionStore.                  *)

\* The theorems about ExecutionStore, read for the requests of one attempt.
SP == INSTANCE ExecutionStoreProofs WITH
  Keys <- {Attempt}, MaxLogs <- AllLogs, Bodies <- Store!Messages

LEMMA SameRecords ==
  /\ Store!Messages = SP!Messages /\ Store!Rows = SP!Rows /\ Store!MaybeRows = SP!MaybeRows
  /\ Nothing = SP!NoBody
  BY DEF Store!Messages, SP!Messages, Store!Rows, SP!Rows, Store!MaybeRows, SP!MaybeRows,
     Store!Statuses, SP!Statuses, Store!LiveStatuses, SP!LiveStatuses, Store!TerminalStatuses,
     SP!TerminalStatuses, Store!Columns, SP!Columns, Nothing, Store!NoBody, SP!NoBody

\* What SP assumes of its constants.
LEMMA StoreLimits ==
  AllLogs \in Nat /\ Absent \notin SP!Rows /\ Store!Messages \subseteq SP!Messages
  BY ReportingAssumption, SameRecords DEF AllLogs

\* The handlers of the one instance are those of the other.
LEMMA SameStore ==
  /\ \A r, m : Store!Receive(r, m) => SP!Receive(r, m)
  /\ \A r : Store!Handle(r) => SP!Handle(r)
  /\ Store!Crash \/ Store!Start \/ Store!Import(Attempt) \/ Store!Listen => SP!Process
<1> USE DEF Store!processVars, SP!processVars, Store!requestVars, SP!requestVars
<1>1. \A r, m : Store!Receive(r, m) => SP!Receive(r, m)
  BY DEF Store!Receive, SP!Receive, Store!Accepted, SP!Accepted,
     Store!TerminalStatuses, SP!TerminalStatuses
<1>2. \A r : Store!Handle(r) => SP!Handle(r)
  <2>1. \A r : Store!Answer(r) => SP!Answer(r)
    BY DEF Store!Answer, SP!Answer, Store!NoBody, SP!NoBody
  <2>2. \A rec, m : Store!Merge(rec, m) = SP!Merge(rec, m)
    BY DEF Store!Merge, SP!Merge, Store!MergedStatus, SP!MergedStatus, Store!Stamped,
       SP!Stamped, Store!IsTerminal, SP!IsTerminal, Store!LiveStatuses, SP!LiveStatuses,
       Store!TerminalStatuses, SP!TerminalStatuses
  <2>3. \A rec : Store!Pointed(rec) = SP!Pointed(rec)
    BY DEF Store!Pointed, SP!Pointed
  <2>4. \A r : Store!Save(r) => SP!Save(r)
    BY <2>1, <2>2 DEF Store!Save, SP!Save
  <2>5. \A r : Store!PutObject(r) => SP!PutObject(r)
    BY <2>3 DEF Store!PutObject, SP!PutObject
  <2>6. \A r : Store!SavePointer(r) => SP!SavePointer(r)
    BY <2>1, <2>3 DEF Store!SavePointer, SP!SavePointer
  <2>7. \A r : Store!ArtifactsFail(r) => SP!ArtifactsFail(r)
    BY <2>1 DEF Store!ArtifactsFail, SP!ArtifactsFail
  <2> QED  BY <2>4, <2>5, <2>6, <2>7 DEF Store!Handle, SP!Handle
<1>3. Store!Crash \/ Store!Start \/ Store!Import(Attempt) \/ Store!Listen => SP!Process
  BY DEF Store!Crash, SP!Crash, Store!Start, SP!Start, Store!Import, SP!Import,
     Store!Listen, SP!Listen, Store!Listings, SP!Listings, Store!Archived, SP!Archived,
     SP!Process, Store!NoBody, SP!NoBody
<1> QED  BY <1>1, <1>2, <1>3

\* Worker, log buffer and network leave the store alone, and what reaches it
\* are messages it knows.
LEMMA StoreTakesItsSteps ==
  ASSUME Typed, [Next]_vars
  PROVE  [SP!Next]_SP!storeVars
<1> USE DEF storeVars, SP!storeVars
<1>1. ASSUME NEW w \in scenario.workers, WorkerActs(w)
      PROVE  UNCHANGED storeVars
  BY <1>1 DEF WorkerActs, ProcessJob, Deliver, PushStarted, LaunchBrowser, PushRunning,
     RunReturns, Upload, PushTerminal, PushComplete, Settle, Reject, CrashWorker, LoseAnswer, Flush
<1>2. ASSUME NEW r \in Requests, HandleRequest(r)
      PROVE  SP!Next
  <2>1. CASE StoreReceive(r)
    <3>1. wire[r] \in Store!Messages
      BY <2>1 DEF StoreReceive, Typed, TypeOK
    <3> QED  BY <2>1, <3>1, SameStore DEF StoreReceive, SP!Next
  <2>2. CASE StoreSaves(r) \/ StorePuts(r) \/ StoreArtifactsFail(r)
    <3>1. Store!Handle(r)
      BY <2>2 DEF StoreSaves, StorePuts, StoreArtifactsFail, Store!Handle
    <3> QED  BY <3>1, SameStore DEF SP!Next
  <2> QED  BY <1>2, <2>1, <2>2 DEF HandleRequest
<1>3. ASSUME NEW r \in Requests, LosePush(r)
      PROVE  UNCHANGED storeVars
  BY <1>3 DEF LosePush
<1>4. CASE CrashStore \/ StoreRestarts
  BY <1>4, SameStore DEF CrashStore, StoreRestarts, SP!Next
<1> QED  BY <1>1, <1>2, <1>3, <1>4 DEF Next, WorkerActs, vars

LEMMA InitServed == Init => SP!ServedInv
<1> SUFFICES ASSUME Init PROVE SP!ServedInv
  OBVIOUS
<1> USE DEF Init
<1>1. SP!TypeOK
  BY SameRecords DEF SP!TypeOK, SP!MaybeRows
<1>2. SP!PointerValid /\ SP!ArchiveSelfContained /\ SP!HandlersOK
  BY DEF SP!PointerValid, SP!ArchiveSelfContained, SP!HandlersOK
<1>3. SP!RequestsHaveRows /\ SP!ImportComplete
  BY DEF SP!RequestsHaveRows, SP!ImportComplete, SP!Archived
<1> QED  BY <1>1, <1>2, <1>3 DEF SP!ServedInv, SP!StoreInv

LEMMA StepServed == Typed /\ SP!ServedInv /\ [Next]_vars => SP!ServedInv'
<1> SUFFICES ASSUME Typed, SP!ServedInv, [Next]_vars PROVE SP!ServedInv'
  OBVIOUS
<1>1. [SP!Next]_SP!storeVars
  BY StoreTakesItsSteps
<1>2. SP!StoreInv'
  BY <1>1, StoreLimits, SP!StoreStep DEF SP!ServedInv
<1>3. SP!RequestsHaveRows' /\ SP!ImportComplete'
  BY <1>1, StoreLimits, SP!ServedStep
<1> QED  BY <1>2, <1>3 DEF SP!ServedInv

LEMMA StoreServed == Spec => [](Typed /\ SP!ServedInv)
  BY InitTyped, StepTyped, InitServed, StepServed, PTL DEF Spec

\* However handlings, flushes, redeliveries and losses interleave, the store that
\* the workers report to takes steps of ExecutionStore only: it is asked nothing
\* that ExecutionStore has not been checked for.
THEOREM ReportingUsesStore == Spec => [][SP!Next]_SP!storeVars
  BY StoreServed, StoreTakesItsSteps, PTL DEF Spec

\* The archive of an attempt that any number of handlings report is what
\* ExecutionStore promises: pointed to only if there, complete, and served.
THEOREM ReportedArchiveHolds ==
  Spec => [](Store!PointerValid /\ Store!ArchiveSelfContained /\ Store!ArchiveServed)
<1>1. SP!ServedInv => Store!PointerValid /\ Store!ArchiveSelfContained /\ Store!ArchiveServed
  <2> SUFFICES ASSUME SP!ServedInv
               PROVE  Store!PointerValid /\ Store!ArchiveSelfContained /\ Store!ArchiveServed
    OBVIOUS
  <2>1. Store!PointerValid
    BY DEF SP!ServedInv, SP!StoreInv, SP!PointerValid, Store!PointerValid
  <2>2. Store!ArchiveSelfContained
    BY DEF SP!ServedInv, SP!StoreInv, SP!ArchiveSelfContained, Store!ArchiveSelfContained,
       SP!IsTerminal, Store!IsTerminal, SP!TerminalStatuses, Store!TerminalStatuses
  <2>3. Store!ArchiveServed
    BY DEF SP!ServedInv, SP!ImportComplete, Store!ArchiveServed, Store!Archived, SP!Archived
  <2> QED  BY <2>1, <2>2, <2>3
<1> QED  BY StoreServed, <1>1, PTL

\* With pushes of any number of handlings and flushes of one attempt, only a save
\* of a row that has changed meanwhile takes anything away from the row.
THEOREM ReportedLossNeedsRace == Spec => Store!FreshSaveLosesNothing
<1>1. Typed /\ SP!ServedInv /\ [Next]_vars =>
        [\A r \in Requests :
           Store!Saves(r) /\ row[r] = table[body[r].key]
             => Store!Keeps(table'[body[r].key], table[body[r].key])]_Store!storeVars
  <2> SUFFICES ASSUME Typed, SP!ServedInv, [Next]_vars, NEW r \in Requests,
                      Store!Saves(r), row[r] = table[body[r].key]
               PROVE  Store!Keeps(table'[body[r].key], table[body[r].key])
    OBVIOUS
  <2>1. [SP!Next]_SP!storeVars /\ SP!StoreInv /\ SP!Saves(r)
    BY StoreTakesItsSteps DEF SP!ServedInv, SP!Saves, Store!Saves
  <2>2. SP!Keeps(table'[body[r].key], table[body[r].key])
    BY <2>1, StoreLimits, SP!FreshSaveStep
  <2> QED  BY <2>2 DEF SP!Keeps, Store!Keeps, SP!IsTerminal, Store!IsTerminal,
           SP!TerminalStatuses, Store!TerminalStatuses
<1> QED  BY StoreServed, <1>1, PTL DEF Spec, Store!FreshSaveLosesNothing
=============================================================================
