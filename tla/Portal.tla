------------------------------- MODULE Portal -------------------------------
(***************************************************************************)
(* The portal: a page that asks the store for all rows every second and    *)
(* renders the view the address selects.                                   *)
(*                                                                         *)
(* Polls do not wait for each other, so an older answer may replace a      *)
(* newer one.  The detail view of a finished attempt without logs awaits   *)
(* the archive and is written when that answer lands, whatever the address *)
(* selects by then.  A detail view and a list of tests are not written     *)
(* again while a key of what they show stays the same.                     *)
(*                                                                         *)
(* A list of tests shows the test name and the spec file of each row, and  *)
(* its key holds neither.  Both belong to the job, so they differ between  *)
(* two pushes of one id only when two spec files have that id.             *)
(*                                                                         *)
(* The store is external here: any save of a row may happen.  Layout,      *)
(* wording, the order of rows and their grouping by folder are left out.   *)
(***************************************************************************)
EXTENDS Naturals, FiniteSets

CONSTANTS
  Items,        \* execution ids: a run, a test and an attempt
  Runs,         \* run ids that an address may name
  RunOf,        \* the run of each item
  Workers,      \* what a row says of worker and duration
  Files,        \* what a row says of test name and spec file
  FilesOf,      \* those of the jobs that have the id of each item
  Reports,      \* what the store may save of an attempt
  Filters,      \* values of the status filter: sets of statuses
  Polls,        \* GET /executions in flight at once
  Fetches,      \* GETs of the archive in flight at once
  MaxSaves,     \* bound: saves of the store
  MaxClicks,    \* bound: things the user does
  MaxFailures,  \* bound: requests that fail
  None          \* no row, no run, no item, no key

Live     == {"STARTED", "RUNNING"}
Finished == {"COMPLETED", "FAILED"}
Statuses == Live \cup Finished

\* stamp: updatedAt, the number of the save.
Rows   == [status : Statuses, worker : Workers, file : Files, logs : {0, 1},
           stamp : 1 .. MaxSaves]
Tables == {t \in [Items -> Rows \cup {None}] :
             \A i \in Items : t[i] # None => t[i].file \in FilesOf[i]}
Hashes == [run : {None}, item : {None}] \cup [run : Runs, item : Items \cup {None}]

TestsKeys  == Runs \X Filters \X SUBSET (Items \X Statuses \X Workers)
DetailKeys == Items \X Statuses \X Nat \X {0, 1}

ASSUME PortalAssumption ==
  /\ RunOf \in [Items -> Runs]
  /\ FilesOf \in [Items -> SUBSET Files]
  /\ Reports \subseteq [status : Statuses, worker : Workers, file : Files, logs : {0, 1}]
  /\ Filters \subseteq SUBSET Statuses
  /\ Statuses \in Filters
  /\ MaxSaves \in Nat /\ MaxClicks \in Nat /\ MaxFailures \in Nat
  /\ None \notin Runs \cup Items \cup Rows
  /\ None \notin TestsKeys /\ None \notin DetailKeys

VARIABLES
  rows,       \* the store's table
  archived,   \* the attempts whose execution.json has logs
  saves,      \* number of saves so far
  records,    \* the rows the page holds
  poll,       \* poll[p]: a GET /executions
  fetch,      \* fetch[f]: a GET of the archive with what renderDetail holds
  paused, hash, filter,
  view,       \* what els.view shows
  testsKey, detailKey,
  clicks, failures

storeVars  == <<rows, archived, saves>>
viewVars   == <<view, testsKey, detailKey>>
portalVars == <<rows, archived, saves, records, poll, fetch, paused, hash,
                filter, view, testsKey, detailKey, clicks, failures>>

NoPoll  == [step |-> "idle", answer |-> None]
NoFetch == [step |-> "idle", item |-> None, row |-> None, logs |-> 0]

Init ==
  /\ rows = [i \in Items |-> None]
  /\ archived = {}
  /\ saves = 0
  /\ records = [i \in Items |-> None]
  /\ poll = [p \in Polls |-> NoPoll]
  /\ fetch = [f \in Fetches |-> NoFetch]
  /\ paused = FALSE
  /\ hash \in Hashes
  /\ filter = Statuses
  /\ view = [page |-> "blank"]
  /\ testsKey = None
  /\ detailKey = None
  /\ clicks = 0
  /\ failures = 0

-----------------------------------------------------------------------------
(* What the pages show, and the keys that stand for it.                    *)

Listed(recs, run, f) ==
  {i \in Items : recs[i] # None /\ RunOf[i] = run /\ recs[i].status \in f}

\* runStatus, of the statuses of a run's rows.
RunStatus(found) ==
  CASE found = {"STARTED"}         -> "STARTED"
    [] found \cap Live # {} /\ found # {"STARTED"} -> "RUNNING"
    [] found \cap Live = {} /\ "FAILED" \in found -> "FAILED"
    [] OTHER                       -> "COMPLETED"

\* groupedRuns
RunsPage(recs) ==
  [page |-> "runs",
   shown |-> [run \in {r \in Runs : Listed(recs, r, Statuses) # {}} |->
                LET found == Listed(recs, run, Statuses)
                IN  [count |-> Cardinality(found),
                     status |-> RunStatus({recs[i].status : i \in found})]]]

TestsPage(recs, run, f) ==
  [page |-> "tests", run |-> run, filter |-> f,
   shown |-> [i \in Listed(recs, run, f) |->
                [status |-> recs[i].status, worker |-> recs[i].worker,
                 file |-> recs[i].file]]]

\* Mutant: the key leaves the filter and the worker out.
TestsKeyOfRows(recs, run, f) ==
  {<<i, recs[i].status>> : i \in Listed(recs, run, f)}

\* Neither the test name nor the spec file is in the key.
TestsKey(recs, run, f) ==
  <<run, f, {<<i, recs[i].status, recs[i].worker>> : i \in Listed(recs, run, f)}>>

DetailPage(i, row, n) == [page |-> "detail", item |-> i, row |-> row, logs |-> n]

\* Mutant: updatedAt is not in the key.
DetailKeyUnstamped(i, row, n) == <<i, row.status, n>>

DetailKey(i, row, n) == <<i, row.status, row.stamp, n>>

NeedsArchive(row) == row.status \in Finished /\ row.logs = 0

-----------------------------------------------------------------------------
(* Rendering.                                                              *)

RenderRuns(recs) ==
  /\ view' = RunsPage(recs)
  /\ detailKey' = None
  /\ UNCHANGED <<testsKey, fetch>>

\* Mutant: an equal key is enough.
RenderTestsByKey(recs, run, f) ==
  IF testsKey = TestsKey(recs, run, f)
    THEN UNCHANGED <<view, testsKey>>
    ELSE /\ view' = TestsPage(recs, run, f)
         /\ testsKey' = TestsKey(recs, run, f)

RenderTests(recs, run, f) ==
  IF testsKey = TestsKey(recs, run, f) /\ view.page = "tests"
    THEN UNCHANGED <<view, testsKey>>
    ELSE /\ view' = TestsPage(recs, run, f)
         /\ testsKey' = TestsKey(recs, run, f)

\* The end of renderDetail, which in the meantime may have awaited.
WriteDetail(i, row, n) ==
  IF detailKey = DetailKey(i, row, n) /\ view.page = "detail"
    THEN UNCHANGED <<view, detailKey>>
    ELSE /\ view' = DetailPage(i, row, n)
         /\ detailKey' = DetailKey(i, row, n)

RenderDetail(recs, i) ==
  \/ /\ recs[i] = None
     /\ view' = [page |-> "missing"]
     /\ UNCHANGED <<detailKey, fetch>>
  \/ /\ recs[i] # None
     /\ NeedsArchive(recs[i])
     /\ \E f \in Fetches :
          /\ fetch[f].step = "idle"
          /\ fetch' = [fetch EXCEPT ![f] =
               [step |-> "sent", item |-> i, row |-> recs[i], logs |-> 0]]
     /\ UNCHANGED <<view, detailKey>>
  \/ /\ recs[i] # None
     /\ ~ NeedsArchive(recs[i])
     /\ WriteDetail(i, recs[i], recs[i].logs)
     /\ UNCHANGED fetch

\* render: by the address alone, except that a list of tests has a filter.
Render(h, recs) ==
  \/ h.run = None /\ RenderRuns(recs)
  \/ /\ h.run # None /\ h.item = None
     /\ RenderTests(recs, h.run, filter)
     /\ detailKey' = None
     /\ UNCHANGED fetch
  \/ /\ h.item # None
     /\ RenderDetail(recs, h.item)
     /\ testsKey' = None

-----------------------------------------------------------------------------
(* refresh                                                                 *)

\* The timer fires; the request leaves.
Poll(p) ==
  /\ ~ paused
  /\ poll[p].step = "idle"
  /\ poll' = [poll EXCEPT ![p].step = "sent"]
  /\ UNCHANGED <<storeVars, records, fetch, paused, hash, filter, viewVars,
                 clicks, failures>>

\* External: the store reads its table.
AnswerPoll(p) ==
  /\ poll[p].step = "sent"
  /\ poll' = [poll EXCEPT ![p] = [step |-> "answered", answer |-> rows]]
  /\ UNCHANGED <<storeVars, records, fetch, paused, hash, filter, viewVars,
                 clicks, failures>>

\* A poll that fails turns the dot off and changes nothing else.
FailPoll(p) ==
  /\ poll[p].step = "sent"
  /\ failures < MaxFailures
  /\ failures' = failures + 1
  /\ poll' = [poll EXCEPT ![p] = NoPoll]
  /\ UNCHANGED <<storeVars, records, fetch, paused, hash, filter, viewVars, clicks>>

\* The answer replaces the records, also when it is older and when the page is
\* paused by now.
Land(p) ==
  /\ poll[p].step = "answered"
  /\ records' = poll[p].answer
  /\ Render(hash, poll[p].answer)
  /\ poll' = [poll EXCEPT ![p] = NoPoll]
  /\ UNCHANGED <<storeVars, paused, hash, filter, clicks, failures>>

\* External: the archive answers, with logs if it has them; or the request fails.
AnswerFetch(f) ==
  /\ fetch[f].step = "sent"
  /\ \/ /\ fetch' = [fetch EXCEPT ![f].step = "answered",
                       ![f].logs = IF fetch[f].item \in archived THEN 1 ELSE 0]
        /\ UNCHANGED failures
     \/ /\ failures < MaxFailures
        /\ failures' = failures + 1
        /\ fetch' = [fetch EXCEPT ![f].step = "answered"]
  /\ UNCHANGED <<storeVars, records, poll, paused, hash, filter, viewVars, clicks>>

\* renderDetail goes on after its await, with the row it had before.
LandFetch(f) ==
  /\ fetch[f].step = "answered"
  /\ WriteDetail(fetch[f].item, fetch[f].row, fetch[f].logs)
  /\ fetch' = [fetch EXCEPT ![f] = NoFetch]
  /\ UNCHANGED <<storeVars, records, poll, paused, hash, filter, testsKey,
                 clicks, failures>>

-----------------------------------------------------------------------------
(* The user.                                                               *)

Click ==
  /\ clicks < MaxClicks
  /\ clicks' = clicks + 1
  /\ UNCHANGED <<storeVars, records, poll, failures>>

\* Every handler that goes somewhere sets the address and renders.
GoTo(h) == hash' = h /\ Render(h, records) /\ UNCHANGED <<paused, filter>>

ClickRun(run) ==
  /\ view.page = "runs"
  /\ run \in DOMAIN view.shown
  /\ GoTo([run |-> run, item |-> None])

\* The run stays the selected one, whichever run the list is of.
ClickTest(i) ==
  /\ view.page = "tests"
  /\ i \in DOMAIN view.shown
  /\ GoTo([hash EXCEPT !.item = i])

\* Mutant: the way back to the runs forgets the run only.
ClickCrumbKeepsItem(run) ==
  /\ run \in {hash.run, None}
  /\ GoTo([hash EXCEPT !.run = run])

\* The crumb leads to the selected run, or to all of them.
ClickCrumb(run) ==
  /\ run \in {hash.run, None}
  /\ GoTo([run |-> run, item |-> None])

\* Any address typed or gone back to; the event that tells is the same step.
HashChange(h) == GoTo(h)

\* Renders the tests of the selected run, without a look at the address.
ChangeFilter(f) ==
  /\ view.page = "tests"
  /\ filter' = f
  /\ RenderTests(records, hash.run, f)
  /\ UNCHANGED <<fetch, paused, hash, detailKey>>

TogglePause ==
  /\ paused' = ~ paused
  /\ UNCHANGED <<fetch, hash, filter, viewVars>>

User ==
  /\ Click
  /\ \/ \E run \in Runs : ClickRun(run)
     \/ \E i \in Items : ClickTest(i)
     \/ \E run \in Runs \cup {None} : ClickCrumb(run)
     \/ \E h \in Hashes : HashChange(h)
     \/ \E f \in Filters : ChangeFilter(f)
     \/ TogglePause

-----------------------------------------------------------------------------
(* External: the store.                                                    *)

Save(i) ==
  /\ saves < MaxSaves
  /\ saves' = saves + 1
  /\ \E m \in Reports :
       /\ m.file \in FilesOf[i]
       /\ rows' = [rows EXCEPT ![i] =
            [status |-> m.status, worker |-> m.worker, file |-> m.file,
             logs |-> m.logs, stamp |-> saves + 1]]
  /\ UNCHANGED <<archived, records, poll, fetch, paused, hash, filter, viewVars,
                 clicks, failures>>

Archive(i) ==
  /\ rows[i] # None
  /\ rows[i].status \in Finished
  /\ archived' = archived \cup {i}
  /\ UNCHANGED <<rows, saves, records, poll, fetch, paused, hash, filter, viewVars,
                 clicks, failures>>

-----------------------------------------------------------------------------
Next ==
  \/ \E p \in Polls : Poll(p) \/ AnswerPoll(p) \/ FailPoll(p) \/ Land(p)
  \/ \E f \in Fetches : AnswerFetch(f) \/ LandFetch(f)
  \/ User
  \/ \E i \in Items : Save(i) \/ Archive(i)

\* The timer keeps firing, requests are answered and answers are handled.
Fairness ==
  /\ WF_portalVars(\E p \in Polls : Poll(p))
  /\ \A p \in Polls : WF_portalVars(AnswerPoll(p)) /\ WF_portalVars(Land(p))
  /\ \A f \in Fetches : WF_portalVars(AnswerFetch(f)) /\ WF_portalVars(LandFetch(f))

Spec == Init /\ [][Next]_portalVars /\ Fairness

-----------------------------------------------------------------------------
(* Properties.                                                             *)

TypeOK ==
  /\ rows \in Tables
  /\ archived \in SUBSET Items
  /\ saves \in 0 .. MaxSaves
  /\ records \in Tables
  /\ poll \in [Polls -> {NoPoll} \cup [step : {"sent"}, answer : {None}]
                          \cup [step : {"answered"}, answer : Tables]]
  /\ fetch \in [Fetches -> {NoFetch} \cup
       [step : {"sent", "answered"}, item : Items, row : Rows, logs : {0, 1}]]
  /\ paused \in BOOLEAN
  /\ hash \in Hashes
  /\ filter \in Filters
  /\ clicks \in 0 .. MaxClicks
  /\ failures \in 0 .. MaxFailures

\* The page an address selects when the rows are recs and the archive has the
\* logs of the attempts in known.
Selected(h, recs, f, known) ==
  IF h.run = None THEN RunsPage(recs)
  ELSE IF h.item = None THEN TestsPage(recs, h.run, f)
  ELSE IF recs[h.item] = None THEN [page |-> "missing"]
  ELSE DetailPage(h.item, recs[h.item],
         IF NeedsArchive(recs[h.item]) /\ h.item \in known THEN 1 ELSE recs[h.item].logs)

\* Two jobs have the id of i: two spec files of one run that share it.
Shared(i) == \E a, b \in FilesOf[i] : a # b

\* The same page, except that a list of tests may name the other spec file in a
\* row that two of them share.
Agrees(shown, page) ==
  \/ shown = page
  \/ /\ shown.page = "tests" /\ page.page = "tests"
     /\ shown.run = page.run /\ shown.filter = page.filter
     /\ DOMAIN shown.shown = DOMAIN page.shown
     /\ \A i \in DOMAIN page.shown :
          /\ shown.shown[i].status = page.shown[i].status
          /\ shown.shown[i].worker = page.shown[i].worker
          /\ shown.shown[i].file = page.shown[i].file \/ Shared(i)

\* While nothing is awaited from the archive, a view other than the selected one
\* is a detail view: late answers mislead, skipped renders do not.
OnlyDetailsAreLate ==
  (\A f \in Fetches : fetch[f].step = "idle") =>
    \/ view.page \in {"blank", "detail"}
    \/ Agrees(view, Selected(hash, records, filter, {}))

\* The step handles an answer to a poll.
Refreshed == \E p \in Polls : poll[p].step = "answered" /\ poll'[p].step = "idle"

\* A render that asks nothing of the archive leaves the selected page, whether
\* it writes the view or skips that because of an equal key.  What the key lacks
\* shows only where two spec files share an id.
SkippedRenderIsCurrent ==
  [][/\ (hash' # hash \/ Refreshed) /\ fetch' = fetch
        => Agrees(view', Selected(hash', records', filter', {}))
     /\ filter' # filter =>
          Agrees(view', TestsPage(records', hash'.run, filter'))]_portalVars

\* Once the user and the store leave it alone, a page that is not paused comes
\* to show what the store has, and stays so, in whatever order the answers of
\* overlapping requests come.
ViewSettles == <>[](paused \/ Agrees(view, Selected(hash, rows, filter, archived)))
=============================================================================
