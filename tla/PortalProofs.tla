---------------------------- MODULE PortalProofs ----------------------------
(* Theorems about Portal: a skipped render shows what a write would have   *)
(* shown, because a key stands for all that its page shows, apart from the *)
(* file of a row that two spec files share.                                *)
EXTENDS Portal, TLAPS

-----------------------------------------------------------------------------
(* Pages and keys.                                                         *)

LEMMA PageNames ==
  ASSUME NEW recs, NEW run, NEW f, NEW i, NEW row, NEW n
  PROVE  /\ RunsPage(recs).page = "runs"
         /\ TestsPage(recs, run, f).page = "tests"
         /\ DetailPage(i, row, n).page = "detail"
         /\ [page |-> "missing"].page = "missing"
         /\ [page |-> "blank"].page = "blank"
<1>1. RunsPage(recs).page = "runs"
  BY Zenon DEF RunsPage
<1>2. TestsPage(recs, run, f).page = "tests"
  BY Zenon DEF TestsPage
<1>3. DetailPage(i, row, n).page = "detail"
  BY DEF DetailPage
<1> QED  BY <1>1, <1>2, <1>3

LEMMA ListedItems ==
  ASSUME NEW recs \in Tables, NEW run, NEW f
  PROVE  /\ Listed(recs, run, f) \subseteq Items
         /\ \A i \in Listed(recs, run, f) : recs[i] \in Rows
  BY DEF Listed, Tables

LEMMA AgreesReflexive == \A p : Agrees(p, p)
  BY DEF Agrees

\* Pages that agree are of one kind; other than lists of tests, they are equal.
LEMMA AgreesOnPage ==
  ASSUME NEW p, NEW q, Agrees(p, q)
  PROVE  p.page = q.page /\ (q.page # "tests" => p = q)
  BY DEF Agrees

LEMMA KeysAreKeys ==
  /\ \A recs \in Tables, run \in Runs, f \in Filters : TestsKey(recs, run, f) # None
  /\ \A i \in Items, row \in Rows, n \in {0, 1} : DetailKey(i, row, n) # None
<1>1. ASSUME NEW recs \in Tables, NEW run \in Runs, NEW f \in Filters
      PROVE  TestsKey(recs, run, f) # None
  <2> DEFINE S == {<<i, recs[i].status, recs[i].worker>> : i \in Listed(recs, run, f)}
  <2>1. S \subseteq Items \X Statuses \X Workers
    BY ListedItems DEF Rows
  <2>2. TestsKey(recs, run, f) \in TestsKeys
    <3>1. TestsKey(recs, run, f) = <<run, f, S>>
      BY DEF TestsKey
    <3> HIDE DEF S
    <3> QED  BY <2>1, <3>1 DEF TestsKeys
  <2> QED  BY <2>2, PortalAssumption
<1>2. ASSUME NEW i \in Items, NEW row \in Rows, NEW n \in {0, 1}
      PROVE  DetailKey(i, row, n) # None
  <2>1. row.status \in Statuses /\ row.stamp \in Nat
    BY PortalAssumption DEF Rows
  <2>2. DetailKey(i, row, n) \in DetailKeys
    BY <2>1 DEF DetailKey, DetailKeys
  <2> QED  BY <2>2, PortalAssumption
<1> QED  BY <1>1, <1>2

\* The key of a list of tests stands for the whole page, but for shared files.
LEMMA TestsKeyTellsPage ==
  ASSUME NEW r1 \in Tables, NEW a \in Runs, NEW f \in Filters,
         NEW r2 \in Tables, NEW b \in Runs, NEW g \in Filters,
         TestsKey(r1, a, f) = TestsKey(r2, b, g)
  PROVE  Agrees(TestsPage(r1, a, f), TestsPage(r2, b, g))
<1> DEFINE L1 == Listed(r1, a, f)
           L2 == Listed(r2, b, g)
           S1 == {<<i, r1[i].status, r1[i].worker>> : i \in L1}
           S2 == {<<i, r2[i].status, r2[i].worker>> : i \in L2}
           P1 == TestsPage(r1, a, f)
           P2 == TestsPage(r2, b, g)
<1>1. a = b /\ f = g /\ S1 = S2
  BY DEF TestsKey
<1>2. \A i \in L1 : i \in L2 /\ r1[i].status = r2[i].status /\ r1[i].worker = r2[i].worker
  <2> TAKE i \in L1
  <2>1. <<i, r1[i].status, r1[i].worker>> \in S2
    BY <1>1
  <2> QED  BY <2>1
<1>3. \A i \in L2 : i \in L1
  <2> TAKE i \in L2
  <2>1. <<i, r2[i].status, r2[i].worker>> \in S1
    BY <1>1
  <2> QED  BY <2>1
<1>4. L1 = L2
  BY <1>2, <1>3
<1>5. \A i \in L1 : r1[i].file = r2[i].file \/ Shared(i)
  <2> TAKE i \in L1
  <2>1. i \in Items /\ r1[i] # None /\ r2[i] # None
    BY <1>4 DEF Listed
  <2>2. r1[i].file \in FilesOf[i] /\ r2[i].file \in FilesOf[i]
    BY <2>1 DEF Tables
  <2> QED  BY <2>2 DEF Shared
<1>6. /\ P1.page = "tests" /\ P1.run = a /\ P1.filter = f
      /\ P2.page = "tests" /\ P2.run = b /\ P2.filter = g
      /\ P1.shown = [i \in L1 |-> [status |-> r1[i].status, worker |-> r1[i].worker,
                                   file |-> r1[i].file]]
      /\ P2.shown = [i \in L2 |-> [status |-> r2[i].status, worker |-> r2[i].worker,
                                   file |-> r2[i].file]]
  BY DEF TestsPage
<1> HIDE DEF L1, L2, S1, S2, P1, P2
<1>7. \A i \in L2 : /\ P1.shown[i].status = P2.shown[i].status
                    /\ P1.shown[i].worker = P2.shown[i].worker
                    /\ P1.shown[i].file = P2.shown[i].file \/ Shared(i)
  BY <1>2, <1>4, <1>5, <1>6
<1>8. DOMAIN P1.shown = L1 /\ DOMAIN P2.shown = L2
  BY <1>6
<1>9. Agrees(P1, P2)
  BY <1>1, <1>4, <1>6, <1>7, <1>8 DEF Agrees
<1> QED  BY <1>9 DEF P1, P2

-----------------------------------------------------------------------------
(* The invariant.                                                          *)

\* What the view may be, and what the keys say of it.
ViewOK ==
  \/ view = [page |-> "blank"]
  \/ view = [page |-> "missing"]
  \/ \E recs \in Tables : view = RunsPage(recs)
  \/ \E recs \in Tables, run \in Runs, f \in Filters :
       /\ view = TestsPage(recs, run, f)
       /\ testsKey = None \/ testsKey = TestsKey(recs, run, f)
  \/ \E i \in Items, row \in Rows, n \in {0, 1} :
       /\ view = DetailPage(i, row, n)
       /\ detailKey = None \/ detailKey = DetailKey(i, row, n)

\* A list of tests is shown only while a run is selected.
ListHasRun == view.page = "tests" => hash.run # None

\* The row of i is somewhere: in the store, in the page or under way.
Held(i, row) ==
  \/ rows[i] = row
  \/ records[i] = row
  \/ \E p \in Polls : poll[p].step = "answered" /\ poll[p].answer[i] = row
  \/ \E f \in Fetches : fetch[f].step # "idle" /\ fetch[f].item = i /\ fetch[f].row = row
  \/ view.page = "detail" /\ view.item = i /\ view.row = row

\* A stamp names one version of a row.
StampsUnique ==
  \A i \in Items : \A x, y \in Rows :
    /\ Held(i, x) => x.stamp <= saves
    /\ Held(i, x) /\ Held(i, y) /\ x.stamp = y.stamp => x = y

IInv == TypeOK /\ ViewOK /\ ListHasRun /\ StampsUnique

LEMMA InitIInv == Init => IInv
<1> SUFFICES ASSUME Init PROVE IInv
  OBVIOUS
<1>1. TypeOK
  <2>1. rows \in Tables /\ records \in Tables
    BY DEF Init, Tables
  <2>2. poll \in [Polls -> {NoPoll}] /\ fetch \in [Fetches -> {NoFetch}]
    BY DEF Init
  <2>3. archived \in SUBSET Items /\ hash \in Hashes /\ filter \in Filters
    BY PortalAssumption DEF Init
  <2>4. saves \in 0 .. MaxSaves /\ clicks \in 0 .. MaxClicks /\ failures \in 0 .. MaxFailures
    <3>1. saves = 0 /\ clicks = 0 /\ failures = 0
      BY DEF Init
    <3>2. MaxSaves \in Nat /\ MaxClicks \in Nat /\ MaxFailures \in Nat
      BY PortalAssumption
    <3> QED  BY <3>1, <3>2
  <2>5. paused \in BOOLEAN
    BY DEF Init
  <2> QED  BY <2>1, <2>2, <2>3, <2>4, <2>5 DEF TypeOK
<1>2. ViewOK
  BY DEF Init, ViewOK
<1>3. view.page = "blank"
  BY DEF Init
<1>4. \A i \in Items, row \in Rows : ~ Held(i, row)
  BY <1>3, PortalAssumption DEF Init, Held, NoPoll, NoFetch
<1> QED  BY <1>1, <1>2, <1>3, <1>4 DEF IInv, ListHasRun, StampsUnique

\* ViewOK read by the name of the page.
LEMMA ViewByPage ==
  ASSUME ViewOK
  PROVE  /\ view.page = "tests" =>
              \E recs \in Tables, run \in Runs, f \in Filters :
                /\ view = TestsPage(recs, run, f)
                /\ testsKey = None \/ testsKey = TestsKey(recs, run, f)
         /\ view.page = "detail" =>
              \E i \in Items, row \in Rows, n \in {0, 1} :
                /\ view = DetailPage(i, row, n)
                /\ detailKey = None \/ detailKey = DetailKey(i, row, n)
<1>1. CASE view = [page |-> "blank"] \/ view = [page |-> "missing"]
  BY <1>1
<1>2. CASE \E recs \in Tables : view = RunsPage(recs)
  <2>1. view.page = "runs"
    BY <1>2, PageNames
  <2> QED  BY <2>1
<1>3. CASE \E recs \in Tables, run \in Runs, f \in Filters :
             /\ view = TestsPage(recs, run, f)
             /\ testsKey = None \/ testsKey = TestsKey(recs, run, f)
  <2>1. view.page = "tests"
    BY <1>3, PageNames
  <2> QED  BY <1>3, <2>1
<1>4. CASE \E i \in Items, row \in Rows, n \in {0, 1} :
             /\ view = DetailPage(i, row, n)
             /\ detailKey = None \/ detailKey = DetailKey(i, row, n)
  <2>1. view.page = "detail"
    BY <1>4, PageNames
  <2> QED  BY <1>4, <2>1
<1> QED  BY <1>1, <1>2, <1>3, <1>4 DEF ViewOK

-----------------------------------------------------------------------------
(* What one render does to the view.                                       *)

\* A list of tests is the one asked for, written or not, and has its key.
LEMMA RenderTestsShows ==
  ASSUME ViewOK, NEW recs \in Tables, NEW run \in Runs, NEW f \in Filters,
         RenderTests(recs, run, f)
  PROVE  /\ Agrees(view', TestsPage(recs, run, f))
         /\ \E r \in Tables, a \in Runs, g \in Filters :
              view' = TestsPage(r, a, g) /\ testsKey' = TestsKey(r, a, g)
<1>1. CASE testsKey = TestsKey(recs, run, f) /\ view.page = "tests"
  <2>1. PICK r \in Tables, a \in Runs, g \in Filters :
          /\ view = TestsPage(r, a, g)
          /\ testsKey = None \/ testsKey = TestsKey(r, a, g)
    BY <1>1, ViewByPage
  <2>2. testsKey # None
    BY <1>1, KeysAreKeys
  <2>3. Agrees(TestsPage(r, a, g), TestsPage(recs, run, f))
    BY <1>1, <2>1, <2>2, TestsKeyTellsPage
  <2>4. view' = view /\ testsKey' = testsKey
    BY <1>1 DEF RenderTests
  <2> QED  BY <2>1, <2>2, <2>3, <2>4
<1>2. CASE ~ (testsKey = TestsKey(recs, run, f) /\ view.page = "tests")
  <2>1. view' = TestsPage(recs, run, f) /\ testsKey' = TestsKey(recs, run, f)
    BY <1>2 DEF RenderTests
  <2> QED  BY <2>1, AgreesReflexive
<1> QED  BY <1>1, <1>2

\* A detail view is the one asked for, written or not, if the row is one that
\* its stamp names.
LEMMA WriteDetailShows ==
  ASSUME ViewOK, StampsUnique, NEW i \in Items, NEW row \in Rows, Held(i, row),
         NEW n \in {0, 1}, WriteDetail(i, row, n)
  PROVE  view' = DetailPage(i, row, n) /\ detailKey' = DetailKey(i, row, n)
<1>1. CASE detailKey = DetailKey(i, row, n) /\ view.page = "detail"
  <2>1. PICK j \in Items, r \in Rows, m \in {0, 1} :
          /\ view = DetailPage(j, r, m)
          /\ detailKey = None \/ detailKey = DetailKey(j, r, m)
    BY <1>1, ViewByPage
  <2>2. DetailKey(i, row, n) = DetailKey(j, r, m)
    BY <1>1, <2>1, KeysAreKeys
  <2>3. i = j /\ row.stamp = r.stamp /\ n = m
    BY <2>2 DEF DetailKey
  <2>4. Held(j, r)
    BY <1>1, <2>1 DEF Held, DetailPage
  <2>5. row = r
    BY <2>3, <2>4 DEF StampsUnique
  <2>6. view' = view /\ detailKey' = detailKey
    BY <1>1 DEF WriteDetail
  <2> QED  BY <1>1, <2>1, <2>3, <2>5, <2>6
<1>2. CASE ~ (detailKey = DetailKey(i, row, n) /\ view.page = "detail")
  BY <1>2 DEF WriteDetail
<1> QED  BY <1>1, <1>2

\* A render of rows that are held leaves a proper view; one that asks nothing of
\* the archive leaves the selected page; one that does keeps the view.
LEMMA RenderShows ==
  ASSUME TypeOK, ViewOK, StampsUnique, NEW h \in Hashes, NEW recs \in Tables,
         \A i \in Items : recs[i] # None => Held(i, recs[i]),
         Render(h, recs)
  PROVE  /\ ViewOK'
         /\ \/ Agrees(view', Selected(h, recs, filter, {})) /\ fetch' = fetch
            \/ /\ view' = view
               /\ h.run # None
               /\ h.item \in Items /\ recs[h.item] \in Rows
               /\ \E f \in Fetches :
                    /\ fetch[f].step = "idle"
                    /\ fetch' = [fetch EXCEPT ![f] = [step |-> "sent",
                          item |-> h.item, row |-> recs[h.item], logs |-> 0]]
<1>0. filter \in Filters
  BY DEF TypeOK
<1>1. CASE h.run = None /\ RenderRuns(recs)
  BY <1>1, AgreesReflexive DEF RenderRuns, ViewOK, Selected
<1>2. CASE /\ h.run # None /\ h.item = None
           /\ RenderTests(recs, h.run, filter)
           /\ detailKey' = None
           /\ UNCHANGED fetch
  <2>1. h.run \in Runs
    BY <1>2 DEF Hashes
  <2>2. /\ Agrees(view', TestsPage(recs, h.run, filter))
        /\ \E r \in Tables, a \in Runs, g \in Filters :
             view' = TestsPage(r, a, g) /\ testsKey' = TestsKey(r, a, g)
    BY <1>0, <1>2, <2>1, RenderTestsShows
  <2>3. ViewOK'
    BY <2>2 DEF ViewOK
  <2> QED  BY <1>2, <2>2, <2>3 DEF Selected
<1>3. CASE h.item # None /\ RenderDetail(recs, h.item) /\ testsKey' = None
  <2>1. h.item \in Items /\ h.run # None
    BY <1>3, PortalAssumption DEF Hashes
  <2>2. CASE /\ recs[h.item] = None
             /\ view' = [page |-> "missing"]
             /\ UNCHANGED <<detailKey, fetch>>
    BY <1>3, <2>1, <2>2, AgreesReflexive DEF ViewOK, Selected
  <2>3. CASE /\ recs[h.item] # None
             /\ \E f \in Fetches :
                  /\ fetch[f].step = "idle"
                  /\ fetch' = [fetch EXCEPT ![f] = [step |-> "sent",
                        item |-> h.item, row |-> recs[h.item], logs |-> 0]]
             /\ UNCHANGED <<view, detailKey>>
    <3>1. ViewOK'
      BY <1>3, <2>3 DEF ViewOK
    <3>2. recs[h.item] \in Rows
      BY <2>1, <2>3 DEF Tables
    <3> QED  BY <2>1, <2>3, <3>1, <3>2
  <2>4. CASE /\ recs[h.item] # None
             /\ WriteDetail(h.item, recs[h.item], recs[h.item].logs)
             /\ UNCHANGED fetch
    <3>1. recs[h.item] \in Rows /\ recs[h.item].logs \in {0, 1} /\ Held(h.item, recs[h.item])
      BY <2>1, <2>4 DEF Tables, Rows
    <3>2. /\ view' = DetailPage(h.item, recs[h.item], recs[h.item].logs)
          /\ detailKey' = DetailKey(h.item, recs[h.item], recs[h.item].logs)
      BY <2>1, <2>4, <3>1, WriteDetailShows
    <3>3. ViewOK'
      BY <2>1, <3>1, <3>2 DEF ViewOK
    <3>4. view' = Selected(h, recs, filter, {})
      BY <1>3, <2>1, <2>4, <3>2 DEF Selected
    <3> QED  BY <2>4, <3>3, <3>4, AgreesReflexive
  <2> QED  BY <1>3, <2>2, <2>3, <2>4 DEF RenderDetail
<1> QED  BY <1>1, <1>2, <1>3 DEF Render

-----------------------------------------------------------------------------
(* What one render does to the invariant.                                  *)

\* The conclusion of RenderShows on the view and the requests for the archive.
Shows(h, recs) ==
  \/ Agrees(view', Selected(h, recs, filter, {})) /\ fetch' = fetch
  \/ /\ view' = view
     /\ h.run # None
     /\ h.item \in Items /\ recs[h.item] \in Rows
     /\ \E f \in Fetches :
          /\ fetch[f].step = "idle"
          /\ fetch' = [fetch EXCEPT ![f] = [step |-> "sent",
                item |-> h.item, row |-> recs[h.item], logs |-> 0]]

LEMMA SelectedPage ==
  ASSUME NEW h \in Hashes, NEW recs \in Tables, NEW f
  PROVE  LET page == Selected(h, recs, f, {}) IN
         /\ page.page = "tests" => h.run # None /\ h.item = None
         /\ page.page = "detail" =>
              /\ h.run # None /\ h.item \in Items /\ recs[h.item] \in Rows
              /\ page.item = h.item /\ page.row = recs[h.item]
         /\ page.page \in {"runs", "tests", "missing", "detail"}
<1> DEFINE page == Selected(h, recs, f, {})
<1>1. CASE h.run = None
  <2>1. page = RunsPage(recs)
    BY <1>1 DEF Selected
  <2>2. page.page = "runs"
    BY <2>1, PageNames
  <2> QED  BY <2>2
<1>2. CASE h.run # None /\ h.item = None
  <2>1. page = TestsPage(recs, h.run, f)
    BY <1>2 DEF Selected
  <2>2. page.page = "tests"
    BY <2>1, PageNames
  <2> QED  BY <1>2, <2>1, <2>2
<1>3. CASE h.run # None /\ h.item # None /\ recs[h.item] = None
  <2>1. page = [page |-> "missing"]
    BY <1>3 DEF Selected
  <2> QED  BY <2>1
<1>4. CASE h.run # None /\ h.item # None /\ recs[h.item] # None
  <2>1. page = DetailPage(h.item, recs[h.item], recs[h.item].logs)
    BY <1>4 DEF Selected
  <2>2. page.page = "detail" /\ page.item = h.item /\ page.row = recs[h.item]
    BY <2>1 DEF DetailPage
  <2>3. h.item \in Items /\ recs[h.item] \in Rows
    BY <1>4 DEF Hashes, Tables
  <2> QED  BY <1>4, <2>2, <2>3
<1> QED  BY <1>1, <1>2, <1>3, <1>4

LEMMA FetchTyped ==
  ASSUME TypeOK, NEW h, NEW recs, Shows(h, recs)
  PROVE  fetch' \in [Fetches -> {NoFetch} \cup
           [step : {"sent", "answered"}, item : Items, row : Rows, logs : {0, 1}]]
<1>1. CASE fetch' = fetch
  BY <1>1 DEF TypeOK
<1>2. ASSUME h.item \in Items, recs[h.item] \in Rows, NEW f \in Fetches,
             fetch' = [fetch EXCEPT ![f] = [step |-> "sent",
                         item |-> h.item, row |-> recs[h.item], logs |-> 0]]
      PROVE  fetch' \in [Fetches -> {NoFetch} \cup
               [step : {"sent", "answered"}, item : Items, row : Rows, logs : {0, 1}]]
  BY <1>2 DEF TypeOK
<1> QED  BY <1>1, <1>2 DEF Shows

LEMMA RenderKeepsHeld ==
  ASSUME TypeOK, NEW h \in Hashes, NEW recs \in Tables,
         \A j \in Items : recs[j] # None => Held(j, recs[j]),
         Shows(h, recs),
         rows' = rows, records' = recs,
         \A p \in Polls : poll'[p].step = "answered" => poll'[p] = poll[p],
         NEW i \in Items, NEW x \in Rows, Held(i, x)'
  PROVE  Held(i, x)
<1>0. x # None
  BY PortalAssumption
<1>1. CASE rows'[i] = x
  BY <1>1 DEF Held
<1>2. CASE records'[i] = x
  BY <1>0, <1>2
<1>3. ASSUME NEW p \in Polls, poll'[p].step = "answered", poll'[p].answer[i] = x
      PROVE  Held(i, x)
  BY <1>3 DEF Held
<1>4. ASSUME NEW f \in Fetches, fetch'[f].step # "idle", fetch'[f].item = i, fetch'[f].row = x
      PROVE  Held(i, x)
  <2>1. CASE fetch'[f] = fetch[f]
    BY <1>4, <2>1 DEF Held
  <2>2. CASE fetch'[f] # fetch[f]
    <3>1. fetch'[f].item = h.item /\ fetch'[f].row = recs[h.item] /\ recs[h.item] \in Rows
      BY <2>2 DEF Shows, TypeOK
    <3> QED  BY <1>0, <1>4, <3>1
  <2> QED  BY <2>1, <2>2
<1>5. CASE view'.page = "detail" /\ view'.item = i /\ view'.row = x
  <2>1. CASE view' = view
    BY <1>5, <2>1 DEF Held
  <2>2. CASE Agrees(view', Selected(h, recs, filter, {}))
    <3>1. view' = Selected(h, recs, filter, {})
      BY <1>5, <2>2, AgreesOnPage
    <3>2. view'.item = h.item /\ view'.row = recs[h.item]
      BY <1>5, <3>1, SelectedPage
    <3> QED  BY <1>0, <1>5, <3>2
  <2> QED  BY <2>1, <2>2 DEF Shows
<1> QED  BY <1>1, <1>2, <1>3, <1>4, <1>5 DEF Held

LEMMA HeldShrinks ==
  ASSUME StampsUnique, saves' = saves,
         \A i \in Items, x \in Rows : Held(i, x)' => Held(i, x)
  PROVE  StampsUnique'
  BY DEF StampsUnique

LEMMA RecordsHeld ==
  /\ \A i \in Items : records[i] # None => Held(i, records[i])
  /\ \A p \in Polls : poll[p].step = "answered" =>
       \A i \in Items : poll[p].answer[i] # None => Held(i, poll[p].answer[i])
  BY DEF Held

-----------------------------------------------------------------------------
(* Each action keeps the invariant.                                        *)

\* The actions that leave the view, its keys and the address alone.
LEMMA ViewUnchanged ==
  ASSUME IInv, UNCHANGED viewVars, UNCHANGED hash
  PROVE  ViewOK' /\ ListHasRun'
<1>1. view' = view /\ testsKey' = testsKey /\ detailKey' = detailKey /\ hash' = hash
  BY DEF viewVars
<1>2. ViewOK'
  BY <1>1 DEF IInv, ViewOK
<1>3. ListHasRun'
  BY <1>1 DEF IInv, ListHasRun
<1> QED  BY <1>2, <1>3

PollSet == {NoPoll} \cup [step : {"sent"}, answer : {None}]
             \cup [step : {"answered"}, answer : Tables]
FetchSet == {NoFetch} \cup
  [step : {"sent", "answered"}, item : Items, row : Rows, logs : {0, 1}]

LEMMA PollTypes ==
  ASSUME TypeOK, NEW p \in Polls
  PROVE  /\ poll \in [Polls -> PollSet]
         /\ poll[p].step = "idle" => [poll[p] EXCEPT !.step = "sent"] \in PollSet
         /\ poll[p].step = "answered" => poll[p].answer \in Tables
         /\ [step |-> "answered", answer |-> rows] \in PollSet
  BY DEF TypeOK, PollSet, NoPoll

LEMMA PollStep ==
  ASSUME IInv, NEW p \in Polls, Poll(p) \/ AnswerPoll(p) \/ FailPoll(p)
  PROVE  IInv'
<1>0. /\ UNCHANGED <<storeVars, records, fetch, paused, hash, filter, viewVars, clicks>>
      /\ poll' \in [Polls -> PollSet]
  BY PollTypes DEF IInv, Poll, AnswerPoll, FailPoll, PollSet
<1>1. failures' \in 0 .. MaxFailures
  BY PortalAssumption DEF IInv, TypeOK, Poll, AnswerPoll, FailPoll
<1>2. TypeOK'
  BY <1>0, <1>1 DEF IInv, TypeOK, storeVars, PollSet
<1>3. ASSUME NEW i \in Items, NEW x \in Rows, Held(i, x)'
      PROVE  Held(i, x)
  <2>1. ASSUME NEW q \in Polls, poll'[q].step = "answered", poll'[q].answer[i] = x
        PROVE  Held(i, x)
    <3>1. CASE poll'[q] = poll[q]
      BY <2>1, <3>1 DEF Held
    <3>2. CASE AnswerPoll(p) /\ q = p
      <4>1. poll'[q].answer = rows
        BY <3>2 DEF AnswerPoll, IInv, TypeOK
      <4> QED  BY <2>1, <4>1 DEF Held
    <3>3. CASE (Poll(p) \/ FailPoll(p)) /\ q = p
      <4>1. poll'[q].step # "answered"
        BY <3>3 DEF Poll, FailPoll, IInv, TypeOK, NoPoll
      <4> QED  BY <2>1, <4>1
    <3>4. q # p => poll'[q] = poll[q]
      BY DEF Poll, AnswerPoll, FailPoll, IInv, TypeOK
    <3> QED  BY <3>1, <3>2, <3>3, <3>4
  <2> QED  BY <1>0, <1>3, <2>1 DEF Held, storeVars, viewVars
<1>4. StampsUnique'
  BY <1>0, <1>3, HeldShrinks DEF IInv, storeVars
<1> QED  BY <1>0, <1>2, <1>4, ViewUnchanged DEF IInv

LEMMA AnswerFetchStep ==
  ASSUME IInv, NEW f \in Fetches, AnswerFetch(f)
  PROVE  IInv'
<1>0. UNCHANGED <<storeVars, records, poll, paused, hash, filter, viewVars, clicks>>
  BY DEF AnswerFetch
<1>1. failures' \in 0 .. MaxFailures
  BY PortalAssumption DEF IInv, TypeOK, AnswerFetch
<1>2. /\ fetch \in [Fetches -> FetchSet]
      /\ fetch[f] \in [step : {"sent", "answered"}, item : Items, row : Rows, logs : {0, 1}]
  BY DEF IInv, TypeOK, FetchSet, AnswerFetch, NoFetch
<1>3. PICK n \in {0, 1} : fetch' = [fetch EXCEPT ![f] =
        [step |-> "answered", item |-> fetch[f].item, row |-> fetch[f].row, logs |-> n]]
  BY <1>2 DEF AnswerFetch
<1>4. fetch' \in [Fetches -> FetchSet]
  BY <1>2, <1>3 DEF FetchSet
<1>5. TypeOK'
  BY <1>0, <1>1, <1>4 DEF IInv, TypeOK, storeVars, FetchSet
<1>6. \A i \in Items, x \in Rows : Held(i, x)' => Held(i, x)
  <2>1. \A g \in Fetches : /\ fetch'[g].item = fetch[g].item /\ fetch'[g].row = fetch[g].row
                           /\ fetch'[g].step # "idle" => fetch[g].step # "idle"
    BY <1>2, <1>3
  <2> QED  BY <1>0, <2>1 DEF Held, storeVars, viewVars
<1>7. StampsUnique'
  BY <1>0, <1>6, HeldShrinks DEF IInv, storeVars
<1> QED  BY <1>0, <1>5, <1>7, ViewUnchanged DEF IInv

LEMMA LandStep ==
  ASSUME IInv, NEW p \in Polls, Land(p)
  PROVE  IInv' /\ Shows(hash, poll[p].answer)
<1> DEFINE recs == poll[p].answer
<1>0. /\ records' = recs /\ Render(hash, recs)
      /\ poll' = [poll EXCEPT ![p] = NoPoll]
      /\ UNCHANGED <<storeVars, paused, hash, filter, clicks, failures>>
  BY DEF Land
<1>1. /\ recs \in Tables /\ hash \in Hashes /\ poll \in [Polls -> PollSet]
      /\ \A i \in Items : recs[i] # None => Held(i, recs[i])
  BY PollTypes, RecordsHeld DEF Land, IInv, TypeOK
<1> HIDE DEF recs
<1>2. ViewOK' /\ Shows(hash, recs)
  BY <1>0, <1>1, RenderShows DEF IInv, Shows
<1>3. poll' \in [Polls -> PollSet]
  BY <1>0, <1>1 DEF PollSet
<1>4. TypeOK'
  BY <1>0, <1>1, <1>2, <1>3, FetchTyped DEF IInv, TypeOK, storeVars, PollSet
<1>5. ListHasRun'
  <2>1. CASE Agrees(view', Selected(hash, recs, filter, {}))
    <3>1. view'.page = Selected(hash, recs, filter, {}).page
      BY <2>1, AgreesOnPage
    <3> QED  BY <1>0, <1>1, <3>1, SelectedPage DEF ListHasRun
  <2>2. CASE view' = view
    BY <1>0, <2>2 DEF IInv, ListHasRun
  <2> QED  BY <1>2, <2>1, <2>2 DEF Shows
<1>6. \A q \in Polls : poll'[q].step = "answered" => poll'[q] = poll[q]
  BY <1>0, <1>1 DEF NoPoll
<1>7. \A i \in Items, x \in Rows : Held(i, x)' => Held(i, x)
  BY <1>0, <1>1, <1>2, <1>6, RenderKeepsHeld DEF IInv, storeVars
<1>8. StampsUnique'
  BY <1>0, <1>7, HeldShrinks DEF IInv, storeVars
<1> QED  BY <1>2, <1>4, <1>5, <1>8 DEF IInv, recs

LEMMA LandFetchStep ==
  ASSUME IInv, NEW f \in Fetches, LandFetch(f)
  PROVE  IInv' /\ view'.page = "detail"
<1> DEFINE i == fetch[f].item
           row == fetch[f].row
           n == fetch[f].logs
<1>0. /\ WriteDetail(i, row, n)
      /\ fetch' = [fetch EXCEPT ![f] = NoFetch]
      /\ UNCHANGED <<storeVars, records, poll, paused, hash, filter, testsKey, clicks, failures>>
  BY DEF LandFetch
<1>1. i \in Items /\ row \in Rows /\ n \in {0, 1} /\ fetch \in [Fetches -> FetchSet]
  BY DEF LandFetch, IInv, TypeOK, NoFetch, FetchSet
<1>2. Held(i, row)
  BY DEF Held, LandFetch
<1> HIDE DEF i, row, n
<1>3. view' = DetailPage(i, row, n) /\ detailKey' = DetailKey(i, row, n)
  BY <1>0, <1>1, <1>2, WriteDetailShows DEF IInv
<1>4. view'.page = "detail" /\ view'.item = i /\ view'.row = row
  BY <1>3 DEF DetailPage
<1>5. ViewOK' /\ ListHasRun'
  BY <1>1, <1>3, <1>4 DEF ViewOK, ListHasRun
<1>6. fetch' \in [Fetches -> FetchSet]
  BY <1>0, <1>1 DEF FetchSet
<1>7. TypeOK'
  BY <1>0, <1>6 DEF IInv, TypeOK, storeVars, FetchSet
<1>8. \A j \in Items, x \in Rows : Held(j, x)' => Held(j, x)
  <2>1. \A g \in Fetches : fetch'[g].step # "idle" => fetch'[g] = fetch[g]
    BY <1>0, <1>1 DEF NoFetch
  <2> QED  BY <1>0, <1>2, <1>4, <2>1 DEF Held, storeVars
<1>9. StampsUnique'
  BY <1>0, <1>8, HeldShrinks DEF IInv, storeVars
<1> QED  BY <1>4, <1>5, <1>7, <1>9 DEF IInv

LEMMA GoToStep ==
  ASSUME IInv, Click, NEW h \in Hashes, GoTo(h)
  PROVE  IInv' /\ Shows(h, records) /\ hash' = h /\ filter' = filter /\ records' = records
<1>0. /\ Render(h, records) /\ hash' = h
      /\ UNCHANGED <<storeVars, records, poll, paused, filter, failures>>
      /\ clicks < MaxClicks /\ clicks' = clicks + 1
  BY DEF Click, GoTo
<1>1. records \in Tables
  BY DEF IInv, TypeOK
<1>2. ViewOK' /\ Shows(h, records)
  BY <1>0, <1>1, RecordsHeld, RenderShows DEF IInv, Shows
<1>3. clicks' \in 0 .. MaxClicks
  BY <1>0, PortalAssumption DEF IInv, TypeOK
<1>4. TypeOK'
  BY <1>0, <1>2, <1>3, FetchTyped DEF IInv, TypeOK, storeVars
<1>5. ListHasRun'
  <2>1. CASE Agrees(view', Selected(h, records, filter, {}))
    <3>1. view'.page = Selected(h, records, filter, {}).page
      BY <2>1, AgreesOnPage
    <3> QED  BY <1>0, <1>1, <3>1, SelectedPage DEF ListHasRun
  <2>2. CASE h.run # None
    BY <1>0, <2>2 DEF ListHasRun
  <2> QED  BY <1>2, <2>1, <2>2 DEF Shows
<1>6. \A i \in Items, x \in Rows : Held(i, x)' => Held(i, x)
  BY <1>0, <1>1, <1>2, RecordsHeld, RenderKeepsHeld DEF IInv, storeVars
<1>7. StampsUnique'
  BY <1>0, <1>6, HeldShrinks DEF IInv, storeVars
<1> QED  BY <1>0, <1>2, <1>4, <1>5, <1>7 DEF IInv

\* Where the clicks and the address bar may go.
LEMMA UserGoes ==
  ASSUME IInv, User
  PROVE  \/ \E h \in Hashes : GoTo(h)
         \/ \E f \in Filters : ChangeFilter(f)
         \/ TogglePause
<1>1. ASSUME NEW run \in Runs, ClickRun(run)
      PROVE  \E h \in Hashes : GoTo(h)
  <2>1. [run |-> run, item |-> None] \in Hashes
    BY DEF Hashes
  <2> QED  BY <1>1, <2>1 DEF ClickRun
<1>2. ASSUME NEW i \in Items, ClickTest(i)
      PROVE  \E h \in Hashes : GoTo(h)
  <2>1. hash.run # None /\ hash \in Hashes
    BY <1>2 DEF ClickTest, IInv, ListHasRun, TypeOK
  <2>2. [hash EXCEPT !.item = i] \in Hashes
    BY <2>1 DEF Hashes
  <2> QED  BY <1>2, <2>2 DEF ClickTest
<1>3. ASSUME NEW run \in Runs \cup {None}, ClickCrumb(run)
      PROVE  \E h \in Hashes : GoTo(h)
  <2>1. [run |-> run, item |-> None] \in Hashes
    BY DEF Hashes
  <2> QED  BY <1>3, <2>1 DEF ClickCrumb
<1> QED  BY <1>1, <1>2, <1>3 DEF User, HashChange

LEMMA ChangeFilterStep ==
  ASSUME IInv, Click, NEW f \in Filters, ChangeFilter(f)
  PROVE  IInv' /\ Agrees(view', TestsPage(records, hash.run, f))
<1>0. /\ filter' = f /\ RenderTests(records, hash.run, f) /\ view.page = "tests"
      /\ UNCHANGED <<storeVars, records, poll, fetch, paused, hash, detailKey, failures>>
      /\ clicks < MaxClicks /\ clicks' = clicks + 1
  BY DEF ChangeFilter, Click
<1>1. records \in Tables /\ hash.run \in Runs /\ hash.run # None
  BY <1>0 DEF IInv, TypeOK, ListHasRun, Hashes
<1>2. /\ Agrees(view', TestsPage(records, hash.run, f))
      /\ \E r \in Tables, a \in Runs, g \in Filters :
           view' = TestsPage(r, a, g) /\ testsKey' = TestsKey(r, a, g)
  BY <1>0, <1>1, RenderTestsShows DEF IInv
<1>3. view'.page = "tests"
  BY <1>2, AgreesOnPage, PageNames
<1>4. ViewOK' /\ ListHasRun'
  BY <1>0, <1>1, <1>2 DEF ViewOK, ListHasRun
<1>5. clicks' \in 0 .. MaxClicks
  BY <1>0, PortalAssumption DEF IInv, TypeOK
<1>6. TypeOK'
  BY <1>0, <1>5 DEF IInv, TypeOK, storeVars
<1>7. \A i \in Items, x \in Rows : Held(i, x)' => Held(i, x)
  BY <1>0, <1>3 DEF Held, storeVars
<1>8. StampsUnique'
  BY <1>0, <1>7, HeldShrinks DEF IInv, storeVars
<1> QED  BY <1>2, <1>4, <1>6, <1>8 DEF IInv

LEMMA TogglePauseStep ==
  ASSUME IInv, Click, TogglePause
  PROVE  IInv'
<1>0. /\ paused' = ~ paused
      /\ UNCHANGED <<storeVars, records, poll, fetch, hash, filter, viewVars, failures>>
      /\ clicks < MaxClicks /\ clicks' = clicks + 1
  BY DEF TogglePause, Click
<1>1. clicks' \in 0 .. MaxClicks
  BY <1>0, PortalAssumption DEF IInv, TypeOK
<1>2. paused' \in BOOLEAN
  BY <1>0
<1>3. TypeOK'
  BY <1>0, <1>1, <1>2 DEF IInv, TypeOK, storeVars
<1>4. \A i \in Items, x \in Rows : Held(i, x)' => Held(i, x)
  BY <1>0 DEF Held, storeVars, viewVars
<1>5. StampsUnique'
  BY <1>0, <1>4, HeldShrinks DEF IInv, storeVars
<1> QED  BY <1>0, <1>3, <1>5, ViewUnchanged DEF IInv

LEMMA UserStep == IInv /\ User => IInv'
<1> SUFFICES ASSUME IInv, User PROVE IInv'
  OBVIOUS
<1>1. Click
  BY DEF User
<1> QED  BY <1>1, UserGoes, GoToStep, ChangeFilterStep, TogglePauseStep

LEMMA SaveStep ==
  ASSUME IInv, NEW i \in Items, Save(i)
  PROVE  IInv'
<1>1. PICK m \in Reports :
        /\ m.file \in FilesOf[i]
        /\ rows' = [rows EXCEPT ![i] = [status |-> m.status, worker |-> m.worker,
             file |-> m.file, logs |-> m.logs, stamp |-> saves + 1]]
  BY DEF Save
<1> DEFINE new == [status |-> m.status, worker |-> m.worker, file |-> m.file,
                   logs |-> m.logs, stamp |-> saves + 1]
<1>2. /\ saves < MaxSaves /\ saves' = saves + 1
      /\ UNCHANGED <<archived, records, poll, fetch, paused, hash, filter, viewVars,
                     clicks, failures>>
  BY DEF Save
<1>3. saves \in Nat /\ saves' \in 0 .. MaxSaves /\ saves + 1 \in 1 .. MaxSaves
  BY <1>2, PortalAssumption DEF IInv, TypeOK
<1>4. new \in Rows
  BY <1>3, PortalAssumption DEF Rows
<1>5. /\ rows' = [rows EXCEPT ![i] = new]
      /\ new.stamp = saves + 1 /\ new.file \in FilesOf[i]
  BY <1>1
<1> HIDE DEF new
<1>6. rows' \in Tables
  BY <1>4, <1>5 DEF IInv, TypeOK, Tables
<1>7. TypeOK'
  BY <1>2, <1>3, <1>6 DEF IInv, TypeOK
<1>8. ASSUME NEW j \in Items, NEW x \in Rows, Held(j, x)'
      PROVE  Held(j, x) \/ (j = i /\ x = new)
  <2>1. rows'[j] = rows[j] \/ (j = i /\ rows'[j] = new)
    BY <1>5 DEF IInv, TypeOK, Tables
  <2> QED  BY <1>2, <1>8, <2>1 DEF Held, viewVars
<1>9. \A j \in Items, x \in Rows : Held(j, x) => x.stamp <= saves
  BY DEF IInv, StampsUnique
<1>10. \A x \in Rows : x.stamp \in Nat
  BY PortalAssumption DEF Rows
<1>11. StampsUnique'
  <2> SUFFICES ASSUME NEW j \in Items, NEW x \in Rows, NEW y \in Rows
               PROVE  /\ Held(j, x)' => x.stamp <= saves'
                      /\ Held(j, x)' /\ Held(j, y)' /\ x.stamp = y.stamp => x = y
    BY DEF StampsUnique
  <2>1. Held(j, x)' => x.stamp <= saves'
    BY <1>2, <1>3, <1>5, <1>8, <1>9, <1>10
  <2>2. Held(j, x) /\ Held(j, y) /\ x.stamp = y.stamp => x = y
    BY DEF IInv, StampsUnique
  <2>3. Held(j, x) => x.stamp # new.stamp
    BY <1>3, <1>5, <1>9, <1>10
  <2>4. Held(j, y) => y.stamp # new.stamp
    BY <1>3, <1>5, <1>9, <1>10
  <2>5. Held(j, x)' /\ Held(j, y)' /\ x.stamp = y.stamp => x = y
    BY <1>8, <2>2, <2>3, <2>4
  <2> QED  BY <2>1, <2>5
<1> QED  BY <1>2, <1>7, <1>11, ViewUnchanged DEF IInv

LEMMA ArchiveStep ==
  ASSUME IInv, NEW i \in Items, Archive(i)
  PROVE  IInv'
<1>0. /\ archived' = archived \cup {i}
      /\ UNCHANGED <<rows, saves, records, poll, fetch, paused, hash, filter, viewVars,
                     clicks, failures>>
  BY DEF Archive
<1>1. TypeOK'
  BY <1>0 DEF IInv, TypeOK
<1>2. \A j \in Items, x \in Rows : Held(j, x)' => Held(j, x)
  BY <1>0 DEF Held, viewVars
<1>3. StampsUnique'
  BY <1>0, <1>2, HeldShrinks DEF IInv
<1> QED  BY <1>0, <1>1, <1>3, ViewUnchanged DEF IInv

LEMMA StutterStep ==
  ASSUME IInv, UNCHANGED portalVars
  PROVE  IInv'
<1>0. UNCHANGED <<rows, archived, saves, records, poll, fetch, paused, hash, filter,
                  viewVars, clicks, failures>>
  BY DEF portalVars, viewVars
<1>1. TypeOK'
  BY <1>0 DEF IInv, TypeOK
<1>2. \A j \in Items, x \in Rows : Held(j, x)' => Held(j, x)
  BY <1>0 DEF Held, viewVars
<1>3. StampsUnique'
  BY <1>0, <1>2, HeldShrinks DEF IInv
<1> QED  BY <1>0, <1>1, <1>3, ViewUnchanged DEF IInv

LEMMA StepIInv == IInv /\ [Next]_portalVars => IInv'
<1> SUFFICES ASSUME IInv, [Next]_portalVars PROVE IInv'
  OBVIOUS
<1>1. ASSUME NEW p \in Polls, Poll(p) \/ AnswerPoll(p) \/ FailPoll(p) PROVE IInv'
  BY <1>1, PollStep
<1>2. ASSUME NEW p \in Polls, Land(p) PROVE IInv'
  BY <1>2, LandStep
<1>3. ASSUME NEW f \in Fetches, AnswerFetch(f) PROVE IInv'
  BY <1>3, AnswerFetchStep
<1>4. ASSUME NEW f \in Fetches, LandFetch(f) PROVE IInv'
  BY <1>4, LandFetchStep
<1>5. CASE User
  BY <1>5, UserStep
<1>6. ASSUME NEW i \in Items, Save(i) PROVE IInv'
  BY <1>6, SaveStep
<1>7. ASSUME NEW i \in Items, Archive(i) PROVE IInv'
  BY <1>7, ArchiveStep
<1>8. CASE UNCHANGED portalVars
  BY <1>8, StutterStep
<1> QED  BY <1>1, <1>2, <1>3, <1>4, <1>5, <1>6, <1>7, <1>8 DEF Next

\* Only the end of refresh turns an answered poll idle.
LEMMA RefreshedByLand ==
  ASSUME TypeOK, [Next]_portalVars, Refreshed
  PROVE  \E p \in Polls : Land(p)
<1> PICK p \in Polls : poll[p].step = "answered" /\ poll'[p].step = "idle"
  BY DEF Refreshed
<1>1. poll' # poll
  OBVIOUS
<1>2. ASSUME NEW q \in Polls, Poll(q) \/ AnswerPoll(q) \/ FailPoll(q)
      PROVE  FALSE
  <2>1. poll[q].step # "answered"
    BY <1>2 DEF Poll, AnswerPoll, FailPoll
  <2>2. poll'[p] = poll[p]
    BY <1>2, <2>1 DEF Poll, AnswerPoll, FailPoll, TypeOK
  <2> QED  BY <2>2
<1>3. ASSUME NEW f \in Fetches, AnswerFetch(f) \/ LandFetch(f)
      PROVE  FALSE
  BY <1>1, <1>3 DEF AnswerFetch, LandFetch
<1>4. CASE User
  BY <1>1, <1>4 DEF User, Click
<1>5. ASSUME NEW i \in Items, Save(i) \/ Archive(i)
      PROVE  FALSE
  BY <1>1, <1>5 DEF Save, Archive
<1>6. CASE UNCHANGED portalVars
  BY <1>1, <1>6 DEF portalVars
<1> QED  BY <1>2, <1>3, <1>4, <1>5, <1>6 DEF Next

\* A render that leaves the requests for the archive alone shows the selected
\* page.
LEMMA NoRequestShows ==
  ASSUME TypeOK, NEW h, NEW recs, Shows(h, recs), fetch' = fetch
  PROVE  Agrees(view', Selected(h, recs, filter, {}))
<1>1. ASSUME NEW f \in Fetches, fetch[f].step = "idle",
             fetch' = [fetch EXCEPT ![f] = [step |-> "sent",
                         item |-> h.item, row |-> recs[h.item], logs |-> 0]]
      PROVE  FALSE
  <2>1. fetch'[f].step = "sent"
    BY <1>1 DEF TypeOK
  <2> QED  BY <1>1, <2>1
<1> QED  BY <1>1 DEF Shows

\* No request for the archive ends.
StillAwaited == \A f \in Fetches : fetch[f].step # "idle" => fetch'[f].step # "idle"

\* What each step does to the address, the filter and the records, and which
\* page it leaves.
LEMMA StepShows ==
  ASSUME IInv, [Next]_portalVars
  PROVE  \/ UNCHANGED <<hash, filter, records, view>> /\ ~ Refreshed /\ StillAwaited
         \/ UNCHANGED <<hash, filter, records>> /\ ~ Refreshed /\ view'.page = "detail"
         \/ filter' = filter /\ Shows(hash', records')
         \/ /\ UNCHANGED <<hash, records, fetch>> /\ ~ Refreshed
            /\ view.page = "tests"
            /\ Agrees(view', TestsPage(records', hash'.run, filter'))
<1>0. fetch \in [Fetches -> FetchSet]
  BY DEF IInv, TypeOK, FetchSet
<1>1. CASE \E p \in Polls : Land(p)
  <2>1. PICK p \in Polls : Land(p)
    BY <1>1
  <2>2. hash' = hash /\ filter' = filter /\ records' = poll[p].answer
    BY <2>1 DEF Land
  <2> QED  BY <2>1, <2>2, LandStep
<1>2. CASE ~ \E p \in Polls : Land(p)
  <2>1. ~ Refreshed
    BY <1>2, RefreshedByLand DEF IInv
  <2>2. CASE \E p \in Polls : Poll(p) \/ AnswerPoll(p) \/ FailPoll(p)
    BY <2>1, <2>2 DEF Poll, AnswerPoll, FailPoll, viewVars, StillAwaited
  <2>3. CASE \E f \in Fetches : AnswerFetch(f)
    <3>1. PICK f \in Fetches : AnswerFetch(f)
      BY <2>3
    <3>2. UNCHANGED <<hash, filter, records, view>>
      BY <3>1 DEF AnswerFetch, viewVars
    <3>3. fetch[f] \in [step : {"sent", "answered"}, item : Items, row : Rows, logs : {0, 1}]
      BY <1>0, <3>1 DEF AnswerFetch, FetchSet, NoFetch
    <3>4. fetch'[f].step = "answered"
      BY <1>0, <3>1, <3>3 DEF AnswerFetch
    <3>5. \A g \in Fetches : g # f => fetch'[g] = fetch[g]
      BY <1>0, <3>1 DEF AnswerFetch
    <3>6. StillAwaited
      BY <3>4, <3>5 DEF StillAwaited
    <3> QED  BY <2>1, <3>2, <3>6
  <2>4. CASE \E f \in Fetches : LandFetch(f)
    <3>1. view'.page = "detail"
      BY <2>4, LandFetchStep
    <3> QED  BY <2>1, <2>4, <3>1 DEF LandFetch
  <2>5. CASE User
    <3>1. Click
      BY <2>5 DEF User
    <3>2. CASE \E h \in Hashes : GoTo(h)
      BY <3>1, <3>2, GoToStep
    <3>3. CASE \E f \in Filters : ChangeFilter(f)
      <4>1. PICK f \in Filters : ChangeFilter(f)
        BY <3>3
      <4>2. /\ UNCHANGED <<hash, records, fetch>> /\ filter' = f /\ view.page = "tests"
        BY <3>1, <4>1 DEF ChangeFilter, Click
      <4>3. Agrees(view', TestsPage(records, hash.run, f))
        BY <3>1, <4>1, ChangeFilterStep
      <4> QED  BY <2>1, <4>2, <4>3
    <3>4. CASE TogglePause
      BY <2>1, <3>1, <3>4 DEF TogglePause, Click, viewVars, StillAwaited
    <3> QED  BY <2>5, <3>2, <3>3, <3>4, UserGoes
  <2>6. CASE \E i \in Items : Save(i) \/ Archive(i)
    BY <2>1, <2>6 DEF Save, Archive, viewVars, StillAwaited
  <2>7. CASE UNCHANGED portalVars
    BY <2>1, <2>7 DEF portalVars, StillAwaited
  <2> QED  BY <1>2, <2>2, <2>3, <2>4, <2>5, <2>6, <2>7 DEF Next
<1> QED  BY <1>1, <1>2

-----------------------------------------------------------------------------
(* The theorems.                                                           *)

\* The page's state, its requests and the store keep their types, whatever the
\* order of clicks, answers, failures and saves: a click never leads to an item
\* without a run.
THEOREM TypeCorrect == Spec => []TypeOK
<1>1. IInv => TypeOK
  BY DEF IInv
<1> QED  BY <1>1, InitIInv, StepIInv, PTL DEF Spec

\* A render that skips its write because of an equal key leaves the page it
\* would have written, and so does a change of the filter; but a row that two spec
\* files share may go on naming the one that the key does not hold.
THEOREM SkippedRendersAreCurrent == Spec => SkippedRenderIsCurrent
<1>1. ASSUME IInv, [Next]_portalVars
      PROVE  [/\ (hash' # hash \/ Refreshed) /\ fetch' = fetch
                   => Agrees(view', Selected(hash', records', filter', {}))
              /\ filter' # filter =>
                   Agrees(view', TestsPage(records', hash'.run, filter'))]_portalVars
  <2>1. CASE filter' = filter /\ Shows(hash', records')
    BY <1>1, <2>1, NoRequestShows DEF IInv
  <2> QED  BY <1>1, <2>1, StepShows
<1> QED  BY <1>1, InitIInv, StepIInv, PTL DEF Spec, SkippedRenderIsCurrent

\* While nothing is awaited from the archive, only a detail view may be other
\* than the selected page: no list of runs or tests outlives the address, the
\* filter and the rows it is of.
THEOREM LateViewsAreDetails == Spec => []OnlyDetailsAreLate
<1>1. Init => OnlyDetailsAreLate
  BY DEF Init, OnlyDetailsAreLate
<1>2. ASSUME IInv, OnlyDetailsAreLate, [Next]_portalVars
      PROVE  OnlyDetailsAreLate'
  <2>0. hash \in Hashes /\ records \in Tables
    BY <1>2 DEF IInv, TypeOK
  <2>1. CASE filter' = filter /\ Shows(hash', records')
    <3>1. CASE Agrees(view', Selected(hash', records', filter, {}))
      BY <2>1, <3>1 DEF OnlyDetailsAreLate
    <3>2. ASSUME NEW f \in Fetches,
                 fetch' = [fetch EXCEPT ![f] = [step |-> "sent",
                   item |-> hash'.item, row |-> records'[hash'.item], logs |-> 0]]
          PROVE  OnlyDetailsAreLate'
      <4>1. fetch'[f].step = "sent"
        BY <1>2, <3>2 DEF IInv, TypeOK
      <4> QED  BY <4>1 DEF OnlyDetailsAreLate
    <3> QED  BY <2>1, <3>1, <3>2 DEF Shows
  <2>2. CASE UNCHANGED <<hash, records, fetch>> /\ view.page = "tests"
               /\ Agrees(view', TestsPage(records', hash'.run, filter'))
    <3>1. CASE Agrees(view, Selected(hash, records, filter, {}))
      <4>0. Selected(hash, records, filter, {}).page = "tests"
        BY <2>2, <3>1, AgreesOnPage
      <4>1. hash.run # None /\ hash.item = None
        BY <2>0, <4>0, SelectedPage
      <4>2. Agrees(view', Selected(hash', records', filter', {}))
        BY <2>2, <4>1 DEF Selected
      <4> QED  BY <4>2 DEF OnlyDetailsAreLate
    <3>2. CASE ~ Agrees(view, Selected(hash, records, filter, {}))
      <4>1. \E f \in Fetches : fetch[f].step # "idle"
        BY <1>2, <2>2, <3>2 DEF OnlyDetailsAreLate
      <4> QED  BY <2>2, <4>1 DEF OnlyDetailsAreLate
    <3> QED  BY <3>1, <3>2
  <2>3. CASE view'.page = "detail"
    BY <2>3 DEF OnlyDetailsAreLate
  <2>4. CASE UNCHANGED <<hash, filter, records, view>> /\ StillAwaited
    BY <1>2, <2>4 DEF OnlyDetailsAreLate, StillAwaited
  <2> QED  BY <1>2, <2>1, <2>2, <2>3, <2>4, StepShows
<1> QED  BY <1>1, <1>2, InitIInv, StepIInv, PTL DEF Spec
=============================================================================
