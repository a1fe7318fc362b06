------------------------------ MODULE Platform ------------------------------
(***************************************************************************)
(* From POST /runs to the end of the tests: Orchestrator and Dispatch,     *)
(* joined at the queue test.execution.  A test is the job that the         *)
(* orchestrator wrote for it; the job's arrival at the broker submits the  *)
(* test to the workers.                                                    *)
(*                                                                         *)
(* Both sides keep their actions and share one step, Arrive.  Only runs    *)
(* that come within one millisecond and share an id are left out: their    *)
(* tests cannot be told apart, on either side.  GET /health, which does to *)
(* a channel nothing that another POST does not do, is left out as well.   *)
(***************************************************************************)
EXTENDS DispatchLifecycle, Sequences

CONSTANTS
  Posts, MaxTests, Room, MaxMs, MaxLosses, None  \* as in Orchestrator

VARIABLES
  clock, step, state, waitsOn, answer, runs, channel, open, buffer, lost,
  losses, deaths  \* as in Orchestrator, deaths being its crashes

orchestratorVars ==
  <<clock, step, state, waitsOn, answer, runs, channel, open, buffer, lost,
    losses, deaths>>
platformVars == <<vars, orchestratorVars>>

\* What reached test.execution is what has been submitted.
Orchestrator == INSTANCE Orchestrator WITH
  Probes <- {}, crashes <- deaths,
  queue <- [t \in Tests |-> IF t \in submitted THEN 1 ELSE 0]

ASSUME PlatformAssumption ==
  /\ Tests = Orchestrator!Jobs
  /\ MaxTests \in Nat \ {0}
  /\ Room \in Nat \ {0}
  /\ MaxMs \in Nat
  /\ MaxLosses \in Nat
  /\ None \notin Posts \cup Orchestrator!Records

-----------------------------------------------------------------------------
PlatformInit == Init /\ Orchestrator!Init

\* External: the oldest job of a buffer reaches test.execution.
Arrive(c) ==
  /\ buffer[c] # <<>>
  /\ Submit(Head(buffer[c]))
  /\ Orchestrator!Send(c)

\* Bound: no other run has the id that the clock gives.
IdIsFree == \A p \in Posts : state[p] # None => state[p].id # clock

\* The orchestrator's handlers touch nothing that the workers see.
HandleRequest ==
  /\ UNCHANGED vars
  /\ \/ Orchestrator!Tick
     \/ \E p \in Posts :
          \/ IdIsFree /\ Orchestrator!PostRun(p)
          \/ Orchestrator!HandleConnect(p)
          \/ Orchestrator!AssertNext(p)
          \/ Orchestrator!HandlePost(p)
     \/ \E i \in Orchestrator!RunIds : Orchestrator!Cancel(i)

\* Nor does its end: what has arrived is with the broker.
OrchestratorFails ==
  /\ UNCHANGED vars
  /\ \/ \E c \in Posts : Orchestrator!Close(c)
     \/ Orchestrator!Crash

WorkOnTests ==
  /\ \/ \E s \in Slots : Deliver(s) \/ Handle(s) \/ Requeue(s)
     \/ \E w \in Workers : Crash(w) \/ StartWorker(w)
  /\ UNCHANGED orchestratorVars

PlatformNext ==
  \/ \E c \in Posts : Arrive(c)
  \/ HandleRequest
  \/ OrchestratorFails
  \/ WorkOnTests

(* Dispatch's fairness, and an open connection sends what it holds.        *)
PlatformFairness ==
  /\ Fairness
  /\ \A c \in Posts : WF_platformVars(Arrive(c))

PlatformSpec == PlatformInit /\ [][PlatformNext]_platformVars /\ PlatformFairness

-----------------------------------------------------------------------------
(* Properties.                                                             *)

\* The client of the run has been told 202.
Accepted(t) ==
  \E p \in Posts :
    answer[p] = "accepted" /\ t \in {state[p].id} \X (1 .. state[p].total)

Buffered(t) ==
  \E c \in Posts : \E k \in DOMAIN buffer[c] : buffer[c][k] = t

\* 202 stands for every test of the run, though it is sent before a job has left
\* the process: each test is on its way to the broker, queued, with a worker,
\* over or in the dead-letter queue.  Only a lost connection takes some away.
AcceptedTestAccounted ==
  \A t \in Tests : Accepted(t) =>
    Buffered(t) \/ Outstanding(t) \/ Settled(t) \/ Parked(t) \/ t \in lost

\* The broker gets no test a second time, whatever channels requests take from
\* each other and whichever connections and processes end: a job at the head of
\* an open channel's buffer is new to the workers.
NothingArrivesTwice ==
  \A c \in Posts : c \in open /\ buffer[c] # <<>> => Head(buffer[c]) \notin submitted

\* Work comes from a request: a job that is queued, with a worker, over or dead,
\* the retries included, is of a test that the record of some POST /runs counts,
\* or of the one its loop wrote uncounted when it was refused.
WorkWasCounted ==
  \A j \in Jobs : Exists(j) =>
    \E p \in Posts :
      /\ state[p] # None
      /\ state[p].id = j.test[1]
      /\ \/ j.test[2] <= state[p].jobsPublished
         \/ j.test[2] = state[p].jobsPublished + 1 /\ state[p].status = "FAILED"

\* Every test of an accepted run ends, if its job gets to the broker.
AcceptedTestConcludes ==
  \A t \in Tests : Accepted(t) ~> Settled(t) \/ Parked(t) \/ t \in lost
=============================================================================
