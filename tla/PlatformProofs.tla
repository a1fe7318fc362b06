--------------------------- MODULE PlatformProofs ---------------------------
(***************************************************************************)
(* Theorems about Platform for every set of requests and workers and every *)
(* value of the limits.  Platform implements both of the specifications it *)
(* joins, so that what is proved of each holds of the two together; the    *)
(* properties of Platform relate one side to the other.                    *)
(***************************************************************************)
EXTENDS Platform, DispatchRefinement

\* The theorems about Orchestrator, read as Platform reads Orchestrator.
OP == INSTANCE OrchestratorProofs WITH
  Probes <- {}, crashes <- deaths,
  queue <- [t \in Tests |-> IF t \in submitted THEN 1 ELSE 0]

-----------------------------------------------------------------------------
(* Platform implements Orchestrator.                                       *)

LEMMA OrchestratorLimits ==
  /\ MaxTests \in Nat \ {0}
  /\ Room \in Nat \ {0}
  /\ MaxMs \in Nat
  /\ MaxLosses \in Nat
  /\ Posts \cap {} = {}
  /\ None \notin OP!Requests \cup OP!Records
  BY PlatformAssumption
  DEF OP!Requests, OP!Records, OP!RunIds, OP!Sizes,
      Orchestrator!Records, Orchestrator!RunIds, Orchestrator!Sizes

LEMMA TestsAreJobs == Tests = OP!Jobs /\ Posts = OP!Requests
  BY PlatformAssumption
  DEF OP!Jobs, OP!RunIds, OP!Positions, OP!Requests,
      Orchestrator!Jobs, Orchestrator!RunIds, Orchestrator!Positions

LEMMA InitOrchestrator == PlatformInit => OP!Init
  BY DEF PlatformInit, Orchestrator!Init, OP!Init, OP!Requests, OP!RunIds, OP!Jobs, OP!Positions,
      Orchestrator!Requests, Orchestrator!RunIds, Orchestrator!Jobs, Orchestrator!Positions

\* The workers do not submit.
LEMMA WorkersSubmitNothing ==
  ASSUME WorkOnTests
  PROVE  UNCHANGED submitted /\ UNCHANGED orchestratorVars
  BY DEF WorkOnTests, Deliver, Handle, RunReturns, RunThrows, PublishRetry, PublishResult,
     Ack, Nack, Requeue, Crash, StartWorker

\* The instance of the theorems has the handlers of the instance in Platform.
LEMMA SameHandlers ==
  /\ Orchestrator!Tick => OP!Tick
  /\ \A p : Orchestrator!PostRun(p) => OP!PostRun(p)
  /\ \A p : Orchestrator!AssertNext(p) => OP!AssertNext(p)
  /\ \A p : Orchestrator!HandleConnect(p) => OP!HandleConnect(p)
  /\ \A p : Orchestrator!HandlePost(p) => OP!HandlePost(p)
  /\ \A i : Orchestrator!Cancel(i) => OP!Cancel(i)
<1> USE DEF Orchestrator!requestVars, OP!requestVars, Orchestrator!brokerVars, OP!brokerVars,
            Orchestrator!RunIds, OP!RunIds
<1>1. Orchestrator!Tick => OP!Tick
  BY DEF Orchestrator!Tick, OP!Tick
<1>2. \A p : Orchestrator!PostRun(p) => OP!PostRun(p)
  BY DEF Orchestrator!PostRun, OP!PostRun, Orchestrator!Sizes, OP!Sizes
<1>3. \A p : Orchestrator!AssertNext(p) => OP!AssertNext(p)
  BY DEF Orchestrator!AssertNext, OP!AssertNext
<1>4. \A p, status, n : Orchestrator!Finish(p, status, n) => OP!Finish(p, status, n)
  BY DEF Orchestrator!Finish, OP!Finish
<1>5. \A p : Orchestrator!HandleConnect(p) => OP!HandleConnect(p)
  BY <1>4 DEF Orchestrator!HandleConnect, OP!HandleConnect, Orchestrator!Connect, OP!Connect,
     Orchestrator!ConnectFails, OP!ConnectFails
<1>6. \A p : Orchestrator!Publish(p) => OP!Publish(p)
  BY <1>4 DEF Orchestrator!Publish, OP!Publish, Orchestrator!Write, OP!Write,
     Orchestrator!Free, OP!Free
<1>7. \A p : Orchestrator!HandlePost(p) => OP!HandlePost(p)
  BY <1>4, <1>6 DEF Orchestrator!HandlePost, OP!HandlePost,
     Orchestrator!ChannelFails, OP!ChannelFails
<1>8. \A i : Orchestrator!Cancel(i) => OP!Cancel(i)
  BY DEF Orchestrator!Cancel, OP!Cancel
<1>9. QED
  BY <1>1, <1>2, <1>3, <1>5, <1>7, <1>8

\* Every step of Platform is one of the orchestrator or none of its affair.
LEMMA OrchestratorSteps ==
  ASSUME [PlatformNext]_platformVars
  PROVE  [OP!Next]_(OP!vars)
<1>1. Posts = OP!Requests /\ {} \cup Posts = Posts
  BY TestsAreJobs
<1>2. ASSUME NEW c \in Posts, Arrive(c)
      PROVE  OP!Send(c)
  BY <1>2 DEF Arrive, Orchestrator!Send, OP!Send, Orchestrator!requestVars, OP!requestVars
<1>3. ASSUME HandleRequest
      PROVE  \/ OP!Tick
             \/ \E p \in Posts : OP!PostRun(p) \/ OP!AssertNext(p) \/ OP!HandlePost(p)
             \/ \E p \in Posts : OP!HandleConnect(p)
             \/ \E i \in OP!RunIds : OP!Cancel(i)
  BY <1>3, SameHandlers DEF HandleRequest, Orchestrator!RunIds, OP!RunIds
<1>4. ASSUME OrchestratorFails
      PROVE  (\E c \in Posts : OP!Close(c)) \/ OP!Crash
  BY <1>4 DEF OrchestratorFails, Orchestrator!Close, OP!Close, Orchestrator!Crash, OP!Crash,
     Orchestrator!Requests, OP!Requests, Orchestrator!RunIds, OP!RunIds,
     Orchestrator!Range, OP!Range, Orchestrator!requestVars, OP!requestVars
<1>5. ASSUME UNCHANGED submitted, UNCHANGED orchestratorVars
      PROVE  UNCHANGED OP!vars
  BY <1>5 DEF orchestratorVars, OP!vars
<1>6. CASE WorkOnTests
  BY <1>5, <1>6, WorkersSubmitNothing
<1>7. CASE UNCHANGED platformVars
  BY <1>5, <1>7 DEF platformVars, vars
<1>8. QED
  BY <1>1, <1>2, <1>3, <1>4, <1>6, <1>7 DEF PlatformNext, OP!Next

\* The handlers of Platform do to the orchestrator what they do alone, and the
\* workers do nothing to it: joined to Dispatch, it is still Orchestrator.
THEOREM PlatformImplementsOrchestrator == PlatformSpec => OP!Spec
<1>1. QED
  BY InitOrchestrator, OrchestratorSteps, PTL DEF PlatformSpec, OP!Spec

LEMMA OrchestratorInvariant == PlatformSpec => []OP!JobInv
<1>1. OP!Spec => []OP!JobInv
  BY OrchestratorLimits, OP!JobInvariant
<1>2. QED
  BY <1>1, PlatformImplementsOrchestrator, PTL

-----------------------------------------------------------------------------
(* Platform implements Dispatch.                                           *)

\* What a channel is about to send is a test.
LEMMA HeadIsTest ==
  ASSUME OP!TypeOK, NEW c \in Posts, buffer[c] # <<>>
  PROVE  Head(buffer[c]) \in Tests /\ 1 \in DOMAIN buffer[c] /\ buffer[c][1] = Head(buffer[c])
<1>1. buffer[c] \in Seq(Tests)
  BY TestsAreJobs DEF OP!TypeOK
<1>2. QED
  BY <1>1

LEMMA DispatchSteps ==
  ASSUME OP!TypeOK, [PlatformNext]_platformVars
  PROVE  [Next]_vars
<1>1. ASSUME NEW c \in Posts, Arrive(c)
      PROVE  Next
  BY <1>1, HeadIsTest DEF Arrive, Next
<1>2. CASE HandleRequest \/ OrchestratorFails \/ UNCHANGED platformVars
  BY <1>2 DEF HandleRequest, OrchestratorFails, platformVars
<1>3. CASE WorkOnTests
  BY <1>3 DEF WorkOnTests, Next
<1>4. QED
  BY <1>1, <1>2, <1>3 DEF PlatformNext

\* And the queue boundary is still Dispatch: what arrives of the orchestrator's
\* jobs is a submission of a test, and nothing else the orchestrator does, its
\* lost connections and crashes included, touches a queue or a worker.
THEOREM PlatformImplementsDispatch == PlatformSpec => Spec
<1>1. OP!JobInv => OP!TypeOK
  BY DEF OP!JobInv, OP!OrchInv
<1>2. PlatformInit => Init
  BY DEF PlatformInit
<1>3. QED
  BY <1>1, <1>2, DispatchSteps, OrchestratorInvariant, PTL DEF PlatformSpec, Spec

\* The platform as a whole keeps the promise for its tests: joined to the
\* orchestrator, the queue boundary still issues attempts in order and reports
\* the failure of one with retries left only after the next.
THEOREM PlatformImplementsLifecycle == PlatformSpec => ImplementsLifecycle
<1>1. QED
  BY PlatformImplementsDispatch, DispatchImplementsLifecycle, PTL

\* And the promise for its runs, with what has come to the workers as what was
\* submitted: what clients are told is unchanged by what the workers do.
THEOREM PlatformImplementsRunLifecycle == PlatformSpec => OP!ImplementsRunLifecycle
<1>1. OP!Spec => OP!ImplementsRunLifecycle
  BY OrchestratorLimits, OP!OrchestratorImplementsRunLifecycle
<1>2. QED
  BY <1>1, PlatformImplementsOrchestrator, PTL

-----------------------------------------------------------------------------
(* No two runs of the model have one id.                                   *)

Distinct ==
  \A p, q \in Posts :
    state[p] # None /\ state[q] # None /\ state[p].id = state[q].id => p = q

\* Only a new request brings a run id into the state.
LEMMA IdsAreOldOrNew ==
  ASSUME OP!OrchInv, [PlatformNext]_platformVars
  PROVE  \/ \A p \in Posts : state'[p] # None => state[p] # None /\ state'[p].id = state[p].id
         \/ \E q \in Posts :
              /\ \A p \in Posts : state[p] # None => state[p].id # clock
              /\ \A p \in Posts : p # q => state'[p] = state[p]
              /\ state'[q] # None => state'[q].id = clock
<1>1. OP!TypeOK
  BY DEF OP!OrchInv
<1>2. CASE UNCHANGED state
  BY <1>2
<1>3. ASSUME NEW q \in Posts, OP!Ends(q)
      PROVE  \A p \in Posts : state'[p] # None => state[p] # None /\ state'[p].id = state[p].id
  <2>1. \A p \in Posts : p # q => state'[p] = state[p]
    BY <1>1, <1>3, OrchestratorLimits, OP!EndFacts
  <2>2. state[q] # None /\ state'[q].id = state[q].id
    BY <1>1, <1>3, OrchestratorLimits, OP!EndFacts, OP!RecordsArePresent
  <2>3. QED
    BY <2>1, <2>2
<1>4. ASSUME NEW q \in Posts, Orchestrator!HandlePost(q) \/ Orchestrator!HandleConnect(q)
      PROVE  UNCHANGED state \/ OP!Ends(q)
  <2>1. OP!HandlePost(q) \/ OP!HandleConnect(q)
    BY <1>4, SameHandlers
  <2>2. CASE OP!Publish(q) \/ OP!ChannelFails(q) \/ OP!ConnectFails(q)
    BY <1>1, <2>2, OrchestratorLimits, OP!EndingActions
  <2>3. CASE OP!Connect(q)
    BY <2>3 DEF OP!Connect
  <2>4. QED
    BY <2>1, <2>2, <2>3 DEF OP!HandlePost, OP!HandleConnect
<1>5. ASSUME NEW q \in Posts, IdIsFree, Orchestrator!PostRun(q)
      PROVE  /\ \A p \in Posts : state[p] # None => state[p].id # clock
             /\ \A p \in Posts : p # q => state'[p] = state[p]
             /\ state'[q].id = clock
  BY <1>1, <1>5 DEF IdIsFree, Orchestrator!PostRun, OP!TypeOK
<1>6. CASE HandleRequest
  <2>1. \/ UNCHANGED state
        \/ \E q \in Posts : Orchestrator!HandlePost(q) \/ Orchestrator!HandleConnect(q)
        \/ \E q \in Posts : IdIsFree /\ Orchestrator!PostRun(q)
    BY <1>6 DEF HandleRequest, Orchestrator!Tick, Orchestrator!AssertNext,
       Orchestrator!Cancel, Orchestrator!requestVars
  <2>2. QED
    BY <1>2, <1>3, <1>4, <1>5, <2>1
<1>7. CASE WorkOnTests \/ UNCHANGED platformVars
  BY <1>2, <1>7 DEF WorkOnTests, platformVars, orchestratorVars
<1>8. CASE OrchestratorFails \/ \E c \in Posts : Arrive(c)
  BY <1>2, <1>8 DEF OrchestratorFails, Arrive, Orchestrator!Close, Orchestrator!Crash,
     Orchestrator!Send, Orchestrator!requestVars
<1>9. QED
  BY <1>6, <1>7, <1>8 DEF PlatformNext

LEMMA DistinctInvariant == PlatformSpec => []Distinct
<1>1. PlatformInit => Distinct
  BY DEF PlatformInit, Orchestrator!Init, Distinct
<1>2. OP!JobInv /\ Distinct /\ [PlatformNext]_platformVars => Distinct'
  <2> SUFFICES ASSUME OP!JobInv, Distinct, [PlatformNext]_platformVars
               PROVE  Distinct'
    OBVIOUS
  <2>1. CASE \A p \in Posts : state'[p] # None => state[p] # None /\ state'[p].id = state[p].id
    BY <2>1 DEF Distinct
  <2>2. ASSUME NEW q \in Posts,
               \A p \in Posts : state[p] # None => state[p].id # clock,
               \A p \in Posts : p # q => state'[p] = state[p],
               state'[q] # None => state'[q].id = clock
        PROVE  Distinct'
    BY <2>2 DEF Distinct
  <2>3. QED
    BY <2>1, <2>2, IdsAreOldOrNew DEF OP!JobInv
<1>3. QED
  BY <1>1, <1>2, OrchestratorInvariant, PTL DEF PlatformSpec

LEMMA NothingIsShared ==
  ASSUME Distinct, NEW i
  PROVE  ~ OP!Shared(i)
  BY DEF Distinct, OP!Shared

-----------------------------------------------------------------------------
(* What each side says of the other.                                       *)

\* What was submitted is what has reached the queue.
LEMMA SubmittedIsWritten ==
  ASSUME NEW t \in Tests, t \in submitted
  PROVE  OP!Written(t)
  BY DEF OP!Written

LEMMA TestIsPair ==
  \A t \in Tests : /\ t[1] \in OP!RunIds /\ t[2] \in OP!Positions
                  /\ t = <<t[1], t[2]>>
  BY TestsAreJobs DEF OP!Jobs

\* For every number of requests and workers, and whatever is lost of either: a
\* test of a run that was answered 202 is on its way, queued, with a worker, over
\* or dead, unless a lost connection took its job.  The record of the run counts
\* it (OP!Accepted), so its job was written; if the broker got it, the test was
\* submitted, and what is submitted stays (NoTestLost).
THEOREM AcceptedTestsAreAccounted == PlatformSpec => []AcceptedTestAccounted
<1>1. ASSUME OP!JobInv, NoTestLost
      PROVE  AcceptedTestAccounted
  <2>1. SUFFICES ASSUME NEW t \in Tests, Accepted(t)
                 PROVE  \/ Buffered(t) \/ Outstanding(t) \/ Settled(t) \/ Parked(t)
                        \/ t \in lost
    BY DEF AcceptedTestAccounted
  <2>2. PICK p \in Posts : answer[p] = "accepted" /\ t \in {state[p].id} \X (1 .. state[p].total)
    BY <2>1 DEF Accepted
  <2>3. state[p] # None /\ state[p].jobsPublished = state[p].total
    BY <1>1, <2>2 DEF OP!JobInv, OP!OrchInv, OP!Accepted
  <2>4. t = <<state[p].id, t[2]>> /\ t[2] \in OP!Positions /\ t[2] <= state[p].jobsPublished
    <3>1. t[1] = state[p].id /\ t[2] \in 1 .. state[p].total
      BY <2>2
    <3>2. state[p].total \in Nat
      BY <1>1, <2>3, PlatformAssumption DEF OP!JobInv, OP!OrchInv, OP!TypeOK, OP!Records, OP!Sizes, OP!Positions
    <3>3. QED
      BY <2>3, <3>1, <3>2, TestIsPair
  <2>5. OP!Written(t)
    BY <1>1, <2>3, <2>4 DEF OP!JobInv, OP!CountedIsWritten
  <2>6. CASE t \in submitted
    BY <1>1, <2>6 DEF NoTestLost
  <2>7. ASSUME NEW c \in OP!Requests, t \in OP!Range(buffer[c])
        PROVE  Buffered(t)
    BY <2>7, TestsAreJobs DEF OP!Range, Buffered
  <2>8. QED
    BY <2>5, <2>6, <2>7 DEF OP!Written
<1>2. Spec => []NoTestLost
  BY NoTestIsLost
<1>3. QED
  BY <1>1, <1>2, PlatformImplementsDispatch, OrchestratorInvariant, PTL

\* No test comes to the workers twice, for every number of requests that take
\* each other's channel: a job in a buffer is not on the queue as well
\* (NoJobTwice), because no two runs of the model share an id.
THEOREM NothingComesTwice == PlatformSpec => []NothingArrivesTwice
<1>1. ASSUME OP!JobInv, Distinct
      PROVE  NothingArrivesTwice
  <2>1. SUFFICES ASSUME NEW c \in Posts, buffer[c] # <<>>
                 PROVE  Head(buffer[c]) \notin submitted
    BY DEF NothingArrivesTwice
  <2>2. PICK t \in Tests : t = Head(buffer[c]) /\ 1 \in DOMAIN buffer[c] /\ buffer[c][1] = t
    BY <1>1, <2>1, HeadIsTest DEF OP!JobInv, OP!OrchInv
  <2>3. ~ OP!Shared(t[1])
    BY <1>1, NothingIsShared
  <2>4. [u \in Tests |-> IF u \in submitted THEN 1 ELSE 0][t] = 0
    BY <1>1, <2>2, <2>3, TestIsPair, TestsAreJobs DEF OP!JobInv, OP!NoJobTwice
  <2>5. QED
    BY <2>2, <2>4
<1>2. QED
  BY <1>1, DistinctInvariant, OrchestratorInvariant, PTL

\* All work that the broker and the workers ever have, retries and redeliveries
\* included, is of tests that a request counts as published, plus the one that a
\* refused loop has written last.
THEOREM AllWorkWasCounted == PlatformSpec => []WorkWasCounted
<1>1. ASSUME OP!JobInv, TypeOK, RetriesJustified
      PROVE  WorkWasCounted
  <2>1. SUFFICES ASSUME NEW j \in Jobs, Exists(j)
                 PROVE  \E p \in Posts :
                          /\ state[p] # None
                          /\ state[p].id = j.test[1]
                          /\ \/ j.test[2] <= state[p].jobsPublished
                             \/ /\ j.test[2] = state[p].jobsPublished + 1
                                /\ state[p].status = "FAILED"
    BY DEF WorkWasCounted
  <2>2. j.test \in Tests /\ j.test \in submitted
    BY <1>1, <2>1 DEF RetriesJustified, Jobs
  <2>3. PICK i \in OP!RunIds, n \in OP!Positions : i = j.test[1] /\ n = j.test[2] /\ j.test = <<i, n>>
    BY <2>2, TestIsPair
  <2>4. PICK p \in Posts : OP!Wrote(p, i, n)
    BY <1>1, <2>2, <2>3, SubmittedIsWritten DEF OP!JobInv, OP!JobsHaveAuthor
  <2>5. QED
    BY <2>3, <2>4 DEF OP!Wrote
<1>2. Spec => [](TypeOK /\ RetriesJustified)
  BY TypeCorrect, RetriesAreJustified, PTL
<1>3. QED
  BY <1>1, <1>2, PlatformImplementsDispatch, OrchestratorInvariant, PTL
=============================================================================
