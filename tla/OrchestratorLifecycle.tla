----------------------- MODULE OrchestratorLifecycle -----------------------
(***************************************************************************)
(* Orchestrator implements RunLifecycle: which channel a job is written    *)
(* to, and which connection takes it away, is hidden from the client.      *)
(***************************************************************************)
EXTENDS Orchestrator

\* A record as PostRun made it.
Begun(record) == [record EXCEPT !.status = "QUEUED", !.jobsPublished = 0]

askedRuns == [p \in Posts |-> IF state[p] = None THEN None ELSE Begun(state[p])]
postsAtWork == {p \in Posts : step[p] \in {"connect", "assert"}}
writtenJobs == {j \in Jobs : Written(j)}
arrivedJobs == {j \in Jobs : queue[j] > 0}

Lifecycle == INSTANCE RunLifecycle WITH
  asked <- askedRuns, atWork <- postsAtWork, written <- writtenJobs, arrived <- arrivedJobs

\* However requests share and replace channels, and whatever is lost: to a client
\* a run is answered, recorded and written in one step, a refused one is written
\* one job further than it is counted, and a job of it comes to the workers once
\* or is lost, never both.
ImplementsRunLifecycle == Lifecycle!Spec
=============================================================================
