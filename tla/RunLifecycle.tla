---------------------------- MODULE RunLifecycle ----------------------------
(***************************************************************************)
(* What the orchestrator promises for the runs it is asked for, without    *)
(* connections, channels, buffers or a loop: a request is answered in the  *)
(* step in which its jobs are written and its record can be looked up; the *)
(* record counts what was written, but for the job a refusal ended with;   *)
(* and a job is written once, and arrives once or is lost.                 *)
(*                                                                         *)
(* All of it with an exception: runs that share an id share their jobs.    *)
(***************************************************************************)
EXTENDS Naturals

CONSTANTS
  Posts,   \* requests for a run
  RunIds,
  Sizes,   \* how many tests a run may have, none included
  None     \* no record

VARIABLES
  asked,   \* asked[p]: the record of the run that p asks for, as it begins
  atWork,  \* requests that are being handled
  answer,  \* answer[p]: what p was told
  runs,    \* runs[i]: the record of run i
  written, \* jobs that exist or existed, a job being a run and a position
  arrived, \* jobs that have come to the workers' queue
  lost     \* jobs that have gone with a connection

vars == <<asked, atWork, answer, runs, written, arrived, lost>>

Init ==
  /\ asked = [p \in Posts |-> None]
  /\ atWork = {}
  /\ answer = [p \in Posts |-> "none"]
  /\ runs = [i \in RunIds |-> None]
  /\ written = {} /\ arrived = {} /\ lost = {}

Shared(i) ==
  \E p, q \in Posts :
    /\ p # q /\ asked[p] # None /\ asked[q] # None
    /\ asked[p].id = i /\ asked[q].id = i

FirstJobs(p, n) == {asked[p].id} \X (1 .. n)

\* These jobs are nowhere but on their way.
Travelling(jobs) ==
  /\ jobs \subseteq written
  /\ \A j \in jobs : j \notin arrived \cup lost \/ Shared(j[1])

-----------------------------------------------------------------------------
Ask(p) ==
  /\ asked[p] = None
  /\ \E i \in RunIds, n \in Sizes :
       asked' = [asked EXCEPT ![p] =
         [id |-> i, status |-> "QUEUED", total |-> n, jobsPublished |-> 0]]
  /\ atWork' = atWork \cup {p}
  /\ UNCHANGED <<answer, runs, written, arrived, lost>>

\* The first n jobs of the run of p are written, counted of them are counted.
End(p, status, n, counted) ==
  /\ written \cap FirstJobs(p, n) = {} \/ Shared(asked[p].id)
  /\ atWork' = atWork \ {p}
  /\ written' = written \cup FirstJobs(p, n)
  /\ runs' = [runs EXCEPT ![asked[p].id] =
                [asked[p] EXCEPT !.status = status, !.jobsPublished = counted]]
  /\ UNCHANGED <<asked, arrived, lost>>

Accept(p) ==
  /\ p \in atWork
  /\ End(p, "RUNNING", asked[p].total, asked[p].total)
  /\ answer' = [answer EXCEPT ![p] = "accepted"]

\* A request is refused before its first job or at one of its jobs.
Refuse(p) ==
  /\ p \in atWork
  /\ \/ End(p, "FAILED", 0, 0)
     \/ \E n \in 1 .. asked[p].total : End(p, "FAILED", n, n - 1)
  /\ answer' = [answer EXCEPT ![p] = "failed"]

Cancel(i) ==
  /\ runs[i] # None
  /\ runs' = [runs EXCEPT ![i].status = "CANCELLED"]
  /\ UNCHANGED <<asked, atWork, answer, written, arrived, lost>>

Arrive(j) ==
  /\ Travelling({j})
  /\ arrived' = arrived \cup {j}
  /\ UNCHANGED <<asked, atWork, answer, runs, written, lost>>

Lose(jobs) ==
  /\ Travelling(jobs)
  /\ lost' = lost \cup jobs
  /\ UNCHANGED <<asked, atWork, answer, runs, written, arrived>>

\* All records go, and who has not been answered never is.
Forget(jobs) ==
  /\ Travelling(jobs)
  /\ lost' = lost \cup jobs
  /\ runs' = [i \in RunIds |-> None]
  /\ atWork' = {}
  /\ UNCHANGED <<asked, answer, written, arrived>>

Next ==
  \/ \E p \in Posts : Ask(p) \/ Accept(p) \/ Refuse(p)
  \/ \E i \in RunIds : Cancel(i)
  \/ \E j \in written : Arrive(j)
  \/ \E jobs \in SUBSET written : Lose(jobs) \/ Forget(jobs)

Spec == Init /\ [][Next]_vars
=============================================================================
