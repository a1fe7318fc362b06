---------------------------- MODULE Orchestrator ----------------------------
(***************************************************************************)
(* The orchestrator: POST /runs opens a channel, asserts the queues,       *)
(* publishes the jobs of the run and keeps a record of it in memory.       *)
(*                                                                         *)
(* All requests share one queue client.  Its connect() opens one more      *)
(* connection and makes its channel the current one for everybody; GET     *)
(* /health does that too.  Requests interleave at their awaits, but the    *)
(* loop that publishes awaits nothing that is pending, so it runs to its   *)
(* end before anything else does, the sending of what it wrote included.   *)
(*                                                                         *)
(* sendToQueue answers whether the channel's write buffer still has room;  *)
(* a job it answers false for is in the buffer like the others.            *)
(***************************************************************************)
EXTENDS Naturals, Sequences, Functions

CONSTANTS
  Posts,     \* requests POST /runs
  Probes,    \* requests GET /health
  MaxTests,  \* bound: tests of a run
  Room,      \* jobs a channel's buffer takes before sendToQueue answers false
  MaxMs,     \* bound: the clock, in milliseconds
  MaxLosses, \* bound: failed connects, lost connections and crashes
  None       \* no channel, no record

Requests == Posts \cup Probes
RunIds   == 0 .. MaxMs
Sizes    == 0 .. MaxTests
Positions == 1 .. MaxTests
Jobs     == RunIds \X Positions  \* a run and a position in its list of jobs

Records == [id : RunIds, status : {"QUEUED", "RUNNING", "FAILED", "CANCELLED"},
            total : Sizes, jobsPublished : Sizes]

ASSUME OrchestratorAssumption ==
  /\ MaxTests \in Nat \ {0}
  /\ Room \in Nat \ {0}
  /\ MaxMs \in Nat
  /\ MaxLosses \in Nat
  /\ Posts \cap Probes = {}
  /\ None \notin Requests \cup Records

VARIABLES
  clock,    \* Date.now()
  step,     \* step[r]: what the handler of r awaits
  state,    \* state[p]: the record that POST p builds
  waitsOn,  \* waitsOn[p]: the channel whose answer to assertQueue p awaits
  answer,   \* answer[p]: what the client of p was told
  runs,     \* the records by run id, in memory
  channel,  \* the client's current channel; r names the one r opened
  open,     \* channels that are open
  buffer,   \* buffer[c]: jobs written to channel c and not sent
  queue,    \* [Jobs -> Nat]: what reached test.execution
  lost,     \* history: jobs that were in the buffer of a channel that closed
  losses, crashes

vars == <<clock, step, state, waitsOn, answer, runs, channel, open, buffer,
          queue, lost, losses, crashes>>
requestVars == <<step, state, answer>>
brokerVars  == <<queue, lost, losses, crashes>>

TypeOK ==
  /\ clock \in RunIds
  /\ step \in [Requests -> {"idle", "connect", "assert", "done"}]
  /\ state \in [Posts -> Records \cup {None}]
  /\ waitsOn \in [Posts -> Requests \cup {None}]
  /\ answer \in [Posts -> {"none", "accepted", "failed"}]
  /\ runs \in [RunIds -> Records \cup {None}]
  /\ channel \in Requests \cup {None}
  /\ open \in SUBSET Requests
  /\ buffer \in [Requests -> Seq(Jobs)]
  /\ queue \in [Jobs -> Nat]
  /\ lost \in SUBSET Jobs
  /\ losses \in 0 .. MaxLosses
  /\ crashes \in 0 .. losses
  /\ \A p \in Posts : step[p] \in {"connect", "assert"} => state[p] # None
  /\ \A i \in RunIds : runs[i] # None => runs[i].id = i

Init ==
  /\ clock = 0
  /\ step = [r \in Requests |-> "idle"]
  /\ state = [p \in Posts |-> None]
  /\ waitsOn = [p \in Posts |-> None]
  /\ answer = [p \in Posts |-> "none"]
  /\ runs = [i \in RunIds |-> None]
  /\ channel = None
  /\ open = {}
  /\ buffer = [r \in Requests |-> <<>>]
  /\ queue = [j \in Jobs |-> 0]
  /\ lost = {}
  /\ losses = 0 /\ crashes = 0

Tick ==
  /\ clock < MaxMs
  /\ clock' = clock + 1
  /\ UNCHANGED <<requestVars, waitsOn, runs, channel, open, buffer, brokerVars>>

-----------------------------------------------------------------------------
(* POST /runs.  A request whose tests cannot be made is answered 400       *)
(* before it touches anything and is left out.                             *)

\* Mutant: the record is put into the map at once.
PostRunRecorded(p) ==
  /\ step[p] = "idle"
  /\ \E n \in Sizes :
       LET record == [id |-> clock, status |-> "QUEUED", total |-> n, jobsPublished |-> 0]
       IN  /\ state' = [state EXCEPT ![p] = record]
           /\ runs' = [runs EXCEPT ![clock] = record]
  /\ step' = [step EXCEPT ![p] = "connect"]
  /\ UNCHANGED <<clock, waitsOn, answer, channel, open, buffer, brokerVars>>

\* The record is built with the run id, the time in milliseconds, and is not yet
\* in the map.  A run may have no test: a testCount that is no number passes
\* Math.max(1, ...) as NaN, no test is made, and only a run of spec files is
\* refused for having none.
PostRun(p) ==
  /\ step[p] = "idle"
  /\ \E n \in Sizes :
       state' = [state EXCEPT ![p] =
         [id |-> clock, status |-> "QUEUED", total |-> n, jobsPublished |-> 0]]
  /\ step' = [step EXCEPT ![p] = "connect"]
  /\ UNCHANGED <<clock, waitsOn, answer, runs, channel, open, buffer, brokerVars>>

GetHealth(h) ==
  /\ step[h] = "idle"
  /\ step' = [step EXCEPT ![h] = "connect"]
  /\ UNCHANGED <<clock, state, waitsOn, answer, runs, channel, open, buffer, brokerVars>>

\* Mutant: a new channel takes over what the current one has not sent yet.
ConnectResends(r) ==
  /\ step[r] = "connect"
  /\ channel' = r
  /\ open' = open \cup {r}
  /\ buffer' = [buffer EXCEPT ![r] = IF channel = None THEN <<>> ELSE buffer[channel]]
  /\ IF r \in Posts
       THEN /\ step' = [step EXCEPT ![r] = "assert"]
            /\ waitsOn' = [waitsOn EXCEPT ![r] = r]
       ELSE /\ step' = [step EXCEPT ![r] = "done"]
            /\ UNCHANGED waitsOn
  /\ UNCHANGED <<clock, state, answer, runs, brokerVars>>

\* connect: what was the current channel stays open.
Connect(r) ==
  /\ step[r] = "connect"
  /\ channel' = r
  /\ open' = open \cup {r}
  /\ IF r \in Posts
       THEN /\ step' = [step EXCEPT ![r] = "assert"]
            /\ waitsOn' = [waitsOn EXCEPT ![r] = r]
       ELSE /\ step' = [step EXCEPT ![r] = "done"]
            /\ UNCHANGED waitsOn
  /\ UNCHANGED <<clock, state, answer, runs, buffer, brokerVars>>

\* assertQueues takes the channel anew for each queue.
AssertNext(p) ==
  /\ step[p] = "assert"
  /\ waitsOn[p] \in open
  /\ channel \in open
  /\ waitsOn' = [waitsOn EXCEPT ![p] = channel]
  /\ UNCHANGED <<clock, requestVars, runs, channel, open, buffer, brokerVars>>

\* Mutant: the catch leaves the request to time out.
FinishSilently(p, status, published) ==
  LET record == [state[p] EXCEPT !.status = status, !.jobsPublished = published]
  IN  /\ state' = [state EXCEPT ![p] = record]
      /\ runs' = [runs EXCEPT ![record.id] = record]
      /\ step' = [step EXCEPT ![p] = "done"]
      /\ answer' = [answer EXCEPT ![p] =
                      IF status = "RUNNING" THEN "accepted" ELSE "none"]

\* Mutant: the record is put under the time of its end.
FinishLate(p, status, published) ==
  LET record == [state[p] EXCEPT !.status = status, !.jobsPublished = published]
  IN  /\ state' = [state EXCEPT ![p] = record]
      /\ runs' = [runs EXCEPT ![clock] = record]
      /\ step' = [step EXCEPT ![p] = "done"]
      /\ answer' = [answer EXCEPT ![p] =
                      IF status = "RUNNING" THEN "accepted" ELSE "failed"]

\* The end of the handler.
Finish(p, status, published) ==
  LET record == [state[p] EXCEPT !.status = status, !.jobsPublished = published]
  IN  /\ state' = [state EXCEPT ![p] = record]
      /\ runs' = [runs EXCEPT ![record.id] = record]
      /\ step' = [step EXCEPT ![p] = "done"]
      /\ answer' = [answer EXCEPT ![p] =
                      IF status = "RUNNING" THEN "accepted" ELSE "failed"]

\* How many more jobs the current channel takes before it answers false.
Free == IF Len(buffer[channel]) < Room THEN Room - Len(buffer[channel]) ELSE 0

\* Mutant: the loop leaves the last job out.
WriteShort(p, n) ==
  buffer' = [buffer EXCEPT ![channel] = @ \o [i \in 1 .. n - 1 |-> <<state[p].id, i>>]]

\* Mutant: a job is written once for each of two queues.
WriteTwice(p, n) ==
  buffer' = [buffer EXCEPT ![channel] = @ \o [i \in 1 .. 2 * n |-> <<state[p].id, (i + 1) \div 2>>]]

\* Mutant: the jobs are given the time of the loop.
WriteLate(p, n) ==
  buffer' = [buffer EXCEPT ![channel] = @ \o [i \in 1 .. n |-> <<clock, i>>]]

Write(p, n) ==
  buffer' = [buffer EXCEPT ![channel] = @ \o [i \in 1 .. n |-> <<state[p].id, i>>]]

\* Mutant: a refused loop is run again from its first job.
PublishOver(p) ==
  /\ step[p] = "assert"
  /\ waitsOn[p] \in open
  /\ channel \in open
  /\ LET total == state[p].total
         taken == IF Free > 0 THEN Free ELSE 1
     IN  IF total < taken
           THEN Write(p, total) /\ Finish(p, "RUNNING", total)
           ELSE /\ Write(p, taken)
                /\ UNCHANGED requestVars /\ UNCHANGED runs
  /\ UNCHANGED <<clock, waitsOn, channel, open, brokerVars>>

\* Mutant: jobsPublished is set before the loop.
PublishCountsAll(p) ==
  /\ step[p] = "assert"
  /\ waitsOn[p] \in open
  /\ channel \in open
  /\ LET total == state[p].total
         taken == IF Free > 0 THEN Free ELSE 1
     IN  IF total < taken
           THEN Write(p, total) /\ Finish(p, "RUNNING", total)
           ELSE Write(p, taken) /\ Finish(p, "FAILED", total)
  /\ UNCHANGED <<clock, waitsOn, channel, open, brokerVars>>

\* The last answer to assertQueue, and the loop.  The job that fills the buffer
\* is the first one refused; it is written but not counted.
Publish(p) ==
  /\ step[p] = "assert"
  /\ waitsOn[p] \in open
  /\ channel \in open
  /\ LET total == state[p].total
         taken == IF Free > 0 THEN Free ELSE 1
     IN  IF total < taken
           THEN Write(p, total) /\ Finish(p, "RUNNING", total)
           ELSE Write(p, taken) /\ Finish(p, "FAILED", taken - 1)
  /\ UNCHANGED <<clock, waitsOn, channel, open, brokerVars>>

\* The answer that is awaited never comes, or the next call finds the current
\* channel closed.
ChannelFails(p) ==
  /\ step[p] = "assert"
  /\ waitsOn[p] \notin open \/ channel \notin open
  /\ Finish(p, "FAILED", 0)
  /\ UNCHANGED <<clock, waitsOn, channel, open, buffer, brokerVars>>

ConnectFails(r) ==
  /\ step[r] = "connect"
  /\ losses < MaxLosses
  /\ losses' = losses + 1
  /\ IF r \in Posts
       THEN Finish(r, "FAILED", 0)
       ELSE /\ step' = [step EXCEPT ![r] = "done"]
            /\ UNCHANGED <<state, answer, runs>>
  /\ UNCHANGED <<clock, waitsOn, channel, open, buffer, queue, lost, crashes>>

\* Mutant: a cancelled run is removed.
CancelForgets(i) ==
  /\ runs[i] # None
  /\ runs' = [runs EXCEPT ![i] = None]
  /\ UNCHANGED <<clock, requestVars, waitsOn, channel, open, buffer, brokerVars>>

\* POST /runs/:runId/cancel changes the record and nothing else.
Cancel(i) ==
  /\ runs[i] # None
  /\ runs' = [runs EXCEPT ![i].status = "CANCELLED"]
  /\ UNCHANGED <<clock, requestVars, waitsOn, channel, open, buffer, brokerVars>>

-----------------------------------------------------------------------------
(* External: the network and the broker.                                   *)

Send(c) ==
  /\ c \in open
  /\ buffer[c] # <<>>
  /\ queue' = [queue EXCEPT ![Head(buffer[c])] = @ + 1]
  /\ buffer' = [buffer EXCEPT ![c] = Tail(@)]
  /\ UNCHANGED <<clock, requestVars, waitsOn, runs, channel, open, lost, losses, crashes>>

\* The broker closes a connection in good order.
Close(c) ==
  /\ c \in open
  /\ losses < MaxLosses
  /\ losses' = losses + 1
  /\ open' = open \ {c}
  /\ buffer' = [buffer EXCEPT ![c] = <<>>]
  /\ lost' = lost \cup Range(buffer[c])
  /\ UNCHANGED <<clock, requestVars, waitsOn, runs, channel, queue, crashes>>

\* The process dies, for one because nothing listens to the errors of its
\* connections, and is started again with no memory.
Crash ==
  /\ losses < MaxLosses
  /\ losses' = losses + 1
  /\ crashes' = crashes + 1
  /\ step' = [r \in Requests |-> IF step[r] = "idle" THEN "idle" ELSE "done"]
  /\ waitsOn' = [p \in Posts |-> None]
  /\ runs' = [i \in RunIds |-> None]
  /\ channel' = None
  /\ open' = {}
  /\ buffer' = [r \in Requests |-> <<>>]
  /\ lost' = lost \cup UNION {Range(buffer[r]) : r \in Requests}
  /\ UNCHANGED <<clock, state, answer, queue>>

-----------------------------------------------------------------------------
HandlePost(p) == Publish(p) \/ ChannelFails(p)
HandleConnect(r) == Connect(r) \/ ConnectFails(r)

Next ==
  \/ Tick
  \/ \E p \in Posts : PostRun(p) \/ AssertNext(p) \/ HandlePost(p)
  \/ \E h \in Probes : GetHealth(h)
  \/ \E r \in Requests : HandleConnect(r) \/ Send(r) \/ Close(r)
  \/ \E i \in RunIds : Cancel(i)
  \/ Crash

Spec == Init /\ [][Next]_vars

(* A connect ends in one way or the other, the broker answers on a channel *)
(* that is open, and calls on a closed one fail.                           *)
Fairness ==
  /\ \A r \in Requests : WF_vars(HandleConnect(r))
  /\ \A p \in Posts : WF_vars(HandlePost(p))

FairSpec == Spec /\ Fairness

-----------------------------------------------------------------------------
(* Properties.                                                             *)

\* Two requests came within one millisecond and have one run id.
Shared(i) ==
  \E p, q \in Posts :
    p # q /\ state[p] # None /\ state[q] # None /\ state[p].id = i /\ state[q].id = i

\* The job was written to some channel.
Written(j) ==
  queue[j] > 0 \/ j \in lost \/ \E c \in Requests : j \in Range(buffer[c])

\* The record of a finished run and the broker agree, however requests share
\* channels: the jobs written are the first jobsPublished ones, plus one if a
\* refusal ended the run.
RecordMatchesJobs ==
  \A i \in RunIds : runs[i] # None /\ ~ Shared(i) =>
    \A n \in Positions :
      /\ n <= runs[i].jobsPublished => Written(<<i, n>>)
      /\ Written(<<i, n>>) =>
           \/ n <= runs[i].jobsPublished
           \/ n = runs[i].jobsPublished + 1 /\ runs[i].status # "RUNNING"

\* A job of a run is published at most once, so the workers start each test of
\* a run once, unless two runs share an id.
NoJobTwice ==
  \A i \in RunIds, n \in Positions : ~ Shared(i) =>
    /\ queue[<<i, n>>] <= 1
    /\ \A c \in Requests : \A k \in DOMAIN buffer[c] :
         buffer[c][k] = <<i, n>> =>
           /\ queue[<<i, n>>] = 0
           /\ \A d \in Requests : \A m \in DOMAIN buffer[d] :
                buffer[d][m] = <<i, n>> => d = c /\ m = k

\* As long as the process lives, a run whose client was told 202 can be looked
\* up and is RUNNING with all its jobs counted, or CANCELLED.
AcceptedIsKnown ==
  \A p \in Posts : answer[p] = "accepted" /\ crashes = 0 /\ ~ Shared(state[p].id) =>
    LET record == runs[state[p].id]
    IN  /\ record # None
        /\ record.status \in {"RUNNING", "CANCELLED"}
        /\ record.jobsPublished = record.total

\* A cancelled run stays cancelled while the process lives: no request that is
\* still at work brings it back, unless it has the same id.
CancelIsFinal ==
  [][\A i \in RunIds :
       runs[i] # None /\ runs[i].status = "CANCELLED" /\ crashes' = crashes
         => (runs'[i] # None /\ runs'[i].status = "CANCELLED") \/ Shared(i)]_vars

\* Every POST /runs is answered, unless the process dies first.
EveryPostAnswered ==
  \A p \in Posts : step[p] = "connect" ~> answer[p] # "none" \/ crashes > 0

-----------------------------------------------------------------------------
(* What the repository's README says of this part, refuted by the run      *)
(* orchestrator_doc_large_run.                                             *)

\* README: "designed to simulate the execution of 10,000 Playwright tests", "npm
\* run run:10k": a run of any configured size is accepted if nothing is lost.
RunOfAnySizeAccepted ==
  \A p \in Posts : losses = 0 => answer[p] # "failed"
=============================================================================
