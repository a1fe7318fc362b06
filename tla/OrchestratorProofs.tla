------------------------- MODULE OrchestratorProofs -------------------------
(***************************************************************************)
(* Theorems about Orchestrator for every set of requests, every size of    *)
(* run, write buffer and clock, and every number of losses and crashes.    *)
(***************************************************************************)
EXTENDS OrchestratorLifecycle, SequenceTheorems, TLAPS

Busy == {"connect", "assert"}

\* Every record was written by a request that has finished, and a request that
\* was never received has none.
Authored ==
  /\ \A p \in Posts : step[p] = "idle" <=> state[p] = None
  /\ \A i \in RunIds : runs[i] # None =>
       \E p \in Posts : step[p] = "done" /\ state[p] # None /\ state[p].id = i

\* What was accepted was published in full.
Accepted ==
  \A p \in Posts : answer[p] = "accepted" =>
    step[p] = "done" /\ state[p] # None /\ state[p].jobsPublished = state[p].total

OrchInv == TypeOK /\ Authored /\ Accepted /\ AcceptedIsKnown

-----------------------------------------------------------------------------
LEMMA RecordsArePresent == \A rec \in Records : rec # None
  BY OrchestratorAssumption

LEMMA CancelledRecord ==
  \A rec \in Records :
    LET cancelled == [rec EXCEPT !.status = "CANCELLED"]
    IN  cancelled \in Records /\ cancelled.id = rec.id
  BY DEF Records

LEMMA NewRecord ==
  ASSUME NEW n \in Sizes, NEW i \in RunIds
  PROVE  [id |-> i, status |-> "QUEUED", total |-> n, jobsPublished |-> 0] \in Records
  BY OrchestratorAssumption DEF Records, Sizes

\* What the end of a handler does, with a count of jobs in range.
LEMMA FinishFacts ==
  ASSUME TypeOK, NEW p \in Posts, step[p] \in Busy,
         NEW status \in {"RUNNING", "FAILED"}, NEW n \in 0 .. MaxTests,
         Finish(p, status, n)
  PROVE  /\ state[p] \in Records
         /\ state'[p] \in Records
         /\ state'[p].id = state[p].id
         /\ state'[p].total = state[p].total
         /\ state'[p].status = status
         /\ state'[p].jobsPublished = n
         /\ \A q \in Posts : q # p => state'[q] = state[q]
         /\ state' \in [Posts -> Records \cup {None}]
         /\ runs' \in [RunIds -> Records \cup {None}]
         /\ runs'[state[p].id] = state'[p]
         /\ \A i \in RunIds : i # state[p].id => runs'[i] = runs[i]
         /\ step' \in [Requests -> {"idle", "connect", "assert", "done"}]
         /\ step'[p] = "done"
         /\ \A r \in Requests : r # p => step'[r] = step[r]
         /\ answer' \in [Posts -> {"none", "accepted", "failed"}]
         /\ answer'[p] = IF status = "RUNNING" THEN "accepted" ELSE "failed"
         /\ \A q \in Posts : q # p => answer'[q] = answer[q]
<1> DEFINE record == [state[p] EXCEPT !.status = status, !.jobsPublished = n]
<1>1. state[p] \in Records
  BY DEF TypeOK, Busy
<1>2. /\ record \in Records
      /\ record.id = state[p].id
      /\ record.total = state[p].total
      /\ record.status = status
      /\ record.jobsPublished = n
  BY <1>1 DEF Records, Sizes
<1>3. p \in Requests
  BY DEF Requests
<1>4. state[p].id \in RunIds
  BY <1>1 DEF Records
<1>5. /\ state' = [state EXCEPT ![p] = record]
      /\ runs' = [runs EXCEPT ![record.id] = record]
      /\ step' = [step EXCEPT ![p] = "done"]
      /\ answer' = [answer EXCEPT ![p] =
                      IF status = "RUNNING" THEN "accepted" ELSE "failed"]
  BY DEF Finish
<1> HIDE DEF record
<1>6. state'[p] = record /\ state' \in [Posts -> Records \cup {None}]
  BY <1>2, <1>5 DEF TypeOK
<1>7. /\ runs'[state[p].id] = record
      /\ runs' \in [RunIds -> Records \cup {None}]
  BY <1>2, <1>4, <1>5 DEF TypeOK
<1>8. /\ step' \in [Requests -> {"idle", "connect", "assert", "done"}]
      /\ step'[p] = "done"
  BY <1>3, <1>5 DEF TypeOK
<1>9. QED
  BY <1>1, <1>2, <1>4, <1>5, <1>6, <1>7, <1>8 DEF TypeOK

\* The jobs written by the loop, and that they are in range.
LEMMA WriteFacts ==
  ASSUME TypeOK, NEW p \in Posts, state[p] \in Records, channel \in Requests,
         NEW n \in 0 .. MaxTests, Write(p, n)
  PROVE  buffer' \in [Requests -> Seq(Jobs)]
<1> DEFINE written == [i \in 1 .. n |-> <<state[p].id, i>>]
<1>1. written \in Seq(Jobs)
  BY OrchestratorAssumption DEF Jobs, Records, Positions
<1>2. buffer[channel] \o written \in Seq(Jobs)
  BY <1>1, ConcatProperties DEF TypeOK
<1>3. buffer' = [buffer EXCEPT ![channel] = @ \o written]
  BY DEF Write
<1> HIDE DEF written
<1>4. QED
  BY <1>2, <1>3 DEF TypeOK

LEMMA FreeInRange ==
  ASSUME TypeOK, channel \in Requests
  PROVE  Free \in Nat
<1>1. Len(buffer[channel]) \in Nat
  BY DEF TypeOK
<1>2. QED
  BY <1>1, OrchestratorAssumption DEF Free

\* The loop of p writes its first n jobs: all that the run has, or up to the one
\* that is refused.
Loop(p, n) ==
  /\ channel \in Requests
  /\ n <= state[p].total
  /\ Write(p, n)
  /\ \/ n = state[p].total /\ Finish(p, "RUNNING", n)
     \/ n > 0 /\ Finish(p, "FAILED", n - 1)

\* Both ways a handler ends with the record of a post.
Ends(p) ==
  /\ step[p] \in Busy
  /\ (\E n \in Sizes : Loop(p, n)) \/ Finish(p, "FAILED", 0)

LEMMA PublishLoops ==
  ASSUME TypeOK, NEW p \in Posts, Publish(p)
  PROVE  /\ step[p] \in Busy /\ state[p] \in Records
         /\ \E n \in Sizes : Loop(p, n)
<1>1. step[p] \in Busy /\ channel \in Requests /\ state[p] \in Records
  BY DEF Publish, Busy, TypeOK
<1>2. Free \in Nat
  BY <1>1, FreeInRange
<1> DEFINE taken == IF Free > 0 THEN Free ELSE 1
<1>3. state[p].total \in Sizes /\ taken \in Nat /\ taken > 0
  BY <1>1, <1>2 DEF Records
<1>4. CASE state[p].total < taken
  <2>1. Write(p, state[p].total) /\ Finish(p, "RUNNING", state[p].total)
    BY <1>4 DEF Publish
  <2>2. state[p].total <= state[p].total
    BY <1>3, OrchestratorAssumption DEF Sizes
  <2>3. QED
    BY <1>1, <1>3, <2>1, <2>2 DEF Loop
<1>5. CASE ~ (state[p].total < taken)
  <2>1. Write(p, taken) /\ Finish(p, "FAILED", taken - 1)
    BY <1>5 DEF Publish
  <2> HIDE DEF taken
  <2>2. taken \in Sizes /\ taken <= state[p].total
    BY <1>3, <1>5, OrchestratorAssumption DEF Sizes
  <2>3. QED
    BY <1>1, <1>3, <2>1, <2>2 DEF Loop
<1>6. QED
  BY <1>4, <1>5

LEMMA PublishFacts ==
  ASSUME TypeOK, NEW p \in Posts, Publish(p)
  PROVE  Ends(p) /\ buffer' \in [Requests -> Seq(Jobs)]
<1>1. PICK n \in Sizes : Loop(p, n)
  BY PublishLoops
<1>2. n \in 0 .. MaxTests
  BY OrchestratorAssumption DEF Sizes
<1>3. QED
  BY <1>1, <1>2, PublishLoops, WriteFacts DEF Loop, Ends

\* How many jobs a handler that ends has counted.
LEMMA EndCounts ==
  ASSUME TypeOK, NEW p \in Posts, Ends(p)
  PROVE  \/ /\ Finish(p, "RUNNING", state[p].total)
            /\ state[p].total \in 0 .. MaxTests
         \/ \E n \in 0 .. MaxTests : Finish(p, "FAILED", n)
<1>1. 0 \in 0 .. MaxTests /\ \A n \in Sizes : n \in 0 .. MaxTests /\ (n > 0 => n - 1 \in 0 .. MaxTests)
  BY OrchestratorAssumption DEF Sizes
<1>2. QED
  BY <1>1 DEF Ends, Loop

LEMMA EndFacts ==
  ASSUME TypeOK, NEW p \in Posts, Ends(p)
  PROVE  /\ state[p] \in Records
         /\ state'[p] \in Records
         /\ state'[p].id = state[p].id
         /\ \A q \in Posts : q # p => state'[q] = state[q]
         /\ state' \in [Posts -> Records \cup {None}]
         /\ runs' \in [RunIds -> Records \cup {None}]
         /\ runs'[state[p].id] = state'[p]
         /\ \A i \in RunIds : i # state[p].id => runs'[i] = runs[i]
         /\ step' \in [Requests -> {"idle", "connect", "assert", "done"}]
         /\ step'[p] = "done"
         /\ \A r \in Requests : r # p => step'[r] = step[r]
         /\ answer' \in [Posts -> {"none", "accepted", "failed"}]
         /\ \A q \in Posts : q # p => answer'[q] = answer[q]
         /\ answer'[p] = "accepted" =>
              state'[p].status = "RUNNING" /\ state'[p].jobsPublished = state'[p].total
<1>1. CASE /\ Finish(p, "RUNNING", state[p].total)
           /\ state[p].total \in 0 .. MaxTests
  BY <1>1, FinishFacts DEF Ends
<1>2. CASE \E n \in 0 .. MaxTests : Finish(p, "FAILED", n)
  BY <1>2, FinishFacts DEF Ends
<1>3. QED
  BY <1>1, <1>2, EndCounts

LEMMA EndingActions ==
  ASSUME TypeOK, NEW p \in Posts,
         Publish(p) \/ ChannelFails(p) \/ ConnectFails(p)
  PROVE  Ends(p)
<1>1. p \in Requests
  BY DEF Requests
<1>2. QED
  BY <1>1, PublishFacts DEF ChannelFails, ConnectFails, Ends, Busy

\* Each conjunct of TypeOK, as one action leaves it.
LEMMA StepTypeOK == TypeOK /\ [Next]_vars => TypeOK'
<1> SUFFICES ASSUME TypeOK, [Next]_vars
             PROVE  TypeOK'
  OBVIOUS
<1> USE OrchestratorAssumption
<1>1. CASE Tick
  BY <1>1 DEF Tick, requestVars, brokerVars, TypeOK, RunIds
<1>2. ASSUME NEW p \in Posts, PostRun(p)
      PROVE  TypeOK'
  <2>1. PICK n \in Sizes : state' = [state EXCEPT ![p] =
           [id |-> clock, status |-> "QUEUED", total |-> n, jobsPublished |-> 0]]
    BY <1>2 DEF PostRun
  <2>2. [id |-> clock, status |-> "QUEUED", total |-> n, jobsPublished |-> 0] \in Records
    BY NewRecord DEF TypeOK
  <2>3. state' \in [Posts -> Records \cup {None}] /\ state'[p] # None
    BY <2>1, <2>2, RecordsArePresent DEF TypeOK
  <2>4. QED
    BY <1>2, <2>1, <2>3 DEF PostRun, brokerVars, TypeOK, Requests
<1>3. ASSUME NEW p \in Posts, AssertNext(p)
      PROVE  TypeOK'
  BY <1>3 DEF AssertNext, requestVars, brokerVars, TypeOK, Requests
<1>4. ASSUME NEW p \in Posts, Ends(p), UNCHANGED <<clock, waitsOn, channel, open>>,
             buffer' \in [Requests -> Seq(Jobs)], UNCHANGED <<queue, lost>>,
             losses' \in 0 .. MaxLosses, crashes' \in 0 .. losses'
      PROVE  TypeOK'
  <2>1. ASSUME NEW q \in Posts, step'[q] \in {"connect", "assert"}
        PROVE  state'[q] # None
    <3>1. q # p
      BY <1>4, <2>1, EndFacts
    <3>2. step'[q] = step[q] /\ state'[q] = state[q]
      BY <1>4, <3>1, EndFacts DEF Requests
    <3>3. QED
      BY <2>1, <3>2 DEF TypeOK
  <2>2. ASSUME NEW i \in RunIds, runs'[i] # None
        PROVE  runs'[i].id = i
    <3>1. CASE i = state[p].id
      BY <1>4, <3>1, EndFacts
    <3>2. CASE i # state[p].id
      <4>1. runs'[i] = runs[i]
        BY <1>4, <3>2, EndFacts
      <4>2. QED
        BY <2>2, <4>1 DEF TypeOK
    <3>3. QED
      BY <3>1, <3>2
  <2>3. QED
    BY <1>4, <2>1, <2>2, EndFacts DEF TypeOK
<1>5. ASSUME NEW p \in Posts, HandlePost(p)
      PROVE  TypeOK'
  <2>1. Ends(p)
    BY <1>5, EndingActions DEF HandlePost
  <2>2. buffer' \in [Requests -> Seq(Jobs)]
    BY <1>5, PublishFacts DEF HandlePost, ChannelFails, TypeOK
  <2>3. UNCHANGED <<clock, waitsOn, channel, open, queue, lost, losses, crashes>>
    BY <1>5 DEF HandlePost, Publish, ChannelFails, brokerVars
  <2>4. QED
    BY <1>4, <2>1, <2>2, <2>3 DEF TypeOK
<1>6. ASSUME NEW h \in Probes, GetHealth(h)
      PROVE  TypeOK'
  BY <1>6 DEF GetHealth, brokerVars, TypeOK, Requests
<1>7. ASSUME NEW r \in Requests, Connect(r)
      PROVE  TypeOK'
  <2>1. /\ channel' \in Requests \cup {None}
        /\ open' \in SUBSET Requests
        /\ waitsOn' \in [Posts -> Requests \cup {None}]
        /\ step' \in [Requests -> {"idle", "connect", "assert", "done"}]
    <3>1. channel' = r /\ open' = open \cup {r}
      BY <1>7 DEF Connect
    <3>2. waitsOn' \in [Posts -> Requests \cup {None}]
      <4>1. CASE r \in Posts
        <5>1. waitsOn' = [waitsOn EXCEPT ![r] = r]
          BY <1>7, <4>1 DEF Connect
        <5>2. QED
          BY <4>1, <5>1 DEF TypeOK
      <4>2. CASE r \notin Posts
        <5>1. waitsOn' = waitsOn
          BY <1>7, <4>2 DEF Connect
        <5>2. QED
          BY <5>1 DEF TypeOK
      <4>3. QED
        BY <4>1, <4>2
    <3>3. PICK next \in {"assert", "done"} : step' = [step EXCEPT ![r] = next]
      BY <1>7 DEF Connect
    <3>4. step' \in [Requests -> {"idle", "connect", "assert", "done"}]
      BY <3>3 DEF TypeOK
    <3>5. QED
      BY <3>1, <3>2, <3>4 DEF TypeOK
  <2>2. ASSUME NEW q \in Posts, step'[q] \in {"connect", "assert"}
        PROVE  state'[q] # None
    <3>1. q \in Requests /\ step[q] \in {"connect", "assert"}
      BY <1>7, <2>2 DEF Connect, TypeOK, Requests
    <3>2. QED
      BY <1>7, <3>1 DEF Connect, TypeOK
  <2>3. QED
    <3>1. UNCHANGED <<clock, state, answer, runs, buffer, queue, lost, losses, crashes>>
      BY <1>7 DEF Connect, brokerVars
    <3>2. QED
      BY <2>1, <2>2, <3>1 DEF TypeOK
<1>8. ASSUME NEW r \in Requests, ConnectFails(r)
      PROVE  TypeOK'
  <2>1. losses' \in 0 .. MaxLosses /\ crashes' \in 0 .. losses'
    BY <1>8 DEF ConnectFails, TypeOK
  <2>2. CASE r \in Posts
    BY <1>4, <1>8, <2>1, <2>2, EndingActions DEF ConnectFails, TypeOK
  <2>3. CASE r \notin Posts
    <3> step' = [step EXCEPT ![r] = "done"]
      BY <1>8, <2>3 DEF ConnectFails
    <3>1. step' \in [Requests -> {"idle", "connect", "assert", "done"}]
      BY DEF TypeOK
    <3>2. \A q \in Posts : step'[q] = step[q]
      BY <2>3 DEF TypeOK, Requests
    <3>3. QED
      <4>1. UNCHANGED <<clock, state, answer, runs, waitsOn, channel, open, buffer, queue, lost>>
        BY <1>8, <2>3 DEF ConnectFails
      <4>2. QED
        BY <2>1, <3>1, <3>2, <4>1 DEF TypeOK
  <2>4. QED
    BY <2>2, <2>3
<1>9. ASSUME NEW c \in Requests, Send(c)
      PROVE  TypeOK'
  <2>1. Head(buffer[c]) \in Jobs /\ Tail(buffer[c]) \in Seq(Jobs)
    BY <1>9, HeadTailProperties DEF Send, TypeOK
  <2>2. queue' \in [Jobs -> Nat] /\ buffer' \in [Requests -> Seq(Jobs)]
    BY <1>9, <2>1 DEF Send, TypeOK
  <2>3. QED
    BY <1>9, <2>2 DEF Send, requestVars, TypeOK
<1>10. ASSUME NEW c \in Requests, Close(c)
       PROVE  TypeOK'
  <2>1. Range(buffer[c]) \subseteq Jobs
    BY DEF Range, TypeOK
  <2>2. buffer' \in [Requests -> Seq(Jobs)]
    BY <1>10 DEF Close, TypeOK
  <2>3. losses' \in 0 .. MaxLosses /\ crashes' \in 0 .. losses'
    BY <1>10 DEF Close, TypeOK
  <2>4. QED
    BY <1>10, <2>1, <2>2, <2>3 DEF Close, requestVars, TypeOK
<1>11. ASSUME NEW i \in RunIds, Cancel(i)
       PROVE  TypeOK'
  <2> DEFINE cancelled == [runs[i] EXCEPT !.status = "CANCELLED"]
  <2>a. runs[i] \in Records
    BY <1>11 DEF Cancel, TypeOK
  <2>1. cancelled \in Records /\ cancelled.id = runs[i].id
    BY <2>a, CancelledRecord
  <2>b. runs' = [runs EXCEPT ![i] = cancelled]
    BY <1>11 DEF Cancel
  <2> HIDE DEF cancelled
  <2>2. runs' \in [RunIds -> Records \cup {None}]
    BY <2>1, <2>b DEF TypeOK
  <2>3. \A k \in RunIds : runs'[k] # None => runs'[k].id = k
    BY <1>11, <2>1, <2>b DEF Cancel, TypeOK
  <2>4. QED
    BY <1>11, <2>2, <2>3 DEF Cancel, requestVars, brokerVars, TypeOK
<1>12. CASE Crash
  <2>1. \A c \in Requests : Range(buffer[c]) \subseteq Jobs
    BY DEF Range, TypeOK
  <2>2. lost' \in SUBSET Jobs
    BY <1>12, <2>1 DEF Crash, TypeOK
  <2>3. losses' \in 0 .. MaxLosses /\ crashes' \in 0 .. losses'
    BY <1>12 DEF Crash, TypeOK
  <2>4. /\ step' \in [Requests -> {"idle", "connect", "assert", "done"}]
        /\ \A p \in Posts : step'[p] \notin {"connect", "assert"}
    BY <1>12 DEF Crash, TypeOK, Requests
  <2>5. buffer' \in [Requests -> Seq(Jobs)] /\ runs' \in [RunIds -> Records \cup {None}]
    BY <1>12 DEF Crash
  <2>6. QED
    BY <1>12, <2>2, <2>3, <2>4, <2>5 DEF Crash, TypeOK
<1>13. CASE UNCHANGED vars
  BY <1>13 DEF vars, TypeOK
<1>14. QED
  BY <1>1, <1>2, <1>3, <1>5, <1>6, <1>7, <1>8, <1>9, <1>10, <1>11, <1>12, <1>13
     DEF Next, HandleConnect

-----------------------------------------------------------------------------
(* What one step may do to a request and to a record.                      *)

Untouched(p) ==
  /\ state'[p] = state[p]
  /\ answer'[p] = answer[p]
  /\ step'[p] = step[p] \/ (step[p] = "connect" /\ step'[p] = "assert")

Received(p) ==
  /\ step[p] = "idle"
  /\ step'[p] = "connect"
  /\ state'[p] # None /\ state'[p].jobsPublished = 0
  /\ answer'[p] = answer[p]

LEMMA EndLeavesOthers ==
  ASSUME TypeOK, NEW q \in Posts, Ends(q), NEW p \in Posts, p # q
  PROVE  Untouched(p)
<1>1. p \in Requests
  BY DEF Requests
<1>2. QED
  BY <1>1, EndFacts DEF Untouched

LEMMA PostCases ==
  ASSUME TypeOK, [Next]_vars, ~ Crash, NEW p \in Posts
  PROVE  Untouched(p) \/ Received(p) \/ Ends(p)
<1>1. p \in Requests
  BY DEF Requests
<1>2. ASSUME NEW q \in Posts, Ends(q)
      PROVE  Untouched(p) \/ Ends(p)
  BY <1>2, EndLeavesOthers
<1>3. ASSUME NEW q \in Posts, PostRun(q)
      PROVE  Untouched(p) \/ Received(p)
  <2>1. PICK n \in Sizes : state' = [state EXCEPT ![q] =
           [id |-> clock, status |-> "QUEUED", total |-> n, jobsPublished |-> 0]]
    BY <1>3 DEF PostRun
  <2> DEFINE record == [id |-> clock, status |-> "QUEUED", total |-> n, jobsPublished |-> 0]
  <2>2. record # None /\ record.jobsPublished = 0
    BY NewRecord, RecordsArePresent DEF TypeOK
  <2> HIDE DEF record
  <2>3. /\ state' = [state EXCEPT ![q] = record]
        /\ step[q] = "idle" /\ step' = [step EXCEPT ![q] = "connect"]
        /\ answer' = answer
    BY <1>3, <2>1 DEF PostRun, record
  <2>4. QED
    BY <1>1, <2>2, <2>3 DEF Untouched, Received, TypeOK
<1>4. ASSUME NEW h \in Probes, GetHealth(h)
      PROVE  Untouched(p)
  <2>1. h # p
    BY OrchestratorAssumption
  <2>2. QED
    BY <1>1, <1>4, <2>1 DEF GetHealth, Untouched, TypeOK
<1>5. ASSUME NEW r \in Requests, Connect(r)
      PROVE  Untouched(p)
  <2>1. /\ state' = state /\ answer' = answer /\ step[r] = "connect"
        /\ r \in Posts => step' = [step EXCEPT ![r] = "assert"]
        /\ r \notin Posts => step' = [step EXCEPT ![r] = "done"]
    BY <1>5 DEF Connect
  <2>2. QED
    BY <1>1, <2>1 DEF Untouched, TypeOK
<1>6. ASSUME NEW r \in Requests, ConnectFails(r)
      PROVE  Untouched(p) \/ Ends(p)
  <2>1. CASE r \in Posts
    BY <1>2, <1>6, <2>1, EndingActions
  <2>2. CASE r \notin Posts
    <3>1. state' = state /\ answer' = answer /\ step' = [step EXCEPT ![r] = "done"]
      BY <1>6, <2>2 DEF ConnectFails
    <3>2. QED
      BY <1>1, <2>2, <3>1 DEF Untouched, TypeOK
  <2>3. QED
    BY <2>1, <2>2
<1>7. ASSUME NEW q \in Posts, HandlePost(q)
      PROVE  Untouched(p) \/ Ends(p)
  BY <1>2, <1>7, EndingActions DEF HandlePost
<1>8. ASSUME UNCHANGED requestVars
      PROVE  Untouched(p)
  BY <1>8 DEF requestVars, Untouched
<1>9. ASSUME NEW q \in Posts, AssertNext(q)
      PROVE  Untouched(p)
  BY <1>8, <1>9 DEF AssertNext
<1>10. ASSUME NEW r \in Requests, Send(r) \/ Close(r)
       PROVE  Untouched(p)
  BY <1>8, <1>10 DEF Send, Close
<1>11. ASSUME NEW i \in RunIds, Cancel(i)
       PROVE  Untouched(p)
  BY <1>8, <1>11 DEF Cancel
<1>12. CASE Tick
  BY <1>8, <1>12 DEF Tick
<1>13. CASE UNCHANGED vars
  BY <1>8, <1>13 DEF vars, requestVars
<1>14. QED
  BY <1>3, <1>4, <1>5, <1>6, <1>7, <1>9, <1>10, <1>11, <1>12, <1>13
     DEF Next, HandleConnect

Cancelled(i) ==
  runs[i] # None /\ runs'[i] = [runs[i] EXCEPT !.status = "CANCELLED"]

LEMMA RunCases ==
  ASSUME TypeOK, [Next]_vars, ~ Crash, NEW i \in RunIds
  PROVE  \/ runs'[i] = runs[i]
         \/ Cancelled(i)
         \/ \E p \in Posts : Ends(p) /\ state[p].id = i
<1>1. ASSUME NEW p \in Posts, Ends(p)
      PROVE  runs'[i] = runs[i] \/ state[p].id = i
  BY <1>1, EndFacts
<1>2. ASSUME NEW k \in RunIds, Cancel(k)
      PROVE  runs'[i] = runs[i] \/ Cancelled(i)
  BY <1>2 DEF Cancel, Cancelled, TypeOK
<1>3. ASSUME NEW p \in Posts, PostRun(p) \/ AssertNext(p)
      PROVE  runs' = runs
  BY <1>3 DEF PostRun, AssertNext
<1>4. ASSUME NEW h \in Probes, GetHealth(h)
      PROVE  runs' = runs
  BY <1>4 DEF GetHealth
<1>5. ASSUME NEW r \in Requests, Connect(r) \/ Send(r) \/ Close(r)
      PROVE  runs' = runs
  BY <1>5 DEF Connect, Send, Close
<1>6. ASSUME NEW r \in Requests, ConnectFails(r)
      PROVE  runs' = runs \/ (r \in Posts /\ Ends(r))
  BY <1>6, EndingActions DEF ConnectFails
<1>7. ASSUME NEW p \in Posts, HandlePost(p)
      PROVE  Ends(p)
  BY <1>7, EndingActions DEF HandlePost
<1>8. CASE Tick \/ UNCHANGED vars
  BY <1>8 DEF Tick, vars
<1>9. QED
  BY <1>1, <1>2, <1>3, <1>4, <1>5, <1>6, <1>7, <1>8 DEF Next, HandleConnect

-----------------------------------------------------------------------------
(* The invariant.                                                          *)

LEMMA OrchInit == Init => OrchInv
<1> SUFFICES ASSUME Init
             PROVE  OrchInv
  OBVIOUS
<1> USE OrchestratorAssumption DEF Init
<1>1. TypeOK
  <2>1. buffer \in [Requests -> Seq(Jobs)]
    OBVIOUS
  <2>2. 0 \in RunIds /\ \A p \in Posts : p \in Requests
    BY DEF RunIds, Requests
  <2>3. QED
    BY <2>1, <2>2 DEF TypeOK
<1>2. Authored
  BY DEF Authored, Requests
<1>3. Accepted /\ AcceptedIsKnown
  BY DEF Accepted, AcceptedIsKnown
<1>4. QED
  BY <1>1, <1>2, <1>3 DEF OrchInv

\* An id, once shared, stays so.
LEMMA SharedStays ==
  ASSUME OrchInv, [Next]_vars, ~ Crash, NEW i \in RunIds, Shared(i)
  PROVE  Shared(i)'
<1>1. ASSUME NEW p \in Posts, state[p] # None
      PROVE  state'[p] # None /\ state'[p].id = state[p].id
  <2>1. TypeOK /\ step[p] # "idle"
    BY <1>1 DEF OrchInv, Authored
  <2>2. CASE Untouched(p)
    BY <1>1, <2>2 DEF Untouched
  <2>3. CASE Ends(p)
    BY <2>1, <2>3, EndFacts, RecordsArePresent
  <2>4. QED
    BY <2>1, <2>2, <2>3, PostCases DEF Received
<1>2. QED
  BY <1>1 DEF Shared

\* A handler that ends with the id of a record it did not write shares that id.
LEMMA EndingAgainShares ==
  ASSUME OrchInv, NEW p \in Posts, Ends(p), NEW i \in RunIds,
         state[p].id = i, runs[i] # None
  PROVE  Shared(i)
<1>1. PICK q \in Posts : step[q] = "done" /\ state[q] # None /\ state[q].id = i
  BY DEF OrchInv, Authored
<1>2. state[p] # None /\ p # q
  BY <1>1, EndFacts, RecordsArePresent DEF OrchInv, Ends, Busy
<1>3. QED
  BY <1>1, <1>2 DEF Shared

LEMMA StepAuthored == OrchInv /\ [Next]_vars /\ ~ Crash => Authored'
<1> SUFFICES ASSUME OrchInv, [Next]_vars, ~ Crash
             PROVE  Authored'
  OBVIOUS
<1>1. TypeOK
  BY DEF OrchInv
<1>2. ASSUME NEW p \in Posts
      PROVE  step'[p] = "idle" <=> state'[p] = None
  <2>1. CASE Untouched(p)
    BY <2>1 DEF Untouched, OrchInv, Authored
  <2>2. CASE Received(p)
    BY <2>2 DEF Received
  <2>3. CASE Ends(p)
    BY <1>1, <2>3, EndFacts, RecordsArePresent DEF Requests
  <2>4. QED
    BY <1>1, <2>1, <2>2, <2>3, PostCases
<1>3. ASSUME NEW i \in RunIds, runs'[i] # None
      PROVE  \E p \in Posts : step'[p] = "done" /\ state'[p] # None /\ state'[p].id = i
  <2>1. CASE runs[i] # None
    <3>1. PICK p \in Posts : step[p] = "done" /\ state[p] # None /\ state[p].id = i
      BY <2>1 DEF OrchInv, Authored
    <3>2. Untouched(p)
      BY <1>1, <3>1, PostCases DEF Received, Ends, Busy
    <3>3. QED
      BY <3>1, <3>2 DEF Untouched
  <2>2. CASE runs[i] = None
    <3>1. PICK p \in Posts : Ends(p) /\ state[p].id = i
      BY <1>1, <1>3, <2>2, RunCases DEF Cancelled
    <3>2. QED
      BY <1>1, <3>1, EndFacts, RecordsArePresent
  <2>3. QED
    BY <2>1, <2>2
<1>4. QED
  BY <1>2, <1>3 DEF Authored

LEMMA StepAccepted == OrchInv /\ [Next]_vars /\ ~ Crash => Accepted'
<1> SUFFICES ASSUME OrchInv, [Next]_vars, ~ Crash,
                    NEW p \in Posts, answer'[p] = "accepted"
             PROVE  /\ step'[p] = "done" /\ state'[p] # None
                    /\ state'[p].jobsPublished = state'[p].total
  BY DEF Accepted
<1>1. TypeOK
  BY DEF OrchInv
<1>2. CASE Untouched(p)
  BY <1>2 DEF Untouched, OrchInv, Accepted
<1>3. CASE Received(p)
  BY <1>3 DEF Received, OrchInv, Accepted
<1>4. CASE Ends(p)
  BY <1>1, <1>4, EndFacts, RecordsArePresent
<1>5. QED
  BY <1>1, <1>2, <1>3, <1>4, PostCases

LEMMA OnlyCrashCounts ==
  ASSUME TypeOK, [Next]_vars
  PROVE  Crash <=> crashes' # crashes
<1>1. Crash => crashes' # crashes
  BY OrchestratorAssumption DEF Crash, TypeOK
<1>2. ASSUME ~ Crash
      PROVE  crashes' = crashes
  BY <1>2 DEF Next, Tick, PostRun, AssertNext, HandlePost, Publish, ChannelFails,
     GetHealth, HandleConnect, Connect, ConnectFails, Send, Close, Cancel, brokerVars, vars
<1>3. QED
  BY <1>1, <1>2

\* The record of an accepted run, as the property has it.
KnownIn(rec) ==
  /\ rec # None
  /\ rec.status \in {"RUNNING", "CANCELLED"}
  /\ rec.jobsPublished = rec.total

LEMMA CancelledIsKnown ==
  ASSUME TypeOK, NEW i \in RunIds, KnownIn(runs[i]), Cancelled(i)
  PROVE  KnownIn(runs'[i])
<1>1. runs[i] \in Records
  BY DEF KnownIn, TypeOK
<1>2. QED
  BY <1>1, RecordsArePresent DEF KnownIn, Cancelled, Records

LEMMA StepAcceptedIsKnown == OrchInv /\ [Next]_vars /\ ~ Crash => AcceptedIsKnown'
<1> SUFFICES ASSUME OrchInv, [Next]_vars, ~ Crash, NEW p \in Posts,
                    answer'[p] = "accepted", crashes' = 0, ~ Shared(state[p].id)'
             PROVE  KnownIn(runs'[state'[p].id])
  BY DEF AcceptedIsKnown, KnownIn
<1>1. TypeOK /\ crashes = 0
  BY OnlyCrashCounts DEF OrchInv
<1>2. CASE Ends(p)
  BY <1>1, <1>2, EndFacts, RecordsArePresent DEF KnownIn
<1>3. CASE Untouched(p)
  <2> DEFINE i == state[p].id
  <2>1. /\ answer[p] = "accepted" /\ state'[p] = state[p]
        /\ step[p] = "done" /\ state[p] # None
    BY <1>3 DEF Untouched, OrchInv, Accepted
  <2>2. i \in RunIds
    BY <1>1, <2>1 DEF TypeOK, Records
  <2>3. ~ Shared(i)' /\ ~ Shared(i)
    BY <2>1, <2>2, SharedStays
  <2>4. KnownIn(runs[i])
    BY <1>1, <2>1, <2>3 DEF OrchInv, AcceptedIsKnown, KnownIn
  <2>5. ~ \E q \in Posts : Ends(q) /\ state[q].id = i
    BY <2>2, <2>3, <2>4, EndingAgainShares DEF KnownIn
  <2>6. runs'[i] = runs[i] \/ Cancelled(i)
    BY <1>1, <2>2, <2>5, RunCases
  <2>7. QED
    BY <1>1, <2>1, <2>2, <2>4, <2>6, CancelledIsKnown
<1>4. CASE Received(p)
  BY <1>4 DEF Received, OrchInv, Accepted
<1>5. QED
  BY <1>1, <1>2, <1>3, <1>4, PostCases

\* A crash leaves no record and no handler at work.
LEMMA CrashStep == OrchInv /\ Crash => Authored' /\ Accepted' /\ AcceptedIsKnown'
<1> SUFFICES ASSUME OrchInv, Crash
             PROVE  Authored' /\ Accepted' /\ AcceptedIsKnown'
  OBVIOUS
<1>1. /\ \A p \in Posts : step'[p] = IF step[p] = "idle" THEN "idle" ELSE "done"
      /\ state' = state /\ answer' = answer
      /\ \A i \in RunIds : runs'[i] = None
  BY DEF Crash, Requests
<1>2. crashes' # 0
  BY OrchestratorAssumption DEF Crash, OrchInv, TypeOK
<1>3. Authored'
  BY <1>1 DEF OrchInv, Authored
<1>4. Accepted'
  BY <1>1 DEF OrchInv, Accepted
<1>5. AcceptedIsKnown'
  BY <1>2 DEF AcceptedIsKnown
<1>6. QED
  BY <1>3, <1>4, <1>5

LEMMA OrchStep == OrchInv /\ [Next]_vars => OrchInv'
<1>1. OrchInv /\ [Next]_vars => TypeOK'
  BY StepTypeOK DEF OrchInv
<1>2. QED
  BY <1>1, StepAuthored, StepAccepted, StepAcceptedIsKnown, CrashStep DEF OrchInv

LEMMA OrchInvariant == Spec => []OrchInv
  BY OrchInit, OrchStep, PTL DEF Spec

-----------------------------------------------------------------------------
\* The state stays within its types for every number of requests and channels: in
\* particular a handler that awaits has the record it builds, and a record of the
\* map stands under its own run id.
THEOREM TypeCorrect == Spec => []TypeOK
<1>1. OrchInv => TypeOK
  BY DEF OrchInv
<1>2. QED
  BY <1>1, OrchInvariant, PTL

\* For every number of concurrent requests: as long as the process lives, a run
\* that was answered 202 can be looked up, is RUNNING or CANCELLED and has all
\* its jobs counted, unless its id was given twice within a millisecond.
THEOREM AcceptedRunsAreKnown == Spec => []AcceptedIsKnown
<1>1. OrchInv => AcceptedIsKnown
  BY DEF OrchInv
<1>2. QED
  BY <1>1, OrchInvariant, PTL

LEMMA CancelStep ==
  ASSUME OrchInv, [Next]_vars
  PROVE  \A i \in RunIds :
           runs[i] # None /\ runs[i].status = "CANCELLED" /\ crashes' = crashes
             => (runs'[i] # None /\ runs'[i].status = "CANCELLED") \/ Shared(i)
<1> SUFFICES ASSUME NEW i \in RunIds, runs[i] # None,
                    runs[i].status = "CANCELLED", crashes' = crashes
             PROVE  (runs'[i] # None /\ runs'[i].status = "CANCELLED") \/ Shared(i)
  OBVIOUS
<1>1. TypeOK /\ ~ Crash
  BY OnlyCrashCounts DEF OrchInv
<1>2. CASE \E p \in Posts : Ends(p) /\ state[p].id = i
  BY <1>2, EndingAgainShares
<1>3. CASE Cancelled(i)
  BY <1>1, <1>3, RecordsArePresent DEF Cancelled, TypeOK, Records
<1>4. CASE runs'[i] = runs[i]
  BY <1>4
<1>5. QED
  BY <1>1, <1>2, <1>3, <1>4, RunCases

\* For every number of concurrent requests: no handler still at work turns a
\* cancelled run back, unless the two have one id.
THEOREM CancellationIsFinal == Spec => CancelIsFinal
<1>1. OrchInv /\ [Next]_vars =>
        [\A i \in RunIds :
           runs[i] # None /\ runs[i].status = "CANCELLED" /\ crashes' = crashes
             => (runs'[i] # None /\ runs'[i].status = "CANCELLED") \/ Shared(i)]_vars
  BY CancelStep
<1>2. QED
  BY <1>1, OrchInvariant, PTL DEF Spec, CancelIsFinal

-----------------------------------------------------------------------------
(* The jobs of a run: where they are, and how a step moves them.           *)

\* The job is at position k of the buffer of channel c.
Held(c, k, j) == k \in 1 .. Len(buffer[c]) /\ buffer[c][k] = j

LEMMA BuffersAreSequences ==
  ASSUME TypeOK, NEW c \in Requests
  PROVE  buffer[c] \in Seq(Jobs) /\ Len(buffer[c]) \in Nat /\ DOMAIN buffer[c] = 1 .. Len(buffer[c])
  BY DEF TypeOK

LEMMA RangeIsHeld ==
  ASSUME TypeOK, NEW c \in Requests, NEW j
  PROVE  j \in Range(buffer[c]) <=> \E k \in Nat : Held(c, k, j)
  BY BuffersAreSequences DEF Range, Held

LEMMA WrittenIsHeld ==
  ASSUME TypeOK, NEW j
  PROVE  Written(j) <=>
           queue[j] > 0 \/ j \in lost \/ \E c \in Requests, k \in Nat : Held(c, k, j)
  BY RangeIsHeld DEF Written

LEMMA WrittenIsHeldNext ==
  ASSUME TypeOK', NEW j
  PROVE  Written(j)' <=>
           queue'[j] > 0 \/ j \in lost' \/ \E c \in Requests, k \in Nat : Held(c, k, j)'
<1>1. ASSUME NEW c \in Requests
      PROVE  j \in Range(buffer'[c]) <=> \E k \in Nat : Held(c, k, j)'
  <2>1. Len(buffer'[c]) \in Nat /\ DOMAIN buffer'[c] = 1 .. Len(buffer'[c])
    BY DEF TypeOK
  <2>2. QED
    BY <2>1 DEF Range, Held
<1>2. QED
  BY <1>1 DEF Written

\* A job that the loop of p adds at position k of its channel.
Added(p, n, c, k, j) ==
  /\ c = channel
  /\ k - Len(buffer[c]) \in 1 .. n
  /\ j = <<state[p].id, k - Len(buffer[c])>>

LEMMA LoopAdds ==
  ASSUME TypeOK, NEW p \in Posts, state[p] \in Records, NEW n \in Sizes, Loop(p, n),
         NEW c \in Requests, NEW k \in Nat, NEW j
  PROVE  Held(c, k, j)' <=> Held(c, k, j) \/ Added(p, n, c, k, j)
<1> DEFINE more == [i \in 1 .. n |-> <<state[p].id, i>>]
<1>1. n \in Nat /\ state[p].id \in RunIds /\ 1 .. n \subseteq Positions
  BY OrchestratorAssumption DEF Sizes, Positions, Records
<1>2. more \in Seq(Jobs) /\ Len(more) = n
  BY <1>1 DEF Jobs
<1>3. \A i \in 1 .. n : more[i] = <<state[p].id, i>>
  OBVIOUS
<1>4. buffer' = [buffer EXCEPT ![channel] = @ \o more] /\ channel \in Requests
  BY DEF Loop, Write
<1> HIDE DEF more
<1>5. CASE c # channel
  BY <1>4, <1>5 DEF Held, Added, TypeOK
<1>6. CASE c = channel
  <2>1. buffer[c] \in Seq(Jobs) /\ Len(buffer[c]) \in Nat
    BY BuffersAreSequences
  <2>2. buffer'[c] = buffer[c] \o more
    BY <1>4, <1>6 DEF TypeOK
  <2> DEFINE both == buffer[c] \o more
  <2>a. /\ Len(both) = Len(buffer[c]) + Len(more)
        /\ \A i \in 1 .. Len(buffer[c]) + Len(more) : both[i] =
             IF i <= Len(buffer[c]) THEN buffer[c][i] ELSE more[i - Len(buffer[c])]
    BY <1>2, <2>1, ConcatProperties
  <2>b. buffer'[c] = both
    BY <2>2
  <2> HIDE DEF both
  <2>3. /\ Len(buffer'[c]) = Len(buffer[c]) + n
        /\ \A i \in 1 .. Len(buffer[c]) + n : buffer'[c][i] =
             IF i <= Len(buffer[c]) THEN buffer[c][i] ELSE more[i - Len(buffer[c])]
    BY <1>2, <2>a, <2>b
  <2>4. CASE k \in 1 .. Len(buffer[c])
    BY <1>1, <2>1, <2>3, <2>4 DEF Held, Added
  <2>5. CASE k - Len(buffer[c]) \in 1 .. n
    <3> DEFINE i == k - Len(buffer[c])
    <3>1. i \in 1 .. n /\ k \in 1 .. Len(buffer[c]) + n /\ ~ (k <= Len(buffer[c]))
      BY <1>1, <2>1, <2>5
    <3>2. buffer'[c][k] = more[i] /\ k \in 1 .. Len(buffer'[c])
      BY <2>3, <3>1
    <3>3. more[i] = <<state[p].id, i>>
      BY <1>3, <3>1
    <3>4. QED
      BY <1>6, <3>1, <3>2, <3>3 DEF Held, Added
  <2>6. CASE k \notin 1 .. Len(buffer[c]) /\ k - Len(buffer[c]) \notin 1 .. n
    BY <1>1, <2>1, <2>3, <2>6 DEF Held, Added
  <2>7. QED
    BY <2>4, <2>5, <2>6
<1>7. QED
  BY <1>5, <1>6

\* Send takes the first job of a buffer; the others move up.
LEMMA SendMoves ==
  ASSUME TypeOK, NEW c \in Requests, Send(c)
  PROVE  /\ Head(buffer[c]) \in Jobs /\ Held(c, 1, Head(buffer[c]))
         /\ queue' = [queue EXCEPT ![Head(buffer[c])] = @ + 1]
         /\ lost' = lost
         /\ \A d \in Requests, k \in Nat : \A j :
              Held(d, k, j)' <=> IF d = c THEN k > 0 /\ Held(c, k + 1, j) ELSE Held(d, k, j)
<1>1. buffer[c] \in Seq(Jobs) /\ Len(buffer[c]) \in Nat /\ buffer[c] # <<>>
  BY BuffersAreSequences DEF Send
<1>2. /\ Head(buffer[c]) \in Jobs
      /\ Len(Tail(buffer[c])) = Len(buffer[c]) - 1
      /\ \A k \in 1 .. Len(Tail(buffer[c])) : Tail(buffer[c])[k] = buffer[c][k + 1]
  BY <1>1, HeadTailProperties
<1>3. Head(buffer[c]) = buffer[c][1] /\ Len(buffer[c]) > 0
  BY <1>1
<1>4. /\ buffer'[c] = Tail(buffer[c])
      /\ \A d \in Requests : d # c => buffer'[d] = buffer[d]
      /\ queue' = [queue EXCEPT ![Head(buffer[c])] = @ + 1]
      /\ lost' = lost
  BY DEF Send, TypeOK
<1>5. ASSUME NEW k \in Nat, NEW j
      PROVE  Held(c, k, j)' <=> k > 0 /\ Held(c, k + 1, j)
  <2>1. Len(buffer'[c]) = Len(buffer[c]) - 1
    BY <1>2, <1>4
  <2>2. k \in 1 .. Len(buffer'[c]) <=> k > 0 /\ k + 1 \in 1 .. Len(buffer[c])
    BY <1>1, <2>1
  <2>3. k \in 1 .. Len(buffer'[c]) => buffer'[c][k] = buffer[c][k + 1]
    BY <1>2, <1>4
  <2>4. QED
    BY <2>2, <2>3 DEF Held
<1>6. ASSUME NEW d \in Requests, d # c, NEW k \in Nat, NEW j
      PROVE  Held(d, k, j)' <=> Held(d, k, j)
  BY <1>4, <1>6 DEF Held
<1>7. Held(c, 1, Head(buffer[c]))
  BY <1>1, <1>3 DEF Held
<1>8. QED
  BY <1>2, <1>4, <1>5, <1>6, <1>7

\* A channel that closes, or all of them at a crash, drop what they hold.
LEMMA LossMoves ==
  ASSUME TypeOK, NEW gone \in SUBSET Requests,
         buffer' = [d \in Requests |-> IF d \in gone THEN <<>> ELSE buffer[d]],
         lost' = lost \cup UNION {Range(buffer[c]) : c \in gone}
  PROVE  /\ \A d \in Requests, k \in Nat : \A j :
              Held(d, k, j)' <=> d \notin gone /\ Held(d, k, j)
         /\ \A j : j \in lost' <=>
              j \in lost \/ \E c \in gone, k \in Nat : Held(c, k, j)
<1>1. ASSUME NEW d \in Requests, NEW k \in Nat, NEW j
      PROVE  Held(d, k, j)' <=> d \notin gone /\ Held(d, k, j)
  <2>1. CASE d \in gone
    <3>1. buffer'[d] = <<>> /\ Len(buffer'[d]) = 0
      BY <2>1
    <3>2. QED
      BY <2>1, <3>1 DEF Held
  <2>2. CASE d \notin gone
    BY <2>2 DEF Held
  <2>3. QED
    BY <2>1, <2>2
<1>2. ASSUME NEW j
      PROVE  j \in lost' <=> j \in lost \/ \E c \in gone, k \in Nat : Held(c, k, j)
  <2>1. \A c \in gone : j \in Range(buffer[c]) <=> \E k \in Nat : Held(c, k, j)
    BY RangeIsHeld
  <2>2. QED
    BY <2>1
<1>3. QED
  BY <1>1, <1>2

\* Every step but a loop, a send and a loss leaves the jobs where they are.
Dropped(gone) ==
  /\ buffer' = [d \in Requests |-> IF d \in gone THEN <<>> ELSE buffer[d]]
  /\ lost' = lost \cup UNION {Range(buffer[c]) : c \in gone}
  /\ queue' = queue

LEMMA JobCases ==
  ASSUME TypeOK, [Next]_vars
  PROVE  \/ UNCHANGED <<buffer, queue, lost>>
         \/ \E p \in Posts : /\ step[p] \in Busy /\ state[p] \in Records
                             /\ \E n \in Sizes : Loop(p, n)
                             /\ UNCHANGED <<queue, lost>>
         \/ \E c \in Requests : Send(c)
         \/ \E gone \in SUBSET Requests : Dropped(gone)
<1>1. ASSUME NEW p \in Posts, Publish(p)
      PROVE  /\ step[p] \in Busy /\ state[p] \in Records
             /\ \E n \in Sizes : Loop(p, n)
             /\ UNCHANGED <<queue, lost>>
  BY <1>1, PublishLoops DEF Publish, brokerVars
<1>2. ASSUME NEW c \in Requests, Close(c)
      PROVE  Dropped({c})
  <2>1. buffer' = [d \in Requests |-> IF d \in {c} THEN <<>> ELSE buffer[d]]
    BY <1>2 DEF Close, TypeOK
  <2>2. UNION {Range(buffer[d]) : d \in {c}} = Range(buffer[c])
    OBVIOUS
  <2>3. QED
    BY <1>2, <2>1, <2>2 DEF Close, Dropped
<1>3. CASE Crash
  BY <1>3 DEF Crash, Dropped
<1>4. ASSUME NEW p \in Posts, PostRun(p) \/ AssertNext(p) \/ ChannelFails(p)
      PROVE  UNCHANGED <<buffer, queue, lost>>
  BY <1>4 DEF PostRun, AssertNext, ChannelFails, brokerVars
<1>5. ASSUME NEW r \in Requests, Connect(r) \/ ConnectFails(r)
      PROVE  UNCHANGED <<buffer, queue, lost>>
  BY <1>5 DEF Connect, ConnectFails, brokerVars
<1>6. ASSUME NEW i \in RunIds, Cancel(i)
      PROVE  UNCHANGED <<buffer, queue, lost>>
  BY <1>6 DEF Cancel, brokerVars
<1>7. ASSUME NEW h \in Probes, GetHealth(h)
      PROVE  UNCHANGED <<buffer, queue, lost>>
  BY <1>7 DEF GetHealth, brokerVars
<1>8. CASE Tick \/ UNCHANGED vars
  BY <1>8 DEF Tick, vars, brokerVars
<1>9. QED
  BY <1>1, <1>2, <1>3, <1>4, <1>5, <1>6, <1>7, <1>8
     DEF Next, HandlePost, HandleConnect, Crash

-----------------------------------------------------------------------------
(* Records against jobs.                                                   *)

\* The handler of p has ended and wrote the n-th job of run i: it has counted the
\* job, or was refused at it.
Wrote(p, i, n) ==
  /\ step[p] = "done" /\ state[p] # None /\ state[p].id = i
  /\ \/ n <= state[p].jobsPublished
     \/ n = state[p].jobsPublished + 1 /\ state[p].status = "FAILED"

\* The record in the map is the one that p has written, or that one cancelled.
Stands(p, i) ==
  /\ step[p] = "done" /\ state[p] # None /\ state[p].id = i
  /\ runs[i].jobsPublished = state[p].jobsPublished
  /\ runs[i].status = "RUNNING" => state[p].status = "RUNNING"

\* Every job was written by a handler that has ended; what a handler counted it
\* has written; the records of the map are those of handlers.
JobsHaveAuthor ==
  \A i \in RunIds, n \in Positions : Written(<<i, n>>) => \E p \in Posts : Wrote(p, i, n)
CountedIsWritten ==
  \A p \in Posts : state[p] # None =>
    \A n \in Positions : n <= state[p].jobsPublished => Written(<<state[p].id, n>>)
RecordsStand ==
  \A i \in RunIds : runs[i] # None => \E p \in Posts : Stands(p, i)

JobInv == OrchInv /\ JobsHaveAuthor /\ CountedIsWritten /\ RecordsStand /\ NoJobTwice

\* A job that is in the state, or comes to be, is the n-th of a run.
LEMMA JobIsPair == \A j \in Jobs : \E i \in RunIds, n \in Positions : j = <<i, n>>
  BY DEF Jobs

\* Once written a job stays written.
LEMMA WrittenStays ==
  ASSUME TypeOK, TypeOK', [Next]_vars, NEW j \in Jobs, Written(j)
  PROVE  Written(j)'
<1>1. queue[j] > 0 \/ j \in lost \/ \E c \in Requests, k \in Nat : Held(c, k, j)
  BY WrittenIsHeld
<1>2. \/ queue'[j] > 0 \/ j \in lost'
      \/ \E c \in Requests, k \in Nat : Held(c, k, j)'
  <2>1. CASE UNCHANGED <<buffer, queue, lost>>
    BY <1>1, <2>1 DEF Held
  <2>2. ASSUME NEW p \in Posts, state[p] \in Records, NEW n \in Sizes, Loop(p, n),
               UNCHANGED <<queue, lost>>
        PROVE  \/ queue'[j] > 0 \/ j \in lost'
               \/ \E c \in Requests, k \in Nat : Held(c, k, j)'
    BY <1>1, <2>2, LoopAdds
  <2>3. ASSUME NEW c \in Requests, Send(c)
        PROVE  \/ queue'[j] > 0 \/ j \in lost'
               \/ \E d \in Requests, k \in Nat : Held(d, k, j)'
    <3>1. CASE queue[j] > 0 \/ j = Head(buffer[c])
      BY <2>3, <3>1, SendMoves DEF TypeOK
    <3>2. CASE j \in lost
      BY <2>3, <3>2, SendMoves
    <3>3. ASSUME NEW d \in Requests, NEW k \in Nat, Held(d, k, j), j # Head(buffer[c])
          PROVE  \E m \in Nat : Held(d, m, j)'
      <4>1. CASE d # c
        BY <2>3, <3>3, <4>1, SendMoves
      <4>2. CASE d = c
        <5>1. k # 0 /\ k # 1
          BY <2>3, <3>3, <4>2, SendMoves DEF Held
        <5>2. k - 1 \in Nat /\ k - 1 > 0 /\ (k - 1) + 1 = k
          BY <5>1
        <5>3. Held(c, k - 1, j)'
          BY <2>3, <3>3, <4>2, <5>2, SendMoves
        <5>4. QED
          BY <4>2, <5>2, <5>3
      <4>3. QED
        BY <4>1, <4>2
    <3>4. QED
      BY <1>1, <3>1, <3>2, <3>3
  <2>4. ASSUME NEW gone \in SUBSET Requests, Dropped(gone)
        PROVE  \/ queue'[j] > 0 \/ j \in lost'
               \/ \E c \in Requests, k \in Nat : Held(c, k, j)'
    <3>1. /\ \A d \in Requests, k \in Nat : \A q :
               Held(d, k, q)' <=> d \notin gone /\ Held(d, k, q)
          /\ \A q : q \in lost' <=> q \in lost \/ \E c \in gone, k \in Nat : Held(c, k, q)
      BY <2>4, LossMoves DEF Dropped
    <3>2. QED
      BY <1>1, <2>4, <3>1 DEF Dropped
  <2>5. QED
    BY <2>1, <2>2, <2>3, <2>4, JobCases
<1>3. QED
  BY <1>2, WrittenIsHeldNext

\* Sending or losing jobs makes no new ones.
LEMMA OnlyLoopsWrite ==
  ASSUME TypeOK, TypeOK', NEW j \in Jobs, Written(j)',
         (\E c \in Requests : Send(c)) \/ (\E gone \in SUBSET Requests : Dropped(gone))
  PROVE  Written(j)
<1> SUFFICES ASSUME ~ Written(j) PROVE FALSE
  OBVIOUS
<1>1. ~ (queue[j] > 0) /\ j \notin lost /\ \A c \in Requests, k \in Nat : ~ Held(c, k, j)
  BY WrittenIsHeld
<1>2. queue'[j] > 0 \/ j \in lost' \/ \E c \in Requests, k \in Nat : Held(c, k, j)'
  BY WrittenIsHeldNext
<1>4. ASSUME NEW c \in Requests, Send(c)
      PROVE  FALSE
  <2>1. j # Head(buffer[c])
    BY <1>1, <1>4, SendMoves
  <2>2. queue'[j] = queue[j] /\ j \notin lost'
    BY <1>1, <1>4, <2>1, SendMoves DEF TypeOK
  <2>3. \A d \in Requests, k \in Nat : ~ Held(d, k, j)'
    <3>1. \A k \in Nat : k + 1 \in Nat
      OBVIOUS
    <3>2. QED
      BY <1>1, <1>4, <3>1, SendMoves
  <2>4. QED
    BY <1>1, <1>2, <2>2, <2>3
<1>5. ASSUME NEW gone \in SUBSET Requests, Dropped(gone)
      PROVE  FALSE
  <2>1. /\ \A d \in Requests, k \in Nat : \A q :
             Held(d, k, q)' <=> d \notin gone /\ Held(d, k, q)
        /\ \A q : q \in lost' <=> q \in lost \/ \E c \in gone, k \in Nat : Held(c, k, q)
    BY <1>5, LossMoves DEF Dropped
  <2>2. QED
    BY <1>1, <1>2, <1>5, <2>1 DEF Dropped
<1>6. QED
  BY <1>4, <1>5

\* A job that is newly written was written by the loop of some request.
LEMMA WrittenByLoop ==
  ASSUME TypeOK, TypeOK', [Next]_vars, NEW j \in Jobs, Written(j)', ~ Written(j)
  PROVE  \E p \in Posts, n \in Sizes :
           /\ step[p] \in Busy /\ state[p] \in Records /\ Loop(p, n)
           /\ \E k \in 1 .. n : j = <<state[p].id, k>>
<1>1. ~ (queue[j] > 0) /\ j \notin lost /\ \A c \in Requests, k \in Nat : ~ Held(c, k, j)
  BY WrittenIsHeld
<1>2. queue'[j] > 0 \/ j \in lost' \/ \E c \in Requests, k \in Nat : Held(c, k, j)'
  BY WrittenIsHeldNext
<1>3. ~ UNCHANGED <<buffer, queue, lost>>
  BY <1>1, <1>2 DEF Held
<1>4. ~ (\E c \in Requests : Send(c)) /\ ~ (\E gone \in SUBSET Requests : Dropped(gone))
  BY OnlyLoopsWrite
<1>6. PICK p \in Posts :
         /\ step[p] \in Busy /\ state[p] \in Records
         /\ \E n \in Sizes : Loop(p, n)
         /\ UNCHANGED <<queue, lost>>
  BY <1>3, <1>4, JobCases
<1>7. PICK n \in Sizes : Loop(p, n)
  BY <1>6
<1>8. PICK c \in Requests, k \in Nat : Held(c, k, j)'
  BY <1>1, <1>2, <1>6
<1>9. Added(p, n, c, k, j)
  BY <1>1, <1>6, <1>7, <1>8, LoopAdds
<1>10. QED
  BY <1>6, <1>7, <1>9 DEF Added

\* What a handler has written stays its doing.
LEMMA DoneStays ==
  ASSUME TypeOK, [Next]_vars, NEW p \in Posts, step[p] = "done"
  PROVE  step'[p] = "done" /\ state'[p] = state[p]
<1>1. CASE Crash
  BY <1>1 DEF Crash, Requests
<1>2. CASE ~ Crash
  BY <1>2, PostCases DEF Untouched, Received, Ends, Busy
<1>3. QED
  BY <1>1, <1>2

\* The loop leaves its handler with what it wrote.
LEMMA LoopCounts ==
  ASSUME TypeOK, NEW p \in Posts, step[p] \in Busy, NEW n \in Sizes, Loop(p, n)
  PROVE  /\ step'[p] = "done" /\ state'[p] # None /\ state'[p].id = state[p].id
         /\ \/ state'[p].jobsPublished = n
            \/ state'[p].jobsPublished = n - 1 /\ state'[p].status = "FAILED"
<1>1. n \in 0 .. MaxTests /\ (n > 0 => n - 1 \in 0 .. MaxTests)
  BY OrchestratorAssumption DEF Sizes
<1>2. CASE Finish(p, "RUNNING", n)
  BY <1>1, <1>2, FinishFacts, RecordsArePresent
<1>3. CASE n > 0 /\ Finish(p, "FAILED", n - 1)
  BY <1>1, <1>3, FinishFacts, RecordsArePresent
<1>4. QED
  BY <1>2, <1>3 DEF Loop

LEMMA StepJobsHaveAuthor ==
  ASSUME JobInv, TypeOK', [Next]_vars
  PROVE  JobsHaveAuthor'
<1>1. TypeOK
  BY DEF JobInv, OrchInv
<1>2. SUFFICES ASSUME NEW i \in RunIds, NEW n \in Positions, Written(<<i, n>>)'
               PROVE  \E p \in Posts : Wrote(p, i, n)'
  BY DEF JobsHaveAuthor
<1>3. CASE Written(<<i, n>>)
  <2>1. PICK p \in Posts : Wrote(p, i, n)
    BY <1>3 DEF JobInv, JobsHaveAuthor
  <2>2. QED
    BY <1>1, <2>1, DoneStays DEF Wrote
<1>4. CASE ~ Written(<<i, n>>)
  <2>1. PICK p \in Posts, m \in Sizes :
           /\ step[p] \in Busy /\ Loop(p, m)
           /\ \E k \in 1 .. m : <<i, n>> = <<state[p].id, k>>
    BY <1>1, <1>2, <1>4, WrittenByLoop DEF Jobs
  <2>2. m \in Nat /\ n \in 1 .. m /\ i = state[p].id
    BY <2>1, OrchestratorAssumption DEF Sizes
  <2>3. QED
    BY <1>1, <2>1, <2>2, LoopCounts DEF Wrote
<1>5. QED
  BY <1>3, <1>4

LEMMA StepCountedIsWritten ==
  ASSUME JobInv, TypeOK', [Next]_vars
  PROVE  CountedIsWritten'
<1>1. TypeOK
  BY DEF JobInv, OrchInv
<1>2. SUFFICES ASSUME NEW p \in Posts, state'[p] # None, NEW n \in Positions,
                      n <= state'[p].jobsPublished, NEW i, i = state'[p].id
               PROVE  Written(<<i, n>>)'
  <2>1. ASSUME NEW p \in Posts, state'[p] # None, NEW n \in Positions,
               n <= state'[p].jobsPublished
        PROVE  \E i : i = state'[p].id /\ Written(<<i, n>>)'
    <3>1. \A i : i = state'[p].id => Written(<<i, n>>)'
      BY <1>2, <2>1
    <3>2. QED
      BY <3>1
  <2>2. QED
    BY <2>1 DEF CountedIsWritten
<1>3. n \in Nat /\ n > 0
  BY OrchestratorAssumption DEF Positions
<1>4. CASE state'[p] = state[p]
  <2>1. Written(<<i, n>>)
    BY <1>2, <1>4 DEF JobInv, CountedIsWritten
  <2>2. <<i, n>> \in Jobs
    BY <1>1, <1>2, <1>4 DEF Jobs, TypeOK, Records
  <2>3. QED
    BY <1>1, <1>4, <2>1, <2>2, WrittenStays
<1>5. CASE Received(p)
  BY <1>2, <1>3, <1>5 DEF Received
<1>6. CASE Ends(p) /\ Finish(p, "FAILED", 0)
  <2>1. 0 \in 0 .. MaxTests
    BY OrchestratorAssumption
  <2>2. state'[p].jobsPublished = 0
    BY <1>1, <1>6, <2>1, FinishFacts DEF Ends
  <2>3. QED
    BY <1>2, <1>3, <2>2
<1>7. ASSUME Ends(p), NEW m \in Sizes, Loop(p, m)
      PROVE  Written(<<i, n>>)'
  <2>a. state[p] \in Records /\ channel \in Requests
    BY <1>1, <1>7 DEF Ends, Busy, Loop, TypeOK
  <2>1. m \in Nat /\ state[p] \in Records /\ channel \in Requests
    BY <1>7, <2>a, OrchestratorAssumption DEF Sizes
  <2>2. i = state[p].id /\ n \in 1 .. m
    BY <1>1, <1>2, <1>3, <1>7, <2>1, LoopCounts DEF Ends
  <2>3. PICK c \in Requests : c = channel
    BY <2>1
  <2>4. Len(buffer[c]) \in Nat
    BY <1>1, BuffersAreSequences
  <2>5. PICK k \in Nat : k = Len(buffer[c]) + n
    BY <1>3, <2>4
  <2>6. k - Len(buffer[c]) = n
    BY <1>3, <2>4, <2>5
  <2>7. Added(p, m, c, k, <<i, n>>)
    BY <2>2, <2>3, <2>6 DEF Added
  <2>8. Held(c, k, <<i, n>>)'
    BY <1>1, <1>7, <2>1, <2>7, LoopAdds
  <2>9. QED
    BY <2>8, WrittenIsHeldNext
<1>8. CASE Crash
  BY <1>4, <1>8 DEF Crash
<1>9. QED
  BY <1>1, <1>4, <1>5, <1>6, <1>7, <1>8, PostCases DEF Untouched, Ends

LEMMA StepRecordsStand ==
  ASSUME JobInv, [Next]_vars
  PROVE  RecordsStand'
<1>1. TypeOK
  BY DEF JobInv, OrchInv
<1>2. SUFFICES ASSUME NEW i \in RunIds, runs'[i] # None
               PROVE  \E p \in Posts : Stands(p, i)'
  BY DEF RecordsStand
<1>3. ~ Crash
  BY <1>2 DEF Crash
<1>4. ASSUME NEW p \in Posts, Ends(p), state[p].id = i
      PROVE  Stands(p, i)'
  <2>1. /\ step'[p] = "done" /\ state'[p] # None /\ state'[p].id = i
        /\ runs'[i] = state'[p]
    BY <1>1, <1>4, EndFacts, RecordsArePresent DEF Requests
  <2>2. QED
    BY <2>1 DEF Stands
<1>5. CASE runs[i] # None /\ (runs'[i] = runs[i] \/ Cancelled(i))
  <2>1. PICK p \in Posts : Stands(p, i)
    BY <1>5 DEF JobInv, RecordsStand
  <2>2. /\ runs'[i].jobsPublished = runs[i].jobsPublished
        /\ runs'[i].status = "RUNNING" => runs[i].status = "RUNNING"
    BY <1>1, <1>5 DEF Cancelled, TypeOK, Records
  <2>3. step'[p] = "done" /\ state'[p] = state[p]
    BY <1>1, <2>1, DoneStays DEF Stands
  <2>4. QED
    BY <2>1, <2>2, <2>3 DEF Stands
<1>6. QED
  BY <1>1, <1>2, <1>3, <1>4, <1>5, RunCases DEF Cancelled

-----------------------------------------------------------------------------
(* No job twice.                                                           *)

\* NoJobTwice of one job, by positions.
Once(j) ==
  /\ queue[j] <= 1
  /\ \A c \in Requests, k \in Nat : Held(c, k, j) =>
       /\ queue[j] = 0
       /\ \A d \in Requests, m \in Nat : Held(d, m, j) => d = c /\ m = k

LEMMA OnceIsNoJobTwice ==
  ASSUME TypeOK
  PROVE  NoJobTwice <=> \A i \in RunIds, n \in Positions : ~ Shared(i) => Once(<<i, n>>)
<1>1. \A c \in Requests : /\ DOMAIN buffer[c] = 1 .. Len(buffer[c])
                          /\ \A k \in DOMAIN buffer[c] : k \in Nat
  BY BuffersAreSequences
<1>2. ASSUME NEW c \in Requests, NEW k, NEW j
      PROVE  k \in Nat /\ Held(c, k, j) <=> k \in DOMAIN buffer[c] /\ buffer[c][k] = j
  BY <1>1 DEF Held
<1> HIDE DEF Held
<1>3. ASSUME NEW i \in RunIds, NEW n \in Positions
      PROVE  Once(<<i, n>>) <=>
               /\ queue[<<i, n>>] <= 1
               /\ \A c \in Requests : \A k \in DOMAIN buffer[c] :
                    buffer[c][k] = <<i, n>> =>
                      /\ queue[<<i, n>>] = 0
                      /\ \A d \in Requests : \A m \in DOMAIN buffer[d] :
                           buffer[d][m] = <<i, n>> => d = c /\ m = k
  <2> DEFINE j == <<i, n>>
  <2> HIDE DEF j
  <2>1. Once(j) <=>
               /\ queue[j] <= 1
               /\ \A c \in Requests : \A k \in DOMAIN buffer[c] :
                    buffer[c][k] = j =>
                      /\ queue[j] = 0
                      /\ \A d \in Requests : \A m \in DOMAIN buffer[d] :
                           buffer[d][m] = j => d = c /\ m = k
    BY <1>2 DEF Once
  <2>2. QED
    BY <2>1 DEF j
<1>4. QED
  BY <1>3 DEF NoJobTwice

LEMMA OnceIsNoJobTwiceNext ==
  TypeOK' => (NoJobTwice <=> \A i \in RunIds, n \in Positions : ~ Shared(i) => Once(<<i, n>>))'
<1>1. TypeOK => (NoJobTwice <=> \A i \in RunIds, n \in Positions : ~ Shared(i) => Once(<<i, n>>))
  BY OnceIsNoJobTwice
<1>2. QED
  BY <1>1, PTL

\* A job that nobody has written is nowhere.
LEMMA UnwrittenIsNowhere ==
  ASSUME TypeOK, NEW j \in Jobs, ~ Written(j)
  PROVE  queue[j] = 0 /\ \A c \in Requests, k \in Nat : ~ Held(c, k, j)
<1>1. queue[j] \in Nat
  BY DEF TypeOK
<1>2. QED
  BY <1>1, WrittenIsHeld

\* A handler at its loop finds no job of its run written, unless it shares the id.
LEMMA LoopIsFirst ==
  ASSUME JobInv, NEW p \in Posts, step[p] \in Busy, state[p] # None,
         NEW i \in RunIds, state[p].id = i, ~ Shared(i), NEW n \in Positions
  PROVE  ~ Written(<<i, n>>)
<1> SUFFICES ASSUME Written(<<i, n>>)
             PROVE  FALSE
  OBVIOUS
<1>1. PICK q \in Posts : Wrote(q, i, n)
  BY DEF JobInv, JobsHaveAuthor
<1>2. q # p
  BY <1>1 DEF Wrote, Busy
<1>3. QED
  BY <1>1, <1>2 DEF Wrote, Shared

LEMMA LoopOnce ==
  ASSUME JobInv, NEW p \in Posts, step[p] \in Busy, state[p] \in Records,
         NEW n \in Sizes, Loop(p, n), UNCHANGED queue,
         NEW i \in RunIds, NEW k \in Positions, ~ Shared(i), Once(<<i, k>>)
  PROVE  Once(<<i, k>>)'
<1> DEFINE j == <<i, k>>
<1>1. TypeOK /\ j \in Jobs /\ state[p] # None
  BY RecordsArePresent DEF JobInv, OrchInv, Jobs
<1>2. \A c \in Requests, m \in Nat :
        Held(c, m, j)' <=> Held(c, m, j) \/ Added(p, n, c, m, j)
  BY <1>1, LoopAdds
<1>3. CASE state[p].id = i
  <2>1. queue[j] = 0 /\ \A c \in Requests, m \in Nat : ~ Held(c, m, j)
    BY <1>1, <1>3, LoopIsFirst, UnwrittenIsNowhere
  <2>2. ASSUME NEW c \in Requests, NEW m \in Nat, Held(c, m, j)'
        PROVE  c = channel /\ m = Len(buffer[c]) + k
    <3>1. Added(p, n, c, m, j)
      BY <1>2, <2>1, <2>2
    <3>2. Len(buffer[c]) \in Nat
      BY <1>1, BuffersAreSequences
    <3>3. c = channel /\ k = m - Len(buffer[c])
      BY <3>1 DEF Added
    <3>4. QED
      BY <3>2, <3>3
  <2> HIDE DEF j
  <2>3. Once(j)'
    BY <2>1, <2>2 DEF Once
  <2>4. QED
    BY <2>3 DEF j
<1>4. CASE state[p].id # i
  <2>1. \A c \in Requests, m \in Nat : ~ Added(p, n, c, m, j)
    BY <1>4 DEF Added
  <2> HIDE DEF j
  <2>2. \A c \in Requests, m \in Nat : Held(c, m, j)' <=> Held(c, m, j)
    BY <1>2, <2>1
  <2>3. Once(j)
    BY DEF j
  <2>4. Once(j)'
    BY <2>2, <2>3 DEF Once
  <2>5. QED
    BY <2>4 DEF j
<1>5. QED
  BY <1>3, <1>4

LEMMA SendOnce ==
  ASSUME TypeOK, NEW c \in Requests, Send(c), NEW j \in Jobs, Once(j)
  PROVE  Once(j)'
<1>1. \A d \in Requests, k \in Nat :
        Held(d, k, j)' <=> IF d = c THEN k > 0 /\ Held(c, k + 1, j) ELSE Held(d, k, j)
  BY SendMoves
<1>2. CASE j = Head(buffer[c])
  <2>1. Held(c, 1, j) /\ queue[j] = 0 /\ queue'[j] = 1
    <3>1. Held(c, 1, j)
      BY <1>2, SendMoves
    <3>2. queue[j] = 0
      BY <3>1 DEF Once
    <3>3. QED
      BY <1>2, <3>1, <3>2, SendMoves DEF TypeOK
  <2>2. \A d \in Requests, k \in Nat : Held(d, k, j) => d = c /\ k = 1
    BY <2>1 DEF Once
  <2>3. \A k \in Nat : k + 1 \in Nat /\ (k + 1 = 1 => ~ (k > 0))
    OBVIOUS
  <2>4. \A d \in Requests, k \in Nat : ~ Held(d, k, j)'
    BY <1>1, <2>2, <2>3
  <2>5. QED
    BY <2>1, <2>4 DEF Once
<1>3. CASE j # Head(buffer[c])
  <2>1. queue'[j] = queue[j]
    BY <1>3, SendMoves DEF TypeOK
  <2>2. ASSUME NEW d \in Requests, NEW k \in Nat, Held(d, k, j)'
        PROVE  Held(d, IF d = c THEN k + 1 ELSE k, j)
    BY <1>1, <2>2
  <2>3. ASSUME NEW d \in Requests, NEW k \in Nat, Held(d, k, j)',
               NEW e \in Requests, NEW m \in Nat, Held(e, m, j)'
        PROVE  queue[j] = 0 /\ e = d /\ m = k
    <3>1. (IF d = c THEN k + 1 ELSE k) \in Nat /\ (IF e = c THEN m + 1 ELSE m) \in Nat
      OBVIOUS
    <3>2. Held(d, IF d = c THEN k + 1 ELSE k, j) /\ Held(e, IF e = c THEN m + 1 ELSE m, j)
      BY <2>2, <2>3
    <3>3. queue[j] = 0 /\ e = d /\ (IF e = c THEN m + 1 ELSE m) = (IF d = c THEN k + 1 ELSE k)
      BY <3>1, <3>2 DEF Once
    <3>4. QED
      BY <3>3
  <2>4. QED
    BY <2>1, <2>3 DEF Once
<1>4. QED
  BY <1>2, <1>3

LEMMA StepNoJobTwice ==
  ASSUME JobInv, TypeOK', [Next]_vars
  PROVE  \A i \in RunIds, n \in Positions : ~ Shared(i)' => Once(<<i, n>>)'
<1> SUFFICES ASSUME NEW i \in RunIds, NEW n \in Positions, ~ Shared(i)'
             PROVE  Once(<<i, n>>)'
  OBVIOUS
<1>1. TypeOK /\ <<i, n>> \in Jobs
  BY DEF JobInv, OrchInv, Jobs
<1>2. ~ Shared(i)
  <2>1. CASE Crash
    BY <2>1 DEF Crash, Shared
  <2>2. CASE ~ Crash
    BY <2>2, SharedStays DEF JobInv
  <2>3. QED
    BY <2>1, <2>2
<1>3. Once(<<i, n>>)
  BY <1>1, <1>2, OnceIsNoJobTwice DEF JobInv
<1>4. CASE UNCHANGED <<buffer, queue, lost>>
  BY <1>3, <1>4 DEF Once, Held
<1>5. ASSUME NEW p \in Posts, step[p] \in Busy, state[p] \in Records,
             \E m \in Sizes : Loop(p, m), UNCHANGED <<queue, lost>>
      PROVE  Once(<<i, n>>)'
  BY <1>2, <1>3, <1>5, LoopOnce
<1>6. ASSUME NEW c \in Requests, Send(c)
      PROVE  Once(<<i, n>>)'
  BY <1>1, <1>3, <1>6, SendOnce
<1>7. ASSUME NEW gone \in SUBSET Requests, Dropped(gone)
      PROVE  Once(<<i, n>>)'
  <2>1. \A d \in Requests, k \in Nat : \A j : Held(d, k, j)' <=> d \notin gone /\ Held(d, k, j)
    BY <1>1, <1>7, LossMoves DEF Dropped
  <2>2. QED
    BY <1>3, <1>7, <2>1 DEF Once, Dropped
<1>8. QED
  BY <1>1, <1>4, <1>5, <1>6, <1>7, JobCases

LEMMA JobInit == Init => JobInv
<1> SUFFICES ASSUME Init
             PROVE  JobInv
  OBVIOUS
<1>1. OrchInv /\ TypeOK
  BY OrchInit DEF OrchInv
<1>2. \A c \in Requests : Range(buffer[c]) = {} /\ DOMAIN buffer[c] = {}
  BY DEF Init, Range
<1>3. \A j \in Jobs : queue[j] = 0 /\ ~ Written(j)
  BY <1>2 DEF Init, Written
<1>4. \A i \in RunIds, n \in Positions : <<i, n>> \in Jobs
  BY DEF Jobs
<1>5. JobsHaveAuthor
  BY <1>3, <1>4 DEF JobsHaveAuthor
<1>6. CountedIsWritten /\ RecordsStand
  BY DEF Init, CountedIsWritten, RecordsStand
<1>7. NoJobTwice
  BY <1>2, <1>3, <1>4 DEF NoJobTwice
<1>8. QED
  BY <1>1, <1>5, <1>6, <1>7 DEF JobInv

LEMMA JobStep == JobInv /\ [Next]_vars => JobInv'
<1> SUFFICES ASSUME JobInv, [Next]_vars
             PROVE  JobInv'
  OBVIOUS
<1>1. OrchInv' /\ TypeOK'
  BY OrchStep DEF JobInv, OrchInv
<1>2. JobsHaveAuthor' /\ CountedIsWritten' /\ RecordsStand'
  BY <1>1, StepJobsHaveAuthor, StepCountedIsWritten, StepRecordsStand
<1>3. NoJobTwice'
  BY <1>1, StepNoJobTwice, OnceIsNoJobTwiceNext
<1>4. QED
  BY <1>1, <1>2, <1>3 DEF JobInv

LEMMA JobInvariant == Spec => []JobInv
  BY JobInit, JobStep, PTL DEF Spec

LEMMA RecordsMatch == JobInv => RecordMatchesJobs
<1> SUFFICES ASSUME JobInv, NEW i \in RunIds, runs[i] # None, ~ Shared(i), NEW n \in Positions
             PROVE  /\ n <= runs[i].jobsPublished => Written(<<i, n>>)
                    /\ Written(<<i, n>>) =>
                         \/ n <= runs[i].jobsPublished
                         \/ n = runs[i].jobsPublished + 1 /\ runs[i].status # "RUNNING"
  BY DEF RecordMatchesJobs
<1>1. PICK p \in Posts : Stands(p, i)
  BY DEF JobInv, RecordsStand
<1>2. n <= runs[i].jobsPublished => Written(<<i, n>>)
  BY <1>1 DEF JobInv, CountedIsWritten, Stands
<1>3. ASSUME Written(<<i, n>>)
      PROVE  \/ n <= runs[i].jobsPublished
             \/ n = runs[i].jobsPublished + 1 /\ runs[i].status # "RUNNING"
  <2>1. PICK q \in Posts : Wrote(q, i, n)
    BY <1>3 DEF JobInv, JobsHaveAuthor
  <2>2. p = q
    BY <1>1, <2>1 DEF Stands, Wrote, Shared
  <2>3. QED
    BY <1>1, <2>1, <2>2 DEF Stands, Wrote
<1>4. QED
  BY <1>2, <1>3

\* For every number of concurrent requests, every size of run and buffer, and
\* whatever is lost: the record of a finished run and the jobs that were written
\* agree, but for the one job a refusal leaves uncounted.
THEOREM RecordsMatchJobs == Spec => []RecordMatchesJobs
<1>1. QED
  BY JobInvariant, RecordsMatch, PTL

\* For every number of concurrent requests that replace each other's channel: no
\* job of a run is in two places or published twice, unless two runs share an id.
THEOREM NoJobIsTwice == Spec => []NoJobTwice
<1>1. JobInv => NoJobTwice
  BY DEF JobInv
<1>2. QED
  BY <1>1, JobInvariant, PTL

-----------------------------------------------------------------------------
(* Orchestrator implements RunLifecycle.  What is lost has gone nowhere    *)
(* else.                                                                   *)

Gone(j) == j \in lost => queue[j] = 0 /\ \A c \in Requests, k \in Nat : ~ Held(c, k, j)

LostIsGone == \A i \in RunIds, n \in Positions : ~ Shared(i) => Gone(<<i, n>>)

LEMMA UnsharedBefore ==
  ASSUME OrchInv, [Next]_vars, NEW i \in RunIds, ~ Shared(i)'
  PROVE  ~ Shared(i)
<1>1. CASE Crash
  BY <1>1 DEF Crash, Shared
<1>2. CASE ~ Crash
  BY <1>2, SharedStays
<1>3. QED
  BY <1>1, <1>2

LEMMA LoopKeepsGone ==
  ASSUME JobInv, NEW p \in Posts, step[p] \in Busy, state[p] \in Records,
         NEW m \in Sizes, Loop(p, m), UNCHANGED <<queue, lost>>,
         NEW i \in RunIds, NEW n \in Positions, ~ Shared(i), Gone(<<i, n>>)
  PROVE  Gone(<<i, n>>)'
<1> DEFINE j == <<i, n>>
<1>1. TypeOK /\ state[p] # None
  BY RecordsArePresent DEF JobInv, OrchInv
<1>2. SUFFICES ASSUME j \in lost, NEW c \in Requests, NEW k \in Nat, Held(c, k, j)'
               PROVE  FALSE
  BY DEF Gone
<1>3. Added(p, m, c, k, j)
  BY <1>1, <1>2, LoopAdds DEF Gone
<1>4. state[p].id = i
  BY <1>3 DEF Added
<1>5. ~ Written(j)
  BY <1>1, <1>4, LoopIsFirst
<1>6. QED
  BY <1>2, <1>5 DEF Written

LEMMA SendKeepsGone ==
  ASSUME TypeOK, NEW c \in Requests, Send(c), NEW j \in Jobs, Gone(j)
  PROVE  Gone(j)'
<1>1. SUFFICES ASSUME j \in lost
               PROVE  queue'[j] = 0 /\ \A d \in Requests, k \in Nat : ~ Held(d, k, j)'
  BY SendMoves DEF Gone
<1>2. queue[j] = 0 /\ \A d \in Requests, k \in Nat : ~ Held(d, k, j)
  BY <1>1 DEF Gone
<1>3. j # Head(buffer[c])
  BY <1>2, SendMoves
<1>4. queue'[j] = 0
  BY <1>2, <1>3, SendMoves DEF TypeOK
<1>5. \A k \in Nat : k + 1 \in Nat
  OBVIOUS
<1>6. QED
  BY <1>2, <1>4, <1>5, SendMoves

LEMMA DropKeepsGone ==
  ASSUME TypeOK, NEW gone \in SUBSET Requests, Dropped(gone), NEW j \in Jobs, Gone(j), Once(j)
  PROVE  Gone(j)'
<1>1. /\ \A d \in Requests, k \in Nat : Held(d, k, j)' <=> d \notin gone /\ Held(d, k, j)
      /\ j \in lost' <=> j \in lost \/ \E c \in gone, k \in Nat : Held(c, k, j)
      /\ queue' = queue
  BY LossMoves DEF Dropped
<1>2. CASE j \in lost
  BY <1>1, <1>2 DEF Gone
<1>3. ASSUME NEW c \in gone, NEW k \in Nat, Held(c, k, j)
      PROVE  Gone(j)'
  BY <1>1, <1>3 DEF Gone, Once
<1>4. CASE j \notin lost'
  BY <1>4 DEF Gone
<1>5. QED
  BY <1>1, <1>2, <1>3, <1>4

LEMMA StepLostIsGone ==
  ASSUME JobInv, LostIsGone, [Next]_vars
  PROVE  LostIsGone'
<1>1. SUFFICES ASSUME NEW i \in RunIds, NEW n \in Positions, ~ Shared(i)'
               PROVE  Gone(<<i, n>>)'
  BY DEF LostIsGone
<1>2. OrchInv /\ TypeOK /\ <<i, n>> \in Jobs
  BY DEF JobInv, OrchInv, Jobs
<1>3. ~ Shared(i) /\ Gone(<<i, n>>)
  BY <1>1, <1>2, UnsharedBefore DEF LostIsGone
<1>4. Once(<<i, n>>)
  BY <1>2, <1>3, OnceIsNoJobTwice DEF JobInv
<1>5. CASE UNCHANGED <<buffer, queue, lost>>
  BY <1>3, <1>5 DEF Gone, Held
<1>6. ASSUME NEW p \in Posts, step[p] \in Busy, state[p] \in Records,
             \E m \in Sizes : Loop(p, m), UNCHANGED <<queue, lost>>
      PROVE  Gone(<<i, n>>)'
  BY <1>3, <1>6, LoopKeepsGone
<1>7. ASSUME NEW c \in Requests, Send(c)
      PROVE  Gone(<<i, n>>)'
  BY <1>2, <1>3, <1>7, SendKeepsGone
<1>8. ASSUME NEW gone \in SUBSET Requests, Dropped(gone)
      PROVE  Gone(<<i, n>>)'
  BY <1>2, <1>3, <1>4, <1>8, DropKeepsGone
<1>9. QED
  BY <1>2, <1>5, <1>6, <1>7, <1>8, JobCases

LifeInv == JobInv /\ LostIsGone

LEMMA LifeInvariant == Spec => []LifeInv
<1>1. Init => LostIsGone
  BY DEF Init, LostIsGone, Gone
<1>2. QED
  BY <1>1, JobInvariant, StepLostIsGone, PTL DEF Spec, LifeInv

-----------------------------------------------------------------------------
(* What the mapping hides, and what it shows.                              *)

LEMMA RecordsByFields ==
  ASSUME NEW rec \in Records, NEW other \in Records,
         rec.id = other.id, rec.status = other.status, rec.total = other.total,
         rec.jobsPublished = other.jobsPublished
  PROVE  rec = other
  BY DEF Records

LEMMA BegunRecord ==
  ASSUME NEW rec \in Records
  PROVE  /\ Begun(rec) = [id |-> rec.id, status |-> "QUEUED", total |-> rec.total,
                          jobsPublished |-> 0]
         /\ Begun(rec).id = rec.id /\ Begun(rec).total = rec.total
         /\ Begun(rec) # None
<1> DEFINE new == [id |-> rec.id, status |-> "QUEUED", total |-> rec.total, jobsPublished |-> 0]
<1>1. new \in Records
  BY NewRecord DEF Records
<1>2. 0 \in 0 .. MaxTests
  BY OrchestratorAssumption
<1>3. /\ Begun(rec) \in Records
      /\ Begun(rec).id = rec.id /\ Begun(rec).status = "QUEUED"
      /\ Begun(rec).total = rec.total /\ Begun(rec).jobsPublished = 0
  BY <1>2 DEF Begun, Records, Sizes
<1>4. Begun(rec) = new
  BY <1>1, <1>3, RecordsByFields
<1>5. QED
  BY <1>3, <1>4, RecordsArePresent

\* What p asks for is what its record says, however far the handler has come.
LEMMA AskedFacts ==
  ASSUME TypeOK, NEW p \in Posts
  PROVE  /\ askedRuns[p] = None <=> state[p] = None
         /\ state[p] # None => /\ askedRuns[p].id = state[p].id
                               /\ askedRuns[p].total = state[p].total
<1>1. CASE state[p] = None
  BY <1>1 DEF askedRuns
<1>2. CASE state[p] # None
  BY <1>2, BegunRecord DEF askedRuns, TypeOK
<1>3. QED
  BY <1>1, <1>2

LEMMA SharedIsShared ==
  ASSUME TypeOK, NEW i
  PROVE  Lifecycle!Shared(i) <=> Shared(i)
  BY AskedFacts DEF Lifecycle!Shared, Shared

LEMMA InitLifecycle == Init => Lifecycle!Init
<1> SUFFICES ASSUME Init PROVE Lifecycle!Init
  OBVIOUS
<1>1. askedRuns = [p \in Posts |-> None] /\ postsAtWork = {}
  BY DEF Init, askedRuns, postsAtWork, Requests
<1>2. \A c \in Requests : Range(buffer[c]) = {}
  BY DEF Init, Range
<1>3. writtenJobs = {} /\ arrivedJobs = {}
  BY <1>2 DEF Init, writtenJobs, arrivedJobs, Written
<1>4. QED
  BY <1>1, <1>3 DEF Init, Lifecycle!Init

\* A job on its way is nowhere else, unless its run shares an id.
LEMMA HeldTravels ==
  ASSUME LifeInv, NEW jobs,
         \A j \in jobs : j \in Jobs /\ \E c \in Requests, k \in Nat : Held(c, k, j)
  PROVE  Lifecycle!Travelling(jobs)
<1>1. TypeOK
  BY DEF LifeInv, JobInv, OrchInv
<1>2. ASSUME NEW j \in jobs
      PROVE  j \in writtenJobs /\ (j \notin arrivedJobs \cup lost \/ Lifecycle!Shared(j[1]))
  <2>1. PICK i \in RunIds, n \in Positions : j = <<i, n>>
    BY <1>2, JobIsPair
  <2>2. PICK c \in Requests, k \in Nat : Held(c, k, j)
    BY <1>2
  <2>3. j \in writtenJobs
    BY <1>1, <1>2, <2>2, WrittenIsHeld DEF writtenJobs
  <2>4. ASSUME ~ Shared(i)
        PROVE  queue[j] = 0 /\ j \notin lost
    <3>1. Once(j) /\ Gone(j)
      BY <1>1, <2>1, <2>4, OnceIsNoJobTwice DEF LifeInv, JobInv, LostIsGone
    <3>2. QED
      BY <2>2, <3>1 DEF Once, Gone
  <2>5. QED
    BY <1>1, <2>1, <2>3, <2>4, SharedIsShared DEF arrivedJobs
<1>3. QED
  BY <1>2 DEF Lifecycle!Travelling

-----------------------------------------------------------------------------
(* Every step as a step of RunLifecycle.                                   *)

\* Steps that only bring a request closer to its end.
LEMMA QuietSteps ==
  ASSUME TypeOK, UNCHANGED <<state, answer, runs, buffer, queue, lost>>,
         \A p \in Posts : step'[p] \in Busy <=> step[p] \in Busy
  PROVE  UNCHANGED Lifecycle!vars
<1>1. askedRuns' = askedRuns
  BY DEF askedRuns
<1>2. postsAtWork' = postsAtWork
  BY DEF postsAtWork, Busy
<1>3. writtenJobs' = writtenJobs /\ arrivedJobs' = arrivedJobs
  BY DEF writtenJobs, arrivedJobs, Written
<1>4. QED
  BY <1>1, <1>2, <1>3 DEF Lifecycle!vars

LEMMA PostRunAsks ==
  ASSUME TypeOK, NEW p \in Posts, PostRun(p), state[p] = None
  PROVE  Lifecycle!Ask(p)
<1>1. PICK n \in Sizes : state' = [state EXCEPT ![p] =
         [id |-> clock, status |-> "QUEUED", total |-> n, jobsPublished |-> 0]]
  BY DEF PostRun
<1> DEFINE record == [id |-> clock, status |-> "QUEUED", total |-> n, jobsPublished |-> 0]
<1>2. clock \in RunIds /\ record \in Records
  BY NewRecord DEF TypeOK
<1>3. Begun(record) = record /\ record # None
  BY <1>2, BegunRecord, RecordsArePresent
<1> HIDE DEF record
<1>4. state' = [state EXCEPT ![p] = record]
  BY <1>1 DEF record
<1>5. askedRuns[p] = None
  BY AskedFacts
<1>6. askedRuns' = [askedRuns EXCEPT ![p] = record]
  BY <1>3, <1>4 DEF askedRuns, TypeOK
<1>7. p \in Requests /\ step' = [step EXCEPT ![p] = "connect"]
  BY DEF PostRun, Requests
<1>8. postsAtWork' = postsAtWork \cup {p}
  BY <1>7 DEF postsAtWork, TypeOK
<1>9. writtenJobs' = writtenJobs /\ arrivedJobs' = arrivedJobs
  BY DEF PostRun, brokerVars, writtenJobs, arrivedJobs, Written
<1>10. answer' = answer /\ runs' = runs /\ lost' = lost
  BY DEF PostRun, brokerVars
<1>11. QED
  BY <1>2, <1>5, <1>6, <1>8, <1>9, <1>10 DEF record, Lifecycle!Ask

\* The jobs of a loop are the first n of the run.
LEMMA LoopWrites ==
  ASSUME TypeOK, TypeOK', NEW p \in Posts, state[p] \in Records, NEW n \in Sizes, Loop(p, n),
         UNCHANGED <<queue, lost>>
  PROVE  writtenJobs' = writtenJobs \cup ({state[p].id} \X (1 .. n))
<1>1. state[p].id \in RunIds /\ n \in Nat /\ 1 .. n \subseteq Positions /\ channel \in Requests
  BY OrchestratorAssumption DEF Records, Sizes, Positions, Loop
<1>2. Len(buffer[channel]) \in Nat
  BY <1>1, BuffersAreSequences
<1>3. ASSUME NEW j \in Jobs
      PROVE  (\E c \in Requests, k \in Nat : Added(p, n, c, k, j))
               <=> j \in {state[p].id} \X (1 .. n)
  <2>1. ASSUME NEW c \in Requests, NEW k \in Nat, Added(p, n, c, k, j)
        PROVE  j \in {state[p].id} \X (1 .. n)
    BY <2>1 DEF Added
  <2>2. ASSUME NEW m \in 1 .. n, j = <<state[p].id, m>>
        PROVE  \E c \in Requests, k \in Nat : Added(p, n, c, k, j)
    <3>1. /\ Len(buffer[channel]) + m \in Nat
          /\ Len(buffer[channel]) + m - Len(buffer[channel]) = m
      BY <1>1, <1>2
    <3>2. Added(p, n, channel, Len(buffer[channel]) + m, j)
      BY <2>2, <3>1 DEF Added
    <3>3. QED
      BY <1>1, <3>1, <3>2
  <2>3. QED
    BY <2>1, <2>2
<1>4. ASSUME NEW j \in Jobs
      PROVE  Written(j)' <=> Written(j) \/ j \in {state[p].id} \X (1 .. n)
  <2>1. \A c \in Requests, k \in Nat : Held(c, k, j)' <=> Held(c, k, j) \/ Added(p, n, c, k, j)
    BY LoopAdds
  <2>2. QED
    BY <1>3, <2>1, WrittenIsHeld, WrittenIsHeldNext
<1>5. {state[p].id} \X (1 .. n) \subseteq Jobs
  BY <1>1 DEF Jobs
<1>6. QED
  BY <1>4, <1>5 DEF writtenJobs

\* What all ends of a handler have in common.
LEMMA FinishEnds ==
  ASSUME LifeInv, NEW p \in Posts, step[p] \in Busy,
         NEW status \in {"RUNNING", "FAILED"}, NEW counted \in 0 .. MaxTests,
         Finish(p, status, counted), UNCHANGED <<queue, lost>>,
         NEW n \in 0 .. MaxTests,
         writtenJobs' = writtenJobs \cup ({state[p].id} \X (1 .. n))
  PROVE  /\ p \in postsAtWork
         /\ askedRuns[p].total = state[p].total
         /\ Lifecycle!End(p, status, n, counted)
         /\ answer' = [answer EXCEPT ![p] =
                         IF status = "RUNNING" THEN "accepted" ELSE "failed"]
<1>1. TypeOK /\ p \in Requests
  BY DEF LifeInv, JobInv, OrchInv, Requests
<1>2. /\ state[p] \in Records /\ state'[p] \in Records
      /\ state'[p].id = state[p].id /\ state'[p].total = state[p].total
      /\ state'[p].status = status /\ state'[p].jobsPublished = counted
      /\ \A q \in Posts : q # p => state'[q] = state[q]
      /\ step'[p] = "done" /\ \A r \in Requests : r # p => step'[r] = step[r]
      /\ runs'[state[p].id] = state'[p]
      /\ \A i \in RunIds : i # state[p].id => runs'[i] = runs[i]
      /\ runs' \in [RunIds -> Records \cup {None}]
  BY <1>1, FinishFacts
<1>3. state[p] # None /\ state'[p] # None
  BY <1>2, RecordsArePresent
<1>4. /\ askedRuns[p] = Begun(state[p]) /\ askedRuns[p].id = state[p].id
      /\ askedRuns[p].total = state[p].total
  BY <1>1, <1>3, AskedFacts DEF askedRuns
<1>5. askedRuns' = askedRuns
  <2>1. Begun(state'[p]) = Begun(state[p])
    BY <1>2, BegunRecord
  <2>2. QED
    BY <1>2, <1>3, <2>1 DEF askedRuns
<1>6. postsAtWork' = postsAtWork \ {p} /\ p \in postsAtWork
  <2>1. \A q \in Posts : q \in Requests
    BY DEF Requests
  <2>2. QED
    BY <1>2, <2>1 DEF postsAtWork, Busy
<1>7. runs' = [runs EXCEPT ![askedRuns[p].id] =
                 [askedRuns[p] EXCEPT !.status = status, !.jobsPublished = counted]]
  <2> DEFINE record == [askedRuns[p] EXCEPT !.status = status, !.jobsPublished = counted]
  <2>1. askedRuns[p] \in Records
    BY <1>2, <1>4, BegunRecord, NewRecord DEF Records
  <2>2. /\ record \in Records /\ record.id = askedRuns[p].id
        /\ record.status = status
        /\ record.total = askedRuns[p].total /\ record.jobsPublished = counted
    BY <2>1 DEF Records, Sizes
  <2> HIDE DEF record
  <2>3. record = state'[p]
    BY <1>2, <1>4, <2>2, RecordsByFields
  <2>4. runs' = [runs EXCEPT ![state[p].id] = record]
    BY <1>1, <1>2, <2>3 DEF TypeOK
  <2>5. QED
    BY <1>4, <2>4 DEF record
<1>8. writtenJobs \cap Lifecycle!FirstJobs(p, n) = {} \/ Lifecycle!Shared(askedRuns[p].id)
  <2>1. CASE Shared(state[p].id)
    BY <1>1, <1>4, <2>1, SharedIsShared
  <2>2. CASE ~ Shared(state[p].id)
    <3>1. ASSUME NEW j \in writtenJobs, j \in {state[p].id} \X (1 .. n)
          PROVE  FALSE
      <4>1. PICK m \in 1 .. n : j = <<state[p].id, m>>
        BY <3>1
      <4>2. m \in Positions /\ state[p].id \in RunIds
        BY <1>2, OrchestratorAssumption DEF Positions, Records
      <4>3. QED
        BY <1>3, <2>2, <3>1, <4>1, <4>2, LoopIsFirst DEF LifeInv, writtenJobs
    <3>2. QED
      BY <1>4, <3>1 DEF Lifecycle!FirstJobs
  <2>3. QED
    BY <2>1, <2>2
<1>9. writtenJobs' = writtenJobs \cup Lifecycle!FirstJobs(p, n)
  BY <1>4 DEF Lifecycle!FirstJobs
<1>10. arrivedJobs' = arrivedJobs
  BY DEF arrivedJobs
<1>11. Lifecycle!End(p, status, n, counted)
  BY <1>5, <1>6, <1>7, <1>8, <1>9, <1>10 DEF Lifecycle!End
<1>12. QED
  BY <1>4, <1>6, <1>11 DEF Finish

LEMMA LoopAnswers ==
  ASSUME LifeInv, TypeOK', NEW p \in Posts, step[p] \in Busy, state[p] \in Records,
         NEW n \in Sizes, Loop(p, n), UNCHANGED <<queue, lost>>
  PROVE  Lifecycle!Accept(p) \/ Lifecycle!Refuse(p)
<1>1. TypeOK
  BY DEF LifeInv, JobInv, OrchInv
<1>2. /\ n \in 0 .. MaxTests /\ (n > 0 => n - 1 \in 0 .. MaxTests)
      /\ state[p].total \in Nat /\ n \in Nat /\ n <= state[p].total
  BY OrchestratorAssumption DEF Sizes, Records, Loop
<1>3. writtenJobs' = writtenJobs \cup ({state[p].id} \X (1 .. n))
  BY <1>1, LoopWrites
<1>4. CASE n = state[p].total /\ Finish(p, "RUNNING", n)
  <2>1. /\ p \in postsAtWork /\ askedRuns[p].total = n
        /\ Lifecycle!End(p, "RUNNING", n, n)
        /\ answer' = [answer EXCEPT ![p] = "accepted"]
    BY <1>2, <1>3, <1>4, FinishEnds
  <2>2. QED
    BY <2>1 DEF Lifecycle!Accept
<1>5. CASE n > 0 /\ Finish(p, "FAILED", n - 1)
  <2>1. /\ p \in postsAtWork /\ askedRuns[p].total = state[p].total
        /\ Lifecycle!End(p, "FAILED", n, n - 1)
        /\ answer' = [answer EXCEPT ![p] = "failed"]
    BY <1>2, <1>3, <1>5, FinishEnds
  <2>2. n \in 1 .. askedRuns[p].total
    BY <1>2, <1>5, <2>1
  <2>3. QED
    BY <2>1, <2>2 DEF Lifecycle!Refuse
<1>6. QED
  BY <1>4, <1>5 DEF Loop

\* Before the loop a handler fails with nothing written.
LEMMA FailureRefuses ==
  ASSUME LifeInv, NEW p \in Posts, step[p] \in Busy, Finish(p, "FAILED", 0),
         UNCHANGED <<buffer, queue, lost>>
  PROVE  Lifecycle!Refuse(p)
<1>1. 0 \in 0 .. MaxTests
  BY OrchestratorAssumption
<1>2. writtenJobs' = writtenJobs
  BY DEF writtenJobs, Written
<1>3. 1 .. 0 = {}
  OBVIOUS
<1>4. writtenJobs' = writtenJobs \cup ({state[p].id} \X (1 .. 0))
  BY <1>2, <1>3
<1>5. /\ p \in postsAtWork
      /\ Lifecycle!End(p, "FAILED", 0, 0)
      /\ answer' = [answer EXCEPT ![p] = "failed"]
  BY <1>1, <1>4, FinishEnds
<1>6. QED
  BY <1>5 DEF Lifecycle!Refuse

\* What moves jobs without a handler leaves the requests as they are.
LEMMA MovesWriteNothing ==
  ASSUME TypeOK, TypeOK', [Next]_vars,
         (\E c \in Requests : Send(c)) \/ (\E gone \in SUBSET Requests : Dropped(gone))
  PROVE  writtenJobs' = writtenJobs
  BY OnlyLoopsWrite, WrittenStays DEF writtenJobs

LEMMA SendArrives ==
  ASSUME LifeInv, TypeOK', NEW c \in Requests, Send(c)
  PROVE  \E j \in writtenJobs : Lifecycle!Arrive(j)
<1> DEFINE j == Head(buffer[c])
<1>1. TypeOK
  BY DEF LifeInv, JobInv, OrchInv
<1>2. /\ j \in Jobs /\ Held(c, 1, j) /\ lost' = lost
      /\ queue' = [queue EXCEPT ![j] = @ + 1]
  BY <1>1, SendMoves
<1> HIDE DEF j
<1>3. Lifecycle!Travelling({j})
  BY <1>2, HeldTravels
<1>4. j \in writtenJobs
  BY <1>3 DEF Lifecycle!Travelling
<1>5. writtenJobs' = writtenJobs
  BY <1>1, MovesWriteNothing DEF Next
<1>6. arrivedJobs' = arrivedJobs \cup {j}
  BY <1>1, <1>2 DEF arrivedJobs, TypeOK
<1>7. /\ askedRuns' = askedRuns /\ postsAtWork' = postsAtWork
      /\ answer' = answer /\ runs' = runs
  BY DEF Send, requestVars, askedRuns, postsAtWork
<1>8. QED
  BY <1>2, <1>3, <1>4, <1>5, <1>6, <1>7 DEF Lifecycle!Arrive

\* What some channels hold is on its way.
LEMMA DroppedTravel ==
  ASSUME LifeInv, NEW gone \in SUBSET Requests
  PROVE  Lifecycle!Travelling(UNION {Range(buffer[c]) : c \in gone})
<1>1. TypeOK
  BY DEF LifeInv, JobInv, OrchInv
<1>2. ASSUME NEW c \in gone, NEW j \in Range(buffer[c])
      PROVE  j \in Jobs /\ \E d \in Requests, k \in Nat : Held(d, k, j)
  <2>1. PICK k \in Nat : Held(c, k, j)
    BY <1>1, <1>2, RangeIsHeld
  <2>2. buffer[c] \in Seq(Jobs) /\ k \in 1 .. Len(buffer[c]) /\ buffer[c][k] = j
    BY <1>1, <2>1, BuffersAreSequences DEF Held
  <2>3. QED
    BY <2>1, <2>2
<1>3. QED
  BY <1>2, HeldTravels

LEMMA CloseLoses ==
  ASSUME LifeInv, TypeOK', NEW c \in Requests, Close(c)
  PROVE  \E jobs \in SUBSET writtenJobs : Lifecycle!Lose(jobs)
<1> DEFINE jobs == UNION {Range(buffer[d]) : d \in {c}}
<1>1. TypeOK
  BY DEF LifeInv, JobInv, OrchInv
<1>2. jobs = Range(buffer[c])
  OBVIOUS
<1>3. Dropped({c})
  <2>1. buffer' = [d \in Requests |-> IF d \in {c} THEN <<>> ELSE buffer[d]]
    BY <1>1 DEF Close, TypeOK
  <2>2. QED
    BY <1>2, <2>1 DEF Close, Dropped
<1>4. Lifecycle!Travelling(jobs)
  BY DroppedTravel
<1>5. writtenJobs' = writtenJobs
  BY <1>1, <1>3, MovesWriteNothing DEF Next
<1>6. lost' = lost \cup jobs
  BY <1>2 DEF Close
<1> HIDE DEF jobs
<1>7. /\ askedRuns' = askedRuns /\ postsAtWork' = postsAtWork /\ arrivedJobs' = arrivedJobs
      /\ answer' = answer /\ runs' = runs
  BY DEF Close, requestVars, askedRuns, postsAtWork, arrivedJobs
<1>8. QED
  BY <1>4, <1>5, <1>6, <1>7 DEF Lifecycle!Lose, Lifecycle!Travelling

LEMMA CrashForgets ==
  ASSUME LifeInv, TypeOK', Crash
  PROVE  \E jobs \in SUBSET writtenJobs : Lifecycle!Forget(jobs)
<1> DEFINE jobs == UNION {Range(buffer[c]) : c \in Requests}
<1>1. TypeOK
  BY DEF LifeInv, JobInv, OrchInv
<1>2. Dropped(Requests)
  BY DEF Crash, Dropped
<1>3. Lifecycle!Travelling(jobs)
  BY DroppedTravel
<1>4. writtenJobs' = writtenJobs
  BY <1>1, <1>2, MovesWriteNothing DEF Next
<1>5. lost' = lost \cup jobs
  BY DEF Crash
<1> HIDE DEF jobs
<1>6. postsAtWork' = {}
  BY DEF Crash, postsAtWork, Requests
<1>7. /\ askedRuns' = askedRuns /\ arrivedJobs' = arrivedJobs
      /\ answer' = answer /\ runs' = [i \in RunIds |-> None]
  BY DEF Crash, askedRuns, arrivedJobs
<1>8. QED
  BY <1>3, <1>4, <1>5, <1>6, <1>7 DEF Lifecycle!Forget, Lifecycle!Travelling

LEMMA CancelCancels ==
  ASSUME TypeOK, NEW i \in RunIds, Cancel(i)
  PROVE  Lifecycle!Cancel(i)
<1>1. /\ askedRuns' = askedRuns /\ postsAtWork' = postsAtWork
      /\ writtenJobs' = writtenJobs /\ arrivedJobs' = arrivedJobs
  BY DEF Cancel, requestVars, brokerVars, askedRuns, postsAtWork, writtenJobs, arrivedJobs, Written
<1>2. QED
  BY <1>1 DEF Cancel, requestVars, brokerVars, Lifecycle!Cancel

LEMMA StepLifecycle ==
  ASSUME LifeInv, TypeOK', [Next]_vars
  PROVE  [Lifecycle!Next]_(Lifecycle!vars)
<1>1. TypeOK /\ \A p \in Posts : p \in Requests /\ (step[p] = "idle" <=> state[p] = None)
  BY DEF LifeInv, JobInv, OrchInv, Authored, Requests
<1>2. ASSUME NEW p \in Posts, PostRun(p)
      PROVE  Lifecycle!Next
  BY <1>1, <1>2, PostRunAsks DEF PostRun, Lifecycle!Next
<1>3. ASSUME NEW p \in Posts, Publish(p)
      PROVE  Lifecycle!Next
  <2>1. UNCHANGED <<queue, lost>>
    BY <1>3 DEF Publish, brokerVars
  <2>2. QED
    BY <1>1, <1>3, <2>1, PublishLoops, LoopAnswers DEF Lifecycle!Next
<1>4. ASSUME NEW p \in Posts, ChannelFails(p) \/ ConnectFails(p)
      PROVE  Lifecycle!Next
  <2>1. Finish(p, "FAILED", 0) /\ step[p] \in Busy /\ UNCHANGED <<buffer, queue, lost>>
    BY <1>4 DEF ChannelFails, ConnectFails, brokerVars, Busy
  <2>2. QED
    BY <2>1, FailureRefuses DEF Lifecycle!Next
<1>5. ASSUME NEW i \in RunIds, Cancel(i)
      PROVE  Lifecycle!Next
  BY <1>1, <1>5, CancelCancels DEF Lifecycle!Next
<1>6. ASSUME NEW c \in Requests, Send(c) \/ Close(c)
      PROVE  Lifecycle!Next
  BY <1>6, SendArrives, CloseLoses DEF Lifecycle!Next
<1>7. CASE Crash
  BY <1>7, CrashForgets DEF Lifecycle!Next
<1>8. ASSUME \/ Tick \/ UNCHANGED vars
             \/ \E p \in Posts : AssertNext(p)
             \/ \E h \in Probes : GetHealth(h)
             \/ \E r \in Requests : Connect(r) \/ (r \in Probes /\ ConnectFails(r))
      PROVE  UNCHANGED Lifecycle!vars
  <2>1. \A h \in Probes : h \notin Posts
    BY OrchestratorAssumption
  <2>2. UNCHANGED <<state, answer, runs, buffer, queue, lost>>
    BY <1>8, <2>1
    DEF Tick, vars, AssertNext, GetHealth, Connect, ConnectFails, requestVars, brokerVars
  <2>3. \A p \in Posts : step'[p] \in Busy <=> step[p] \in Busy
    <3>1. CASE UNCHANGED step
      BY <3>1
    <3>2. ASSUME NEW h \in Probes, GetHealth(h) \/ ConnectFails(h)
          PROVE  \A p \in Posts : step'[p] = step[p]
      <4>1. \A p \in Posts : p # h
        BY <2>1
      <4>2. QED
        BY <1>1, <2>1, <3>2, <4>1 DEF GetHealth, ConnectFails, TypeOK
    <3>3. ASSUME NEW r \in Requests, Connect(r)
          PROVE  \A p \in Posts : step'[p] \in Busy <=> step[p] \in Busy
      BY <1>1, <3>3 DEF Connect, Busy, TypeOK
    <3>4. QED
      BY <1>8, <3>1, <3>2, <3>3 DEF Tick, vars, AssertNext, requestVars
  <2>4. QED
    BY <1>1, <2>2, <2>3, QuietSteps
<1>9. QED
  BY <1>2, <1>3, <1>4, <1>5, <1>6, <1>7, <1>8
     DEF Next, HandlePost, HandleConnect, Requests

\* For every number of requests that share and replace channels, and whatever is
\* lost: a client sees a run that is answered, recorded and written in one step,
\* and no job of which comes to the workers twice, or comes and is lost as well,
\* unless another run has its id.
THEOREM OrchestratorImplementsRunLifecycle == Spec => ImplementsRunLifecycle
<1>1. LifeInv => TypeOK
  BY DEF LifeInv, JobInv, OrchInv
<1>2. LifeInv /\ LifeInv' /\ [Next]_vars => [Lifecycle!Next]_(Lifecycle!vars)
  BY <1>1, StepLifecycle, PTL
<1>3. QED
  BY <1>2, InitLifecycle, LifeInvariant, PTL DEF Spec, ImplementsRunLifecycle, Lifecycle!Spec
=============================================================================
