--------------------------- MODULE ExecutionStore ---------------------------
(***************************************************************************)
(* The execution store: an HTTP service that keeps one row per attempt of  *)
(* a test in Postgres (table) and, for finished attempts, an               *)
(* execution.json object in MinIO (objects).                               *)
(*                                                                         *)
(* A request handler is a chain of awaited calls, and any other request    *)
(* may run between two of them: it reads the row, saves the merge of that  *)
(* row and its body, and, on /executions/complete, puts the object and     *)
(* saves the row once more with a pointer to the object.  Each query and   *)
(* each put is atomic.                                                     *)
(*                                                                         *)
(* A row is abstracted to its status, the set of optional columns that are *)
(* not null, the number of log entries and whether it points to an object. *)
(***************************************************************************)
EXTENDS Naturals

CONSTANTS
  Keys,      \* execution ids: a run, a test and an attempt
  Requests,  \* requests that can be in flight at once
  MaxLogs,   \* bound: log entries in a request body
  Bodies,    \* the requests that clients make
  Absent     \* no row, no object

LiveStatuses     == {"STARTED", "RUNNING"}
TerminalStatuses == {"COMPLETED", "FAILED"}
Statuses         == LiveStatuses \cup TerminalStatuses
Columns == {"startedAt", "runningAt", "completedAt", "durationMs", "screenshotObject"}

Rows == [status : Statuses, columns : SUBSET Columns,
         logs : 0 .. MaxLogs, logObject : BOOLEAN]
MaybeRows == Rows \cup {Absent}

\* A request; screenshot: whether the body names a screenshot object, which
\* /executions/status does not look at.
Messages == [endpoint : {"status", "complete"}, key : Keys, status : Statuses,
             logs : 0 .. MaxLogs, screenshot : BOOLEAN]

ASSUME StoreAssumption ==
  /\ MaxLogs \in Nat
  /\ Absent \notin Rows
  /\ Bodies \subseteq Messages

VARIABLES
  table,      \* execution_store_records
  objects,    \* the execution.json objects
  step,       \* step[r]: the call the handler of request r makes next
  body,       \* body[r]: the request being handled
  row,        \* row[r]: the row the handler read, later the row it saved
  mode,       \* the process: "down", "importing" or "up"
  todo,       \* the objects that start() has read and has yet to import
  missed      \* history: archived attempts that the last import did not save

storeVars   == <<table, objects, step, body, row, mode, todo, missed>>
requestVars == <<step, body, row>>
processVars == <<mode, todo, missed>>

NoBody == [endpoint |-> "none"]

TypeOK ==
  /\ table \in [Keys -> MaybeRows]
  /\ objects \in [Keys -> MaybeRows]
  /\ step \in [Requests -> {"idle", "save", "put", "repoint"}]
  /\ body \in [Requests -> Messages \cup {NoBody}]
  /\ row \in [Requests -> MaybeRows]
  /\ mode \in {"down", "importing", "up"}
  /\ todo \in SUBSET Keys
  /\ missed \in SUBSET Keys
  /\ \A r \in Requests : step[r] # "idle" => body[r] \in Messages

Init ==
  /\ table = [k \in Keys |-> Absent]
  /\ objects = [k \in Keys |-> Absent]
  /\ step = [r \in Requests |-> "idle"]
  /\ body = [r \in Requests |-> NoBody]
  /\ row = [r \in Requests |-> Absent]
  /\ mode = "down"
  /\ todo = {}
  /\ missed = {}

-----------------------------------------------------------------------------
(* The row upsert computes.                                                *)

IsTerminal(rec) == rec # Absent /\ rec.status \in TerminalStatuses

\* The columns a request sets itself.
Stamped(m) ==
  IF m.endpoint = "complete"
    THEN {"completedAt", "durationMs"}
           \cup (IF m.screenshot THEN {"screenshotObject"} ELSE {})
    ELSE {CASE m.status = "STARTED" -> "startedAt"
            [] m.status = "RUNNING" -> "runningAt"
            [] OTHER -> "completedAt"}

\* Mutant: the last status to arrive wins.
LastStatus(existing, m) == m.status

\* A terminal status gives way only to another terminal status.
MergedStatus(existing, m) ==
  IF IsTerminal(existing) /\ m.status \in LiveStatuses
    THEN existing.status
    ELSE m.status

\* Mutant: logs are appended.
MergeAppends(existing, m) ==
  [status    |-> MergedStatus(existing, m),
   columns   |-> Stamped(m) \cup (IF existing = Absent THEN {} ELSE existing.columns),
   logs      |-> m.logs + (IF existing = Absent THEN 0 ELSE existing.logs),
   logObject |-> existing # Absent /\ existing.logObject]

\* What the request leaves undefined keeps the value of the row that was read;
\* an empty list of logs counts as undefined.
Merge(existing, m) ==
  [status    |-> MergedStatus(existing, m),
   columns   |-> Stamped(m) \cup (IF existing = Absent THEN {} ELSE existing.columns),
   logs      |-> IF m.logs > 0 \/ existing = Absent THEN m.logs ELSE existing.logs,
   logObject |-> existing # Absent /\ existing.logObject]

\* Mutant: both endpoints take any status.
AcceptAll(m) == m.status \in Statuses

\* The validation both endpoints begin with; what fails it is answered 400.
Accepted(m) == m.endpoint = "complete" => m.status \in TerminalStatuses

-----------------------------------------------------------------------------
(* The handlers of POST /executions/status and POST /executions/complete.  *)

Answer(r) ==
  /\ step' = [step EXCEPT ![r] = "idle"]
  /\ body' = [body EXCEPT ![r] = NoBody]
  /\ row' = [row EXCEPT ![r] = Absent]

\* Validation and getExecutionRecord.
Receive(r, m) ==
  /\ mode = "up"
  /\ step[r] = "idle"
  /\ Accepted(m)
  /\ step' = [step EXCEPT ![r] = "save"]
  /\ body' = [body EXCEPT ![r] = m]
  /\ row' = [row EXCEPT ![r] = table[m.key]]
  /\ UNCHANGED <<table, objects, processVars>>

\* Mutant: the pointer is set before the put.
SaveEarlyPointer(r) ==
  /\ step[r] = "save"
  /\ LET record == [Merge(row[r], body[r]) EXCEPT
                     !.logObject = @ \/ body[r].endpoint = "complete"]
     IN  /\ table' = [table EXCEPT ![body[r].key] = record]
         /\ IF body[r].endpoint = "complete"
              THEN /\ step' = [step EXCEPT ![r] = "put"]
                   /\ row' = [row EXCEPT ![r] = record]
                   /\ UNCHANGED body
              ELSE Answer(r)
  /\ UNCHANGED <<objects, processVars>>

\* saveExecutionRecord in upsert: every column is overwritten.
Save(r) ==
  /\ step[r] = "save"
  /\ LET record == Merge(row[r], body[r])
     IN  /\ table' = [table EXCEPT ![body[r].key] = record]
         /\ IF body[r].endpoint = "complete"
              THEN /\ step' = [step EXCEPT ![r] = "put"]
                   /\ row' = [row EXCEPT ![r] = record]
                   /\ UNCHANGED body
              ELSE Answer(r)
  /\ UNCHANGED <<objects, processVars>>

Pointed(record) == [record EXCEPT !.logObject = TRUE]

\* putJson in persistArtifacts.
PutObject(r) ==
  /\ step[r] = "put"
  /\ objects' = [objects EXCEPT ![body[r].key] = Pointed(row[r])]
  /\ step' = [step EXCEPT ![r] = "repoint"]
  /\ UNCHANGED <<table, body, row, processVars>>

\* saveExecutionRecord in persistArtifacts writes the row of the first save,
\* whatever the table holds by now.
SavePointer(r) ==
  /\ step[r] = "repoint"
  /\ table' = [table EXCEPT ![body[r].key] = Pointed(row[r])]
  /\ Answer(r)
  /\ UNCHANGED <<objects, processVars>>

\* Either call of persistArtifacts may throw; the handler answers 202 anyway.
ArtifactsFail(r) ==
  /\ step[r] \in {"put", "repoint"}
  /\ Answer(r)
  /\ UNCHANGED <<table, objects, processVars>>

-----------------------------------------------------------------------------
(* The process.  An error of a query in upsert is a rejected promise that  *)
(* nothing handles, which ends the process like a kill does.               *)
Crash ==
  /\ mode # "down"
  /\ mode' = "down"
  /\ missed' = missed \cup todo
  /\ todo' = {}
  /\ step' = [r \in Requests |-> "idle"]
  /\ body' = [r \in Requests |-> NoBody]
  /\ row' = [r \in Requests |-> Absent]
  /\ UNCHANGED <<table, objects>>

Archived == {k \in Keys : objects[k] # Absent}

\* listExecutionRecords: an object that cannot be read or parsed is passed over.
Listings == SUBSET Archived

\* start: the objects are read back only into a table without a single row, and
\* all of them before the first one is saved.
Start ==
  /\ mode = "down"
  /\ IF \A k \in Keys : table[k] = Absent
       THEN \E read \in Listings :
              mode' = "importing" /\ todo' = read /\ missed' = Archived \ read
       ELSE mode' = "up" /\ todo' = {} /\ UNCHANGED missed
  /\ UNCHANGED <<table, objects, requestVars>>

\* One turn of the import loop.
Import(k) ==
  /\ mode = "importing"
  /\ k \in todo
  /\ table' = [table EXCEPT ![k] = objects[k]]
  /\ todo' = todo \ {k}
  /\ UNCHANGED <<objects, requestVars, mode, missed>>

\* Mutant: the import is not awaited.
ListenEarly ==
  /\ mode = "importing"
  /\ mode' = "up"
  /\ UNCHANGED <<table, objects, requestVars, todo, missed>>

Listen ==
  /\ mode = "importing"
  /\ todo = {}
  /\ mode' = "up"
  /\ UNCHANGED <<table, objects, requestVars, todo, missed>>

\* External: the database comes back empty (a new volume), the objects remain.
LoseTable ==
  /\ mode = "down"
  /\ table' = [k \in Keys |-> Absent]
  /\ missed' = {}
  /\ UNCHANGED <<objects, requestVars, mode, todo>>

-----------------------------------------------------------------------------
Handle(r) == Save(r) \/ PutObject(r) \/ SavePointer(r) \/ ArtifactsFail(r)

Process ==
  \/ Crash
  \/ Start
  \/ \E k \in Keys : Import(k)
  \/ Listen
  \/ LoseTable

Next ==
  \/ \E r \in Requests : (\E m \in Bodies : Receive(r, m)) \/ Handle(r)
  \/ Process

Spec == Init /\ [][Next]_storeVars

-----------------------------------------------------------------------------
(* Properties.                                                             *)

\* A row never points to an execution.json that is not there: the row gets its
\* pointer after the put, and no merge, stale save or import breaks that.
PointerValid ==
  \A k \in Keys : table[k] # Absent /\ table[k].logObject => objects[k] # Absent

\* What is archived is the record of a finished attempt, with its completion
\* time and duration and with the pointer the next import needs.
ArchiveSelfContained ==
  \A k \in Keys : objects[k] # Absent =>
    /\ IsTerminal(objects[k])
    /\ {"completedAt", "durationMs"} \subseteq objects[k].columns
    /\ objects[k].logObject

\* While the store serves, every archived attempt has a row, also after the table
\* was lost, but for those that the import into the empty table missed: it could
\* not read them, or a crash cut it short before it saved them, and the rows that
\* the table has since keep the next start from importing the rest.
ArchiveServed ==
  mode = "up" => \A k \in Archived : k \in missed \/ table[k] # Absent

\* What one row keeps of another.
Keeps(new, old) ==
  old # Absent =>
    /\ IsTerminal(old) => IsTerminal(new)
    /\ old.columns \subseteq new.columns
    /\ old.logs > 0 => new.logs > 0
    /\ old.logObject => new.logObject

\* The step is a save of request r.
Saves(r) == step[r] \in {"save", "repoint"} /\ step'[r] # step[r] /\ mode' = "up"

\* Only a race loses data: a handler whose row is still the row of the table
\* when it saves keeps the terminal status, the columns, the logs and the
\* pointer that the table holds.
FreshSaveLosesNothing ==
  [][\A r \in Requests :
       Saves(r) /\ row[r] = table[body[r].key]
         => Keeps(table'[body[r].key], table[body[r].key])]_storeVars
=============================================================================
