------------------------ MODULE ExecutionStoreProofs ------------------------
(***************************************************************************)
(* Theorems about ExecutionStore for every set of attempts and of          *)
(* concurrent requests, and their proofs.                                  *)
(***************************************************************************)
EXTENDS ExecutionStore, TLAPS

CompletionColumns == {"completedAt", "durationMs"}

\* What a handler relies on between its calls, whatever the others do: the
\* object a row points to stays, and a row on its way to MinIO is finished.
HandlersOK ==
  \A r \in Requests :
    /\ step[r] # "idle" => Accepted(body[r])
    /\ step[r] # "idle" /\ row[r] # Absent /\ row[r].logObject
         => objects[body[r].key] # Absent
    /\ step[r] \in {"put", "repoint"} =>
         /\ IsTerminal(row[r])
         /\ row[r] \in Rows
         /\ CompletionColumns \subseteq row[r].columns
    /\ step[r] = "repoint" => objects[body[r].key] # Absent

StoreInv ==
  /\ TypeOK
  /\ PointerValid
  /\ ArchiveSelfContained
  /\ HandlersOK

-----------------------------------------------------------------------------
LEMMA RowsArePresent == \A rec \in Rows : rec # Absent
  BY StoreAssumption

LEMMA StampedIsColumns == \A m \in Messages : Stamped(m) \subseteq Columns
  BY DEF Stamped, Columns, Messages, Statuses, LiveStatuses, TerminalStatuses

LEMMA MergeIsRow ==
  ASSUME NEW existing \in MaybeRows, NEW m \in Messages
  PROVE  Merge(existing, m) \in Rows
<1>1. MergedStatus(existing, m) \in Statuses
  BY DEF MergedStatus, IsTerminal, Messages, MaybeRows, Rows
<1>2. existing # Absent => existing \in Rows
  BY DEF MaybeRows
<1>3. Stamped(m) \cup (IF existing = Absent THEN {} ELSE existing.columns) \in SUBSET Columns
  BY <1>2, StampedIsColumns DEF Rows
<1>4. (IF m.logs > 0 \/ existing = Absent THEN m.logs ELSE existing.logs) \in 0 .. MaxLogs
  BY <1>2 DEF Rows, Messages
<1>5. (existing # Absent /\ existing.logObject) \in BOOLEAN
  OBVIOUS
<1>6. QED
  BY <1>1, <1>3, <1>4, <1>5 DEF Merge, Rows

\* A request to /executions/complete that passed the validation merges into the
\* row of a finished attempt.
LEMMA MergeOfCompletion ==
  ASSUME NEW existing \in MaybeRows, NEW m \in Messages,
         m.endpoint = "complete", Accepted(m)
  PROVE  /\ IsTerminal(Merge(existing, m))
         /\ CompletionColumns \subseteq Merge(existing, m).columns
<1>1. m.status \in TerminalStatuses /\ m.status \notin LiveStatuses
  BY DEF Accepted, TerminalStatuses, LiveStatuses
<1>2. Merge(existing, m).status = m.status
  BY <1>1 DEF Merge, MergedStatus
<1>3. Merge(existing, m) # Absent
  BY MergeIsRow, RowsArePresent
<1>4. CompletionColumns \subseteq Stamped(m)
  BY DEF Stamped, CompletionColumns
<1>5. QED
  BY <1>1, <1>2, <1>3, <1>4 DEF IsTerminal, Merge

LEMMA MergeKeepsPointer ==
  ASSUME NEW existing, NEW m, Merge(existing, m).logObject
  PROVE  existing # Absent /\ existing.logObject
  BY DEF Merge

LEMMA PointedRow ==
  ASSUME NEW rec \in Rows
  PROVE  /\ Pointed(rec) \in Rows /\ Pointed(rec).logObject
         /\ Pointed(rec).status = rec.status /\ Pointed(rec).columns = rec.columns
  BY DEF Pointed, Rows

-----------------------------------------------------------------------------
LEMMA StoreInit == Init => StoreInv
  BY StoreAssumption
  DEF Init, StoreInv, TypeOK, MaybeRows, PointerValid, ArchiveSelfContained, HandlersOK

LEMMA StoreStep == StoreInv /\ [Next]_storeVars => StoreInv'
<1> SUFFICES ASSUME StoreInv, [Next]_storeVars PROVE StoreInv'
  OBVIOUS
<1>0. TypeOK /\ PointerValid /\ ArchiveSelfContained /\ HandlersOK
  BY DEF StoreInv
<1> USE StoreAssumption
<1>1. ASSUME NEW r \in Requests, NEW m \in Bodies, Receive(r, m) PROVE StoreInv'
  <2>1. m \in Messages /\ m.key \in Keys
    BY DEF Messages
  <2>2. TypeOK'
    BY <1>0, <1>1, <2>1 DEF Receive, processVars, TypeOK
  <2>3. PointerValid' /\ ArchiveSelfContained'
    BY <1>0, <1>1 DEF Receive, processVars, PointerValid, ArchiveSelfContained, IsTerminal
  <2>4. table[m.key] # Absent /\ table[m.key].logObject => objects[m.key] # Absent
    BY <1>0, <2>1 DEF PointerValid
  <2>5. HandlersOK'
    BY <1>0, <1>1, <2>4 DEF Receive, processVars, TypeOK, HandlersOK, Accepted, IsTerminal
  <2>6. QED
    BY <2>2, <2>3, <2>5 DEF StoreInv
<1>2. ASSUME NEW r \in Requests, Save(r) PROVE StoreInv'
  <2> DEFINE record == Merge(row[r], body[r])
  <2>1. body[r] \in Messages /\ body[r].key \in Keys /\ row[r] \in MaybeRows /\ step[r] = "save"
    BY <1>0, <1>2 DEF Save, TypeOK, Messages
  <2>2. record \in Rows
    BY <2>1, MergeIsRow
  <2>3. record # Absent /\ record \in MaybeRows
    BY <2>2, RowsArePresent DEF MaybeRows
  <2>4. record.logObject => objects[body[r].key] # Absent
    BY <1>0, <2>1, MergeKeepsPointer DEF HandlersOK
  <2>5. body[r].endpoint = "complete" =>
          IsTerminal(record) /\ CompletionColumns \subseteq record.columns
    BY <1>0, <2>1, MergeOfCompletion DEF HandlersOK
  <2> HIDE DEF record
  <2>6. /\ table' = [table EXCEPT ![body[r].key] = record]
        /\ UNCHANGED <<objects, mode, todo, missed>>
        /\ \/ /\ body[r].endpoint = "complete"
              /\ step' = [step EXCEPT ![r] = "put"]
              /\ row' = [row EXCEPT ![r] = record]
              /\ body' = body
           \/ Answer(r)
    BY <1>2 DEF Save, processVars, record
  <2>7. TypeOK'
    BY <1>0, <2>1, <2>3, <2>6 DEF TypeOK, Answer, MaybeRows
  <2>8. PointerValid'
    BY <1>0, <2>1, <2>4, <2>6 DEF PointerValid, TypeOK
  <2>9. ArchiveSelfContained'
    BY <1>0, <2>6 DEF ArchiveSelfContained, IsTerminal
  <2>10. HandlersOK'
    <3>1. CASE Answer(r)
      BY <1>0, <2>6, <3>1 DEF Answer, HandlersOK, TypeOK, Accepted, IsTerminal
    <3>2. CASE body[r].endpoint = "complete" /\ ~ Answer(r)
      BY <1>0, <2>1, <2>2, <2>4, <2>5, <2>6, <3>2
      DEF HandlersOK, TypeOK, Accepted, IsTerminal
    <3>3. QED
      BY <2>6, <3>1, <3>2
  <2>11. QED
    BY <2>7, <2>8, <2>9, <2>10 DEF StoreInv
<1>3. ASSUME NEW r \in Requests, PutObject(r) PROVE StoreInv'
  <2>1. /\ body[r] \in Messages /\ body[r].key \in Keys /\ row[r] \in Rows
        /\ IsTerminal(row[r]) /\ CompletionColumns \subseteq row[r].columns
    BY <1>0, <1>3 DEF PutObject, TypeOK, Messages, HandlersOK
  <2> DEFINE rec == Pointed(row[r])
  <2>2. /\ rec \in Rows /\ rec # Absent /\ rec \in MaybeRows /\ rec.logObject
        /\ rec.status = row[r].status /\ rec.columns = row[r].columns
    BY <2>1, PointedRow, RowsArePresent DEF MaybeRows
  <2>3. IsTerminal(rec) /\ CompletionColumns \subseteq rec.columns
    BY <2>1, <2>2 DEF IsTerminal
  <2> HIDE DEF rec
  <2>4. /\ objects' = [objects EXCEPT ![body[r].key] = rec]
        /\ step' = [step EXCEPT ![r] = "repoint"]
        /\ UNCHANGED <<table, body, row, mode, todo, missed>>
    BY <1>3 DEF PutObject, processVars, rec
  <2>5. \A k \in Keys : objects[k] # Absent => objects'[k] # Absent
    BY <1>0, <2>2, <2>4 DEF TypeOK
  <2>6. TypeOK'
    BY <1>0, <1>3, <2>1, <2>2, <2>4 DEF TypeOK, PutObject
  <2>7. PointerValid'
    BY <1>0, <2>4, <2>5 DEF PointerValid
  <2>8. ArchiveSelfContained'
    BY <1>0, <2>1, <2>2, <2>3, <2>4
    DEF ArchiveSelfContained, TypeOK, IsTerminal, CompletionColumns
  <2>9. \A q \in Requests : step[q] # "idle" => body[q].key \in Keys
    BY <1>0 DEF TypeOK, Messages
  <2>10. objects'[body[r].key] # Absent
    BY <1>0, <2>1, <2>2, <2>4 DEF TypeOK
  <2>11. HandlersOK'
    BY <1>0, <1>3, <2>4, <2>5, <2>9, <2>10
    DEF HandlersOK, TypeOK, Accepted, IsTerminal, PutObject
  <2>12. QED
    BY <2>6, <2>7, <2>8, <2>11 DEF StoreInv
<1>4. ASSUME NEW r \in Requests, SavePointer(r) PROVE StoreInv'
  <2>1. /\ body[r].key \in Keys /\ row[r] \in Rows
        /\ objects[body[r].key] # Absent
    BY <1>0, <1>4 DEF SavePointer, TypeOK, Messages, HandlersOK
  <2>2. Pointed(row[r]) \in MaybeRows
    BY <2>1, PointedRow DEF MaybeRows
  <2>3. TypeOK'
    BY <1>0, <1>4, <2>1, <2>2 DEF SavePointer, Answer, processVars, TypeOK, MaybeRows
  <2>4. PointerValid' /\ ArchiveSelfContained'
    BY <1>0, <1>4, <2>1
    DEF SavePointer, processVars, TypeOK, PointerValid, ArchiveSelfContained, IsTerminal
  <2>5. HandlersOK'
    BY <1>0, <1>4 DEF SavePointer, Answer, processVars, TypeOK, HandlersOK, Accepted, IsTerminal
  <2>6. QED
    BY <2>3, <2>4, <2>5 DEF StoreInv
<1>5. ASSUME NEW r \in Requests, ArtifactsFail(r) PROVE StoreInv'
  BY <1>0, <1>5
  DEF ArtifactsFail, Answer, processVars, StoreInv, TypeOK, MaybeRows, PointerValid,
      ArchiveSelfContained, HandlersOK, Accepted, IsTerminal
<1>6. ASSUME Crash PROVE StoreInv'
  BY <1>0, <1>6
  DEF Crash, StoreInv, TypeOK, MaybeRows, PointerValid, ArchiveSelfContained,
      HandlersOK, IsTerminal
<1>7. ASSUME Start \/ Listen PROVE StoreInv'
  BY <1>0, <1>7
  DEF Start, Listen, Listings, Archived, requestVars, StoreInv, TypeOK, PointerValid,
      ArchiveSelfContained, HandlersOK, Accepted, IsTerminal
<1>8. ASSUME NEW k \in Keys, Import(k) PROVE StoreInv'
  <2>1. TypeOK'
    BY <1>0, <1>8 DEF Import, requestVars, TypeOK
  <2>2. PointerValid' /\ ArchiveSelfContained'
    BY <1>0, <1>8
    DEF Import, requestVars, TypeOK, PointerValid, ArchiveSelfContained, IsTerminal
  <2>3. HandlersOK'
    BY <1>0, <1>8 DEF Import, requestVars, HandlersOK, Accepted, IsTerminal
  <2>4. QED
    BY <2>1, <2>2, <2>3 DEF StoreInv
<1>9. ASSUME LoseTable PROVE StoreInv'
  BY <1>0, <1>9
  DEF LoseTable, requestVars, StoreInv, TypeOK, MaybeRows, PointerValid,
      ArchiveSelfContained, HandlersOK, Accepted, IsTerminal
<1>10. CASE UNCHANGED storeVars
  BY <1>0, <1>10
  DEF storeVars, StoreInv, TypeOK, PointerValid, ArchiveSelfContained, HandlersOK,
      Accepted, IsTerminal
<1>11. QED
  BY <1>1, <1>2, <1>3, <1>4, <1>5, <1>6, <1>7, <1>8, <1>9, <1>10
  DEF Next, Handle, Process

LEMMA StoreInvariant == Spec => []StoreInv
  BY StoreInit, StoreStep, PTL DEF Spec

\* Table, objects and requests keep their types through every interleaving of
\* handlers, crash, import and loss of the table.
THEOREM TypeCorrect == Spec => []TypeOK
<1>1. StoreInv => TypeOK
  BY DEF StoreInv
<1>2. QED
  BY <1>1, StoreInvariant, PTL

\* In every reachable state a row that points to an execution.json points to
\* one that exists, for any number of attempts and of handlers interleaved at
\* their awaits, through crashes, imports and the loss of the table.
THEOREM PointersLead == Spec => []PointerValid
<1>1. StoreInv => PointerValid
  BY DEF StoreInv
<1>2. QED
  BY <1>1, StoreInvariant, PTL

\* What is archived is the record of a finished attempt, with what an import
\* needs, however handlers interleave.
THEOREM ArchiveIsSelfContained == Spec => []ArchiveSelfContained
<1>1. StoreInv => ArchiveSelfContained
  BY DEF StoreInv
<1>2. QED
  BY <1>1, StoreInvariant, PTL

-----------------------------------------------------------------------------
(* What is archived is served.                                             *)

\* Handlers live only while the store is up, and a handler past its first save
\* has its row in the table.
RequestsHaveRows ==
  \A r \in Requests : step[r] # "idle" =>
    /\ mode = "up"
    /\ step[r] \in {"put", "repoint"} => table[body[r].key] # Absent

\* What is archived has a row, is still to be imported, or was missed.
ImportComplete ==
  /\ mode = "importing" => \A k \in todo : objects[k] # Absent
  /\ \/ \A k \in Archived : k \in missed \/ table[k] # Absent
     \/ mode = "down" /\ \A k \in Keys : table[k] = Absent
     \/ mode = "importing" /\ \A k \in Archived : k \in missed \cup todo \/ table[k] # Absent

ServedInv == StoreInv /\ RequestsHaveRows /\ ImportComplete

LEMMA ServedInit == Init => RequestsHaveRows /\ ImportComplete
  BY DEF Init, RequestsHaveRows, ImportComplete, Archived

LEMMA ServedStep ==
  ASSUME ServedInv, [Next]_storeVars
  PROVE  RequestsHaveRows' /\ ImportComplete'
<1>0. TypeOK /\ HandlersOK /\ RequestsHaveRows /\ ImportComplete
  BY DEF ServedInv, StoreInv
<1> USE DEF RequestsHaveRows, ImportComplete, Archived
<1>1. ASSUME NEW r \in Requests, NEW m \in Bodies, Receive(r, m)
      PROVE  RequestsHaveRows' /\ ImportComplete'
  BY <1>0, <1>1 DEF Receive, processVars, TypeOK
<1>2. ASSUME NEW r \in Requests, Save(r)
      PROVE  RequestsHaveRows' /\ ImportComplete'
  <2>1. body[r] \in Messages /\ row[r] \in MaybeRows /\ body[r].key \in Keys
    BY <1>0, <1>2 DEF Save, TypeOK, Messages
  <2>2. PICK rec \in Rows : table' = [table EXCEPT ![body[r].key] = rec]
    BY <1>2, <2>1, MergeIsRow DEF Save
  <2>3. rec # Absent
    BY RowsArePresent
  <2>4. mode = "up" /\ UNCHANGED <<objects, processVars>>
    BY <1>0, <1>2 DEF Save
  <2>5. \A q \in Requests : q # r => step'[q] = step[q] /\ body'[q] = body[q]
    BY <1>0, <1>2 DEF Save, Answer, TypeOK
  <2>6. step'[r] = "idle" \/ body'[r] = body[r]
    BY <1>0, <1>2 DEF Save, Answer, TypeOK
  <2>7. \A k \in Keys : table'[k] = IF k = body[r].key THEN rec ELSE table[k]
    BY <1>0, <2>2 DEF TypeOK
  <2>8. \A k \in Keys : table[k] # Absent => table'[k] # Absent
    BY <2>3, <2>7
  <2>9. ImportComplete'
    BY <1>0, <2>4, <2>8 DEF processVars
  <2>10. RequestsHaveRows'
    <3> SUFFICES ASSUME NEW q \in Requests, step'[q] # "idle"
                 PROVE  mode' = "up" /\ (step'[q] \in {"put", "repoint"} => table'[body'[q].key] # Absent)
      OBVIOUS
    <3>1. CASE q = r
      BY <2>1, <2>3, <2>4, <2>6, <2>7, <3>1 DEF processVars
    <3>2. CASE q # r
      <4>1. body[q] \in Messages /\ body[q].key \in Keys
        BY <1>0, <2>5, <3>2 DEF TypeOK, Messages
      <4> QED  BY <1>0, <2>4, <2>5, <2>8, <3>2, <4>1 DEF processVars
    <3> QED  BY <3>1, <3>2
  <2> QED  BY <2>9, <2>10
<1>3. ASSUME NEW r \in Requests, PutObject(r)
      PROVE  RequestsHaveRows' /\ ImportComplete'
  <2>1. body[r].key \in Keys /\ table[body[r].key] # Absent /\ mode = "up"
    BY <1>0, <1>3 DEF PutObject, TypeOK, Messages
  <2>2. \A k \in Keys : k # body[r].key => objects'[k] = objects[k]
    BY <1>0, <1>3 DEF PutObject, TypeOK
  <2> QED  BY <1>0, <1>3, <2>1, <2>2 DEF PutObject, processVars, TypeOK
<1>4. ASSUME NEW r \in Requests, SavePointer(r)
      PROVE  RequestsHaveRows' /\ ImportComplete'
  <2>1. body[r].key \in Keys /\ Pointed(row[r]) # Absent
    BY <1>0, <1>4, PointedRow, RowsArePresent DEF SavePointer, TypeOK, HandlersOK, Messages
  <2>2. \A k \in Keys : table[k] # Absent => table'[k] # Absent
    BY <1>0, <1>4, <2>1 DEF SavePointer, TypeOK
  <2>3. \A q \in Requests : step'[q] # "idle" => step'[q] = step[q] /\ body'[q] = body[q]
    BY <1>0, <1>4 DEF SavePointer, Answer, TypeOK
  <2>4. \A q \in Requests : step[q] # "idle" => body[q].key \in Keys
    BY <1>0 DEF TypeOK, Messages
  <2> QED  BY <1>0, <1>4, <2>2, <2>3, <2>4 DEF SavePointer, processVars
<1>5. ASSUME NEW r \in Requests, ArtifactsFail(r)
      PROVE  RequestsHaveRows' /\ ImportComplete'
  <2>1. \A q \in Requests : step'[q] # "idle" => step'[q] = step[q] /\ body'[q] = body[q]
    BY <1>0, <1>5 DEF ArtifactsFail, Answer, TypeOK
  <2> QED  BY <1>0, <1>5, <2>1 DEF ArtifactsFail, processVars
<1>6. ASSUME Crash
      PROVE  RequestsHaveRows' /\ ImportComplete'
  <2>1. RequestsHaveRows'
    BY <1>6 DEF Crash
  <2>2. ImportComplete'
    BY <1>0, <1>6 DEF Crash
  <2> QED  BY <2>1, <2>2
<1>7. ASSUME Start \/ Listen
      PROVE  RequestsHaveRows' /\ ImportComplete'
  BY <1>0, <1>7 DEF Start, Listen, Listings, requestVars, TypeOK
<1>8. ASSUME NEW k \in Keys, Import(k)
      PROVE  RequestsHaveRows' /\ ImportComplete'
  <2>1. objects[k] # Absent
    BY <1>0, <1>8 DEF Import
  <2>2. \A j \in Keys : table'[j] = IF j = k THEN objects[k] ELSE table[j]
    BY <1>0, <1>8 DEF Import, TypeOK
  <2> QED  BY <1>0, <1>8, <2>1, <2>2 DEF Import, requestVars
<1>9. ASSUME LoseTable
      PROVE  RequestsHaveRows' /\ ImportComplete'
  BY <1>0, <1>9 DEF LoseTable, requestVars
<1>10. CASE UNCHANGED storeVars
  BY <1>0, <1>10 DEF storeVars
<1>11. QED
  BY <1>1, <1>2, <1>3, <1>4, <1>5, <1>6, <1>7, <1>8, <1>9, <1>10
  DEF Next, Handle, Process

\* While the store serves, every archived attempt has a row, unless the last import
\* could not read it or was cut before it: handlers die with the process, so none
\* of them archives an attempt that a lost table or an unfinished import has no row
\* of.
THEOREM ArchiveIsServed == Spec => []ArchiveServed
<1>1. ServedInv => ArchiveServed
  BY DEF ServedInv, ImportComplete, ArchiveServed
<1>2. Init => ServedInv
  BY StoreInit, ServedInit DEF ServedInv
<1>3. ServedInv /\ [Next]_storeVars => ServedInv'
  BY StoreStep, ServedStep DEF ServedInv
<1>4. QED
  BY <1>1, <1>2, <1>3, PTL DEF Spec

-----------------------------------------------------------------------------
(* Lost updates.                                                           *)

\* A merge keeps what the row it starts from holds.
LEMMA MergeKeeps ==
  ASSUME NEW existing \in MaybeRows, NEW m \in Messages
  PROVE  Keeps(Merge(existing, m), existing)
<1> SUFFICES ASSUME existing # Absent PROVE Keeps(Merge(existing, m), existing)
  BY DEF Keeps
<1> USE DEF Merge
<1>1. existing \in Rows /\ Merge(existing, m) # Absent
  BY MergeIsRow, RowsArePresent DEF MaybeRows
<1>2. IsTerminal(existing) => IsTerminal(Merge(existing, m))
  BY <1>1 DEF IsTerminal, MergedStatus, Messages, Statuses
<1>3. existing.logs > 0 => Merge(existing, m).logs > 0
  BY <1>1 DEF Rows, Messages
<1>4. QED
  BY <1>2, <1>3 DEF Keeps

LEMMA PointedKeeps ==
  ASSUME NEW rec \in Rows
  PROVE  Keeps(Pointed(rec), rec)
<1>1. Pointed(rec) # Absent /\ Pointed(rec).logs = rec.logs
  BY PointedRow, RowsArePresent DEF Pointed, Rows
<1>2. QED
  BY <1>1, PointedRow DEF Keeps, IsTerminal

LEMMA FreshSaveStep ==
  ASSUME StoreInv, [Next]_storeVars, NEW r \in Requests,
         Saves(r), row[r] = table[body[r].key]
  PROVE  Keeps(table'[body[r].key], table[body[r].key])
<1>1. /\ TypeOK /\ HandlersOK
      /\ step[r] \in {"save", "repoint"} /\ step'[r] # step[r] /\ mode' = "up"
      /\ body[r] \in Messages /\ body[r].key \in Keys /\ row[r] \in MaybeRows
  BY DEF StoreInv, TypeOK, Saves, Messages
<1>2. ASSUME NEW q \in Requests, NEW m \in Bodies, Receive(q, m) PROVE FALSE
  BY <1>1, <1>2 DEF Receive, TypeOK
<1>3. CASE Save(r)
  <2>1. table'[body[r].key] = Merge(row[r], body[r])
    BY <1>1, <1>3 DEF Save, TypeOK
  <2>2. QED
    BY <1>1, <2>1, MergeKeeps
<1>4. CASE SavePointer(r)
  <2>1. table'[body[r].key] = Pointed(row[r]) /\ row[r] \in Rows
    BY <1>1, <1>4 DEF SavePointer, TypeOK, HandlersOK
  <2>2. QED
    BY <2>1, PointedKeeps
<1>5. CASE ArtifactsFail(r)
  BY <1>5 DEF ArtifactsFail, Keeps
<1>6. ASSUME NEW q \in Requests, Handle(q), q # r PROVE FALSE
  BY <1>1, <1>6
  DEF Handle, Save, PutObject, SavePointer, ArtifactsFail, Answer, TypeOK
<1>7. CASE PutObject(r)
  BY <1>1, <1>7 DEF PutObject
<1>8. ASSUME Process \/ UNCHANGED storeVars PROVE FALSE
  BY <1>1, <1>8
  DEF Process, Crash, Start, Import, Listen, LoseTable, requestVars, storeVars
<1>9. QED
  BY <1>2, <1>3, <1>4, <1>5, <1>6, <1>7, <1>8 DEF Next, Handle

\* For any number of concurrent requests, only a save of a row that has changed
\* since its handler read or wrote it can take a terminal status, a column, the
\* logs or the pointer away from the table.
THEOREM LossNeedsRace == Spec => FreshSaveLosesNothing
<1>1. StoreInv /\ [Next]_storeVars =>
        \A r \in Requests : Saves(r) /\ row[r] = table[body[r].key]
          => Keeps(table'[body[r].key], table[body[r].key])
  BY FreshSaveStep
<1>2. QED
  BY <1>1, StoreInvariant, PTL DEF Spec, FreshSaveLosesNothing
=============================================================================
