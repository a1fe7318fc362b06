------------------------------ MODULE MCPortal ------------------------------
(* Instances of Portal for TLC.                                            *)
EXTENDS Portal, TLC

CONSTANTS i1, i2, r1, r2

\* Both attempts belong to one run; the other run is one that has no rows.
OneRun == [i \in Items |-> r1]

\* Two spec files have the id of i1.
OneShared == [i \in Items |-> IF i = i1 THEN {"a", "b"} ELSE {"a"}]

Report(st, w, s, n) == [status |-> st, worker |-> w, file |-> s, logs |-> n]

\* A redelivery that changes the worker only, a push of the other file's job that
\* changes the file only, a verdict that has to look for its logs in the archive,
\* and one that has them.
FewReports == {Report("RUNNING", "w1", "a", 0), Report("RUNNING", "w2", "a", 0),
               Report("RUNNING", "w1", "b", 0),
               Report("COMPLETED", "w2", "a", 0), Report("FAILED", "w1", "a", 1)}

AllOrFailed == {Statuses, {"FAILED"}}
=============================================================================
