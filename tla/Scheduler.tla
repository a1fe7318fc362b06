----------------------------- MODULE Scheduler -----------------------------
(***************************************************************************)
(* The tests of a run are dummy tests or the spec files of a folder.       *)
(***************************************************************************)
EXTENDS Scheduling, Catalog

VARIABLE source  \* what POST /runs asks for

schedulerVars == <<source, schedulingVars, catalogVars>>

SchedulerInit == Init /\ CatalogInit /\ source \in {"dummy", "e2e"}

DummyRun == source = "dummy" /\ Next /\ UNCHANGED <<source, catalogVars>>
SpecRun  == source = "e2e" /\ CatalogNext /\ UNCHANGED <<source, schedulingVars>>

SchedulerNext == DummyRun \/ SpecRun

SchedulerSpec == SchedulerInit /\ [][SchedulerNext]_schedulerVars
=============================================================================
