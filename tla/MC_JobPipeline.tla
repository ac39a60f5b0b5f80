-------------------------- MODULE MC_JobPipeline ---------------------------
(* Small instances of JobPipeline for TLC. *)
EXTENDS JobPipeline

CONSTANTS j1, j2, c1

MC_Jobs    == {j1, j2}
MC_OneJob  == {j1}
MC_Cancels == {c1}
MC_NoCancels == {}
MC_AllFaults == AllFaults

\* Losing the database connection once, and nothing else.
MC_DbDrop == {"db_drop"}

MC_NoFaults == {}

============================================================================
