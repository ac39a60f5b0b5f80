--------------------------- MODULE MC_FileStorage ---------------------------
(* A small instance of FileStorage for TLC. *)
EXTENDS FileStorage

CONSTANTS f1, f2, d1, d2, g1

MC_Files == {f1, f2}
MC_Deletes == {d1, d2}
MC_Downloads == {g1}
=============================================================================
