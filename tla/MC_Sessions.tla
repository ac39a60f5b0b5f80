---------------------------- MODULE MC_Sessions ----------------------------
(* Small instances of Sessions for TLC. *)
EXTENDS Sessions, TLC

CONSTANTS r1, r2, r3, r4, r5

MC_Requests == {r1, r2, r3, r4, r5}
MC_Symmetry == Permutations(MC_Requests)
=============================================================================
