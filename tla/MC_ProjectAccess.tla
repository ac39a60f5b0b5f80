-------------------------- MODULE MC_ProjectAccess --------------------------
(* A small instance of AccessTrail, and so of ProjectAccess, for TLC. *)
EXTENDS AccessTrail, TLC

CONSTANTS ann, bob, i1, a1, a2, c1, r1, g1, g2

MC_Users == {ann, bob}
MC_Managers == {}
MC_Invites == {i1}
MC_Accepts == {a1, a2}
MC_Cancels == {c1}
MC_Removals == {r1}
MC_Changes == {g1, g2}
\* Those below "approver" are refused what these requests ask for, and change nothing.
MC_Permissions == {"approver"}

\* Links followed and requests differ in their names only.
Interchangeable == Permutations(MC_Accepts) \cup Permutations(MC_Changes)
=============================================================================
