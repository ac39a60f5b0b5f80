----------------------- MODULE MC_ConnectionManager ------------------------
(* A small instance of ConnectionManager for TLC. *)
EXTENDS ConnectionManager

CONSTANTS s1, s2, p1, p2

MC_Two == {s1, s2}
MC_Projects == {p1, p2}

\* Both clients watch p1; of p2 only notifications arrive.
MC_AllOnOne == [s \in MC_Two |-> p1]

============================================================================
