-------------------------- MODULE MC_MappingStore --------------------------
(* Small instances of MappingStore for TLC. *)
EXTENDS MappingStore

CONSTANTS c1, c2, s1, s2, stranger

From(s, a) == [sug |-> s, id |-> NoMapping, active |-> a]
ById(m, a) == [sug |-> NoSuggestion, id |-> m, active |-> a]
Manual == [sug |-> NoSuggestion, id |-> NoMapping, active |-> TRUE]

MC_Two == {c1, c2}
MC_Suggestions == {s1, s2}
MC_Strangers == {stranger}

\* Suggestions in both orders, one rejected, one twice, one of another project, an id
\* that may be missing when its row is reached, and a manual mapping.
MC_Mixed == {<<>>, <<From(s1, TRUE), From(s2, TRUE)>>, <<From(s2, FALSE), From(s1, TRUE)>>,
             <<From(s1, TRUE), ById(<<c1, 1>>, TRUE)>>, <<Manual, ById(<<c1, 1>>, FALSE)>>,
             <<From(s1, TRUE), From(s1, FALSE)>>,
             <<From(stranger, TRUE), From(s1, FALSE)>>}
=============================================================================
