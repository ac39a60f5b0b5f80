---------------------------- MODULE MC_ApiService ----------------------------
EXTENDS ApiService, TLC

CONSTANTS p0, gone

Scores == {0, 60, 100}
Pairs(S) == {<<x, y>>: x \in S, y \in S}

\* A column against two fields, a name, which may be empty, against two candidates,
\* and up to three rows of two types in a chart with two headings.
MCMatchings ==
    {[op |-> "column", cutoff |-> c, column |-> [name |-> n, id |-> d, exact |-> e]]:
        c \in {0, 60}, n \in Pairs(Scores), d \in Pairs(Scores), e \in Pairs(BOOLEAN)}
    \union {[op |-> "name", cutoff |-> 50, column |-> [name |-> n, id |-> <<>>, exact |-> e, empty |-> FALSE]]:
        n \in Pairs(Scores), e \in Pairs(BOOLEAN)}
    \union {[op |-> "name", cutoff |-> 50,
             column |-> [name |-> <<0, 0>>, id |-> <<>>, exact |-> e, empty |-> TRUE]]:
        e \in Pairs(BOOLEAN)}
    \union {[op |-> "group", headings |-> h, rows |-> rs, table |-> t,
             scores |-> [x \in {"a", "b"} |-> <<40, 70>>]]:
        h \in Pairs({{}, {"type"}, {"name", "type"}}),
        rs \in UNION {[1..n -> Pairs({"a", "b"})]: n \in 0..3},
        t \in {("a" :> 1), ("a" :> 2) @@ ("b" :> 1)}}

\* p0 exists; gone is the id of no project.
MCInputs ==
    {[op |-> "newproject"], [op |-> "job", projects |-> <<p0>>],
     [op |-> "mappings", projects |-> <<p0, p0>>], [op |-> "mappings", projects |-> <<p0, gone>>],
     [op |-> "mappings", projects |-> <<>>],
     [op |-> "upload", projects |-> <<>>], [op |-> "upload", projects |-> <<p0>>],
     [op |-> "delproject", project |-> p0],
     [op |-> "edit", ids |-> {}, name |-> "n1"], [op |-> "bulkedit", ids |-> {}, name |-> "n2"],
     [op |-> "delete", ids |-> {}], [op |-> "open"]}
    \union {[op |-> op, session |-> "none"]: op \in {"save", "export", "drop"}}
Symmetry == Permutations(Reqs) \union Permutations(Replicas)
=============================================================================
