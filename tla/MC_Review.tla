------------------------------ MODULE MC_Review ------------------------------
EXTENDS Review, TLC

MCMappings == {"m1", "m2", "m3", "m4"}
MCProjectOf == [m \in MCMappings |-> IF m = "m3" THEN "q" ELSE "p"]
MCCreated == [m \in MCMappings |-> IF m = "m2" THEN 2 ELSE 1]

MCFirstTypes ==
    (<<"first", "a">> :> [project |-> "p", source |-> "a", target |-> "x"]) @@
    (<<"first", "b">> :> [project |-> "q", source |-> "a", target |-> "x"])

\* ann and bob review; m1 and m4, of one moment, and m2 are of project p, m3 of q.
MCInputs ==
    {[op |-> "edit", user |-> "ann", mapping |-> "m1", data |-> d]:
        d \in {[name |-> "none"], [status |-> "approved"], [name |-> "n2", score |-> 40]}}
    \union {[op |-> "delete", user |-> u, mapping |-> m]: u \in {"ann", "bob"}, m \in {"m1"}}
    \union {[op |-> "bulk", user |-> "bob", ids |-> ids, data |-> [status |-> "rejected"]]:
        ids \in {{"m1", "m3"}, {}}}
    \union {[op |-> "bulk", user |-> "bob", ids |-> {"m1"}, data |-> [name |-> "n1"]]}
    \union {[op |-> "score", user |-> "bob", project |-> "p", low |-> 50, high |-> 100,
             data |-> [status |-> "confirmed"]]}
    \union {[op |-> "list", user |-> "ann", project |-> "p", status |-> "suggested",
             skip |-> k, limit |-> k + 1]: k \in {0, 1}}
    \union {[op |-> "access", project |-> p, user |-> "bob", role |-> role]:
        p \in {"p", "q"}, role \in {"none", "editor"}}
    \union {[op |-> "replace", user |-> "bob", project |-> "p", body |-> b]:
        b \in {"a" :> "y", ("a" :> "x") @@ ("b" :> "y")}}
    \union {[op |-> "clear", user |-> "ann", project |-> "p"],
            [op |-> "retype", user |-> "ann", id |-> <<"first", "a">>, target |-> "z"]}

Symmetry == Permutations(Reqs)
=============================================================================
