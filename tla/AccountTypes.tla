---------------------------- MODULE AccountTypes -----------------------------
(***************************************************************************)
(* The account-type table of a project: a save replaces it by a DELETE of  *)
(* all its rows and an INSERT of the new ones in one transaction, a clear  *)
(* is the DELETE alone, and one row can be changed by its id.              *)
(*                                                                         *)
(* PostgreSQL at READ COMMITTED: the DELETE removes the rows committed when*)
(* it starts.  It waits for the rows another transaction is deleting and   *)
(* skips those that are then gone; rows inserted meanwhile it does not see.*)
(*                                                                         *)
(* Source: src/src/modules/mappings/account_types/.                        *)
(***************************************************************************)
EXTENDS MappingReview

CONSTANT FirstTypes     \* the rows at the start: [project, source, target]

Columns == {"project", "source", "target"}

ASSUME TypesAssumption ==
    /\ \A id \in DOMAIN FirstTypes: /\ id[1] \notin Reqs
                                   /\ DOMAIN FirstTypes[id] = Columns
                                   /\ FirstTypes[id].project \in Projects
    /\ \A i \in Inputs: i.op \in {"replace", "clear"} => i.project \in Projects

VARIABLES
    types,      \* the committed rows: id -> [project, source, target]
    victims,    \* request -> the ids its DELETE has yet to remove
    held        \* request -> the ids its transaction has deleted

typeVars == <<types, victims, held>>

TypesInit ==
    /\ types = FirstTypes
    /\ victims = [r \in Reqs |-> {}]
    /\ held = [r \in Reqs |-> {}]

SaveTypes(r, i) == i.op = "replace" /\ Start(r, i, "check", {i.project}) /\ UNCHANGED typeVars
ClearTypes(r, i) == i.op = "clear" /\ Start(r, i, "check", {i.project}) /\ UNCHANGED typeVars

\* The row is read first, to learn its project.
Retype(r, i) ==
    /\ i.op = "retype"
    /\ Start(r, i, IF i.id \in DOMAIN types THEN "check" ELSE "failed",
             IF i.id \in DOMAIN types THEN {types[i.id].project} ELSE {})
    /\ UNCHANGED typeVars

Replaces(r) == req[r].op \in {"replace", "clear"}

\* What the table of a project shows, and what its DELETE removes.
RowsOf(p) == {id \in DOMAIN types: types[id].project = p}
HeldByOthers(r) == UNION {held[q]: q \in Reqs \ {r}}

\* The DELETE takes its snapshot.
BeginDelete(r) ==
    /\ pc[r] = "apply" /\ Replaces(r)
    /\ victims' = [victims EXCEPT ![r] = RowsOf(req[r].project)]
    /\ Goto(r, "delete")
    /\ UNCHANGED <<access, row, req, need, loaded, wrote, before, faults, types, held>>

\* It goes on when nobody else holds one of its rows.
DeleteRows(r) ==
    /\ pc[r] = "delete"
    /\ victims[r] \intersect HeldByOthers(r) = {}
    /\ held' = [held EXCEPT ![r] = victims[r] \intersect DOMAIN types]
    /\ victims' = [victims EXCEPT ![r] = {}]
    /\ Goto(r, "insert")
    /\ UNCHANGED <<access, row, req, need, loaded, wrote, before, faults, types>>

\* The rows a save inserts: an id for each account type of its body.
NewIds(r) == IF req[r].op = "replace" THEN {<<r, s>>: s \in DOMAIN req[r].body} ELSE {}
NewRow(r, id) ==
    [project |-> req[r].project, source |-> id[2], target |-> req[r].body[id[2]]]

\* What is left when the deletions are committed with the new rows.
Replaced(r) ==
    [id \in (DOMAIN types \ held[r]) \union NewIds(r) |->
        IF id \in NewIds(r) THEN NewRow(r, id) ELSE types[id]]

CommitTypes(r) ==
    /\ pc[r] = "insert"
    /\ types' = Replaced(r)
    /\ held' = [held EXCEPT ![r] = {}]
    /\ Goto(r, "ok")
    /\ UNCHANGED <<access, row, req, need, loaded, wrote, before, faults, victims>>

\* Changing one row; it waits for who is deleting it, and fails if it is gone.
WriteType(r) ==
    /\ pc[r] = "apply" /\ req[r].op = "retype"
    /\ req[r].id \notin HeldByOthers(r)
    /\ types' = [id \in DOMAIN types |->
                    IF id = req[r].id THEN [types[id] EXCEPT !.target = req[r].target]
                    ELSE types[id]]
    /\ Goto(r, IF req[r].id \in DOMAIN types THEN "ok" ELSE "failed")
    /\ UNCHANGED <<access, row, req, need, loaded, wrote, before, faults, victims, held>>

\* Not the code: each statement commits on its own.
RollBackNothing(r) ==
    /\ pc[r] \in {"delete", "insert"}
    /\ faults < MaxFaults
    /\ faults' = faults + 1
    /\ types' = [id \in DOMAIN types \ held[r] |-> types[id]]
    /\ victims' = [victims EXCEPT ![r] = {}]
    /\ held' = [held EXCEPT ![r] = {}]
    /\ Goto(r, "failed")
    /\ UNCHANGED <<access, row, req, need, loaded, wrote, before>>

\* A statement or the commit fails and the transaction is rolled back.
RollBackTypes(r) ==
    /\ pc[r] \in {"delete", "insert"}
    /\ faults < MaxFaults
    /\ faults' = faults + 1
    /\ victims' = [victims EXCEPT ![r] = {}]
    /\ held' = [held EXCEPT ![r] = {}]
    /\ Goto(r, "failed")
    /\ UNCHANGED <<access, row, req, need, loaded, wrote, before, types>>

TypesStep(r) ==
    \/ \E i \in Inputs: SaveTypes(r, i) \/ ClearTypes(r, i) \/ Retype(r, i)
    \/ BeginDelete(r) \/ DeleteRows(r) \/ CommitTypes(r) \/ WriteType(r)
    \/ RollBackTypes(r)
-----------------------------------------------------------------------------
(***************************************************************************)
(* Properties.                                                             *)
(***************************************************************************)
\* The table of a project is what one save made of it, and whole: after an
\* answered save it holds that save's rows and, if others were answered that
\* had not ended when it began, rows of those.  So two saves one after the other
\* are never mixed, a failed save changes nothing, and a clear leaves nothing;
\* two at once may leave both.
LastReplaceIsShown ==
    \A r \in Reqs: pc[r] = "ok" /\ Replaces(r) =>
        LET p == req[r].project
            others == {q \in Reqs \ {r}: /\ pc[q] = "ok" /\ Replaces(q)
                                         /\ req[q].project = p /\ Later(q, r)}
        IN  /\ RowsOf(p) \subseteq NewIds(r) \union UNION {NewIds(q): q \in others}
            /\ others = {} => RowsOf(p) = NewIds(r)

TypesTypeOK ==
    /\ \A id \in DOMAIN types: DOMAIN types[id] = Columns /\ types[id].project \in Projects
    /\ DOMAIN victims = Reqs /\ DOMAIN held = Reqs
    /\ \A r \in Reqs: held[r] # {} => pc[r] = "insert"
=============================================================================
