---------------------------- MODULE MappingReview ----------------------------
(***************************************************************************)
(* Reviewing the mappings of several projects: edits, deletions and status *)
(* changes by ids or by score, each a request that reads rows, checks the  *)
(* user's access to their projects one await after the other, and writes.  *)
(* An UPDATE and the commit after it are one step here, as the row lock    *)
(* makes them.  The ORM writes only the attributes that differ from what   *)
(* the request has read.  The list is read page by page.                   *)
(*                                                                         *)
(* Source: src/src/modules/mappings/{service,repository,routes}.py.  Bulk  *)
(* saves, which add and revive mappings, are in MappingStore.              *)
(***************************************************************************)
EXTENDS Naturals, FiniteSets, Functions

CONSTANTS
    Reqs,           \* requests; each is used once
    Projects,
    Users,
    Mappings,       \* the rows of coa_mappings
    ProjectOf,      \* mapping -> its project
    Created,        \* mapping -> created_at; those of one save may have the same
    Inputs,         \* what clients send
    MaxFaults       \* commits that fail

Fields == {"status", "name", "score", "source", "active"}
Levels == [none |-> 0, viewer |-> 1, editor |-> 2]

ASSUME ReviewAssumption ==
    /\ ProjectOf \in [Mappings -> Projects]
    /\ Created \in [Mappings -> Nat]
    /\ IsFiniteSet(Mappings)
    /\ MaxFaults \in Nat

ASSUME InputsAssumption ==
    \A i \in Inputs:
        /\ i.op # "none"
        /\ i.op \in {"edit", "delete"} => i.mapping \in Mappings
        /\ i.op = "edit" => DOMAIN i.data \subseteq Fields
        /\ i.op = "bulk" => i.ids \subseteq Mappings
        /\ i.op \in {"score", "access", "list"} => i.project \in Projects
        /\ i.op = "list" => i.skip \in Nat /\ i.limit \in Nat
        /\ i.op = "access" => i.user \in Users /\ i.role \in DOMAIN Levels

VARIABLES
    access,     \* project -> user -> permission
    row,        \* mapping -> field -> value, as committed
    req,        \* request -> its input
    pc,         \* request -> what it does next, or how it ended
    need,       \* request -> the projects it still has to be allowed to edit
    loaded,     \* request -> the rows it has read; of a list, the page it shows
    wrote,      \* request -> the rows it has written
    before,     \* request -> the requests that had ended when it began
    faults

reviewVars == <<access, row, req, pc, need, loaded, wrote, before, faults>>

NoInput == [op |-> "none"]
Ended(r) == pc[r] \in {"ok", "refused", "failed"}
Began(r) == pc[r] # "idle"
Goto(r, place) == pc' = [pc EXCEPT ![r] = place]

FirstRow == [status |-> "suggested", name |-> "n0", score |-> 80, source |-> "ai",
             active |-> TRUE]

ReviewInit ==
    /\ access = [p \in Projects |-> [u \in Users |-> "editor"]]
    /\ row = [m \in Mappings |-> FirstRow]
    /\ req = [r \in Reqs |-> NoInput]
    /\ pc = [r \in Reqs |-> "idle"]
    /\ need = [r \in Reqs |-> {}]
    /\ loaded = [r \in Reqs |-> <<>>]
    /\ wrote = [r \in Reqs |-> {}]
    /\ before = [r \in Reqs |-> {}]
    /\ faults = 0

\* What a request does first: those that name rows have to read them to learn
\* their projects.
Start(r, input, place, projects) ==
    /\ pc[r] = "idle"
    /\ req' = [req EXCEPT ![r] = input]
    /\ Goto(r, place)
    /\ need' = [need EXCEPT ![r] = projects]
    /\ before' = [before EXCEPT ![r] = {q \in Reqs: Ended(q)}]
    /\ UNCHANGED <<access, row, loaded, wrote, faults>>

UpdateMapping(r, i) == i.op = "edit" /\ Start(r, i, "load", {})
DeleteMapping(r, i) == i.op = "delete" /\ Start(r, i, "load", {})

\* Without a status there is nothing to update.
BulkUpdate(r, i) ==
    /\ i.op = "bulk"
    /\ Start(r, i, IF "status" \in DOMAIN i.data THEN "load" ELSE "ok", {})

BulkByScore(r, i) == i.op = "score" /\ Start(r, i, "check", {i.project})

\* GET /project/{id}, and the export, whose page is the first of 10000.
ListMappings(r, i) == i.op = "list" /\ Start(r, i, "check", {i.project})

\* Somebody else gives or takes access (projects/service.py, ProjectAccess).
SetAccess(r, i) ==
    /\ i.op = "access"
    /\ pc[r] = "idle"
    /\ access' = [access EXCEPT ![i.project][i.user] = i.role]
    /\ req' = [req EXCEPT ![r] = i]
    /\ Goto(r, "ok")
    /\ before' = [before EXCEPT ![r] = {q \in Reqs: Ended(q)}]
    /\ UNCHANGED <<row, need, loaded, wrote, faults>>

\* The rows a request names.
Named(r) ==
    CASE req[r].op \in {"edit", "delete"} -> {req[r].mapping}
      [] req[r].op = "bulk" -> req[r].ids
      [] OTHER -> {}

LoadRows(r) ==
    /\ pc[r] = "load"
    /\ loaded' = [loaded EXCEPT ![r] = [m \in Named(r) |-> row[m]]]
    /\ need' = [need EXCEPT ![r] = {ProjectOf[m]: m \in Named(r)}]
    /\ Goto(r, IF Named(r) = {} THEN "apply" ELSE "check")
    /\ UNCHANGED <<access, row, req, wrote, before, faults>>

\* Reading needs less than writing.
Needed(r) == IF req[r].op = "list" THEN Levels.viewer ELSE Levels.editor

\* Not the code: one of the projects is enough.
CheckFirst(r) ==
    /\ pc[r] = "check"
    /\ \E p \in need[r]:
        Goto(r, IF Levels[access[p][req[r].user]] < Needed(r) THEN "refused" ELSE "apply")
    /\ UNCHANGED <<access, row, req, need, loaded, wrote, before, faults>>

\* ensure_project_access, for one of the projects.
CheckAccess(r) ==
    /\ pc[r] = "check"
    /\ \E p \in need[r]:
        /\ need' = [need EXCEPT ![r] = @ \ {p}]
        /\ Goto(r, IF Levels[access[p][req[r].user]] < Needed(r) THEN "refused"
                   ELSE IF need'[r] = {} THEN "apply" ELSE "check")
    /\ UNCHANGED <<access, row, req, loaded, wrote, before, faults>>

\* The attributes a request sets on a row.
Sets(r) ==
    CASE req[r].op = "edit" ->
            [f \in DOMAIN req[r].data \union {"source"} |->
                IF f = "source" THEN "user" ELSE req[r].data[f]]
      [] req[r].op = "delete" -> [active |-> FALSE]
      [] OTHER -> [status |-> req[r].data.status]

\* Not the code: flushing writes the whole row.
FlushWhole(r, m) ==
    [f \in Fields |-> IF f \in DOMAIN Sets(r) THEN Sets(r)[f] ELSE loaded[r][m][f]]

\* Flushing an object: of what it sets, what differs from what was read.
Flush(r, m) ==
    [f \in Fields |-> IF f \in DOMAIN Sets(r) /\ Sets(r)[f] # loaded[r][m][f]
                      THEN Sets(r)[f] ELSE row[m][f]]

Written(r, rows, new(_)) ==
    /\ row' = [m \in Mappings |-> IF m \in rows THEN new(m) ELSE row[m]]
    /\ wrote' = [wrote EXCEPT ![r] = rows]
    /\ Goto(r, "ok")
    /\ UNCHANGED <<access, req, need, loaded, before, faults>>

WithStatus(r, m) == [row[m] EXCEPT !.status = req[r].data.status]
WriteStatus(r, rows) == Written(r, rows, LAMBDA m: WithStatus(r, m))

WriteObject(r) ==
    /\ pc[r] = "apply"
    /\ req[r].op \in {"edit", "delete"}
    /\ Written(r, {req[r].mapping}, LAMBDA m: Flush(r, m))

WriteByIds(r) ==
    /\ pc[r] = "apply"
    /\ req[r].op = "bulk"
    /\ WriteStatus(r, req[r].ids)

\* Deleted rows are in the range too.
WriteByScore(r) ==
    /\ pc[r] = "apply"
    /\ req[r].op = "score"
    /\ WriteStatus(r, {m \in Mappings: /\ ProjectOf[m] = req[r].project
                                       /\ row[m].score \in req[r].low .. req[r].high})

\* What a list is of: active mappings, with the status it is filtered by.
Matching(i) ==
    {m \in Mappings: /\ ProjectOf[m] = i.project /\ row[m].active
                     /\ i.status \in {"any", row[m].status}}

\* Not the code: without an order any rows fill the page.
UnorderedPages(i) ==
    {page \in SUBSET Matching(i):
        Cardinality(page) = Cardinality((i.skip .. i.skip + i.limit - 1)
                                          \intersect (0 .. Cardinality(Matching(i)) - 1))}

\* Where m comes in a list, by created_at: behind the older ones, in an order of each
\* query's own among those of one moment.
Older(i, m) == {x \in Matching(i): Created[x] < Created[m]}
AsOld(i, m) == {x \in Matching(i): Created[x] = Created[m]}
Places(i, m) ==
    Cardinality(Older(i, m)) .. Cardinality(Older(i, m)) + Cardinality(AsOld(i, m)) - 1

\* ORDER BY created_at OFFSET skip LIMIT limit: of the mappings of one moment as many
\* as have their places on the page, and any of them.
Pages(i) ==
    {page \in SUBSET Matching(i): \A m \in Matching(i):
        Cardinality(page \intersect AsOld(i, m)) =
            Cardinality(Places(i, m) \intersect (i.skip .. i.skip + i.limit - 1))}

\* One statement; nothing holds the list still until the next page is asked for.
ReadPage(r) ==
    /\ pc[r] = "apply"
    /\ req[r].op = "list"
    /\ \E page \in Pages(req[r]): loaded' = [loaded EXCEPT ![r] = [m \in page |-> row[m]]]
    /\ Goto(r, "ok")
    /\ UNCHANGED <<access, row, req, need, wrote, before, faults>>

\* The statement or its commit fails: rolled back, and a 500.
WriteFails(r) ==
    /\ pc[r] = "apply"
    /\ faults < MaxFaults
    /\ faults' = faults + 1
    /\ Goto(r, "failed")
    /\ UNCHANGED <<access, row, req, need, loaded, wrote, before>>

ReviewStep(r) ==
    \/ \E i \in Inputs: \/ UpdateMapping(r, i) \/ DeleteMapping(r, i)
                        \/ BulkUpdate(r, i) \/ BulkByScore(r, i) \/ ListMappings(r, i)
                        \/ SetAccess(r, i)
    \/ LoadRows(r) \/ CheckAccess(r) \/ WriteObject(r) \/ WriteByIds(r)
    \/ WriteByScore(r) \/ ReadPage(r) \/ WriteFails(r)
-----------------------------------------------------------------------------
(***************************************************************************)
(* Properties.                                                             *)
(***************************************************************************)
Later(q, r) == q \notin before[r]

ReviewTypeOK ==
    /\ access \in [Projects -> [Users -> DOMAIN Levels]]
    /\ DOMAIN row = Mappings
    /\ \A m \in Mappings: DOMAIN row[m] = Fields
    /\ DOMAIN req = Reqs
    /\ pc \in [Reqs -> {"idle", "load", "check", "apply", "delete", "insert",
                        "ok", "refused", "failed"}]
    /\ need \in [Reqs -> SUBSET Projects]
    /\ DOMAIN loaded = Reqs
    /\ wrote \in [Reqs -> SUBSET Mappings]
    /\ before \in [Reqs -> SUBSET Reqs]
    /\ faults \in 0..MaxFaults

\* What a request was told it wrote stays until a request writes the same field
\* of the same row that had not ended when it began: an edit of one field never
\* brings back what another field held when the edit was read, and of the requests
\* here, which bulk saves are not, none revives a deleted mapping.
EditsAreKept ==
    \A r \in Reqs: pc[r] = "ok" => \A m \in wrote[r]: \A f \in DOMAIN Sets(r):
        \/ row[m][f] = Sets(r)[f]
        \/ \E q \in Reqs \ {r}: m \in wrote[q] /\ f \in DOMAIN Sets(q) /\ Later(q, r)

\* Nobody writes to a project whose edit access was taken from him before his
\* request began, unless it was given back by then or later; a bulk update is
\* refused as a whole if one of its projects is not his.
RevokedCannotWrite ==
    \A r \in Reqs: \A m \in wrote[r]: \A q \in before[r]:
        LET mine(x) == /\ req[x].op = "access" /\ req[x].user = req[r].user
                       /\ req[x].project = ProjectOf[m]
        IN  mine(q) /\ req[q].role # "editor" =>
                \E g \in Reqs: mine(g) /\ req[g].role = "editor" /\ Later(g, q)

\* s asks for the page after r's, when r has been answered.
Follows(r, s) ==
    /\ pc[r] = "ok" /\ pc[s] = "ok" /\ r \in before[s]
    /\ req[r].op = "list" /\ req[s].op = "list"
    /\ req[s].project = req[r].project /\ req[s].status = req[r].status
    /\ req[s].skip = req[r].skip + req[r].limit

\* Since r began, the status or the activity of m, or of a mapping listed before it or
\* with it, was written.
Moved(r, m) ==
    \E q \in Reqs: \E x \in wrote[q]:
        /\ Later(q, r) /\ DOMAIN Sets(q) \intersect {"status", "active"} # {}
        /\ ProjectOf[x] = ProjectOf[m] /\ Created[x] <= Created[m]

\* Pages are skipped by number while others review.  Of two pages read one after the
\* other a mapping that has its place on one of them is missing only if it or one
\* before it was since deleted or given a status, which may take it off the list, or if
\* another was created at the same moment.
PagesMissNothing ==
    \A r, s \in Reqs: Follows(r, s) => \A m \in Matching(req[r]):
        /\ Cardinality(Older(req[r], m)) \in req[r].skip .. req[s].skip + req[s].limit - 1
        /\ AsOld(req[r], m) = {m}
        => m \in DOMAIN loaded[r] \union DOMAIN loaded[s] \/ Moved(r, m)
=============================================================================
