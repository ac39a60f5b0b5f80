--------------------------- MODULE LegacyProjects ---------------------------
(***************************************************************************)
(* The MongoDB backend in src/legacy/backend: log-in, projects, access and *)
(* mappings.  MongoDB is used without transactions, so a request is a      *)
(* sequence of reads and writes of single collections, one for each await. *)
(* The requests of one event loop interleave between any two of them, and  *)
(* a request that fails or a process that dies stops between any two.      *)
(* `todo` holds the awaits a request has left; `Program` says which they   *)
(* are, and the actions below say what each of them does.                  *)
(***************************************************************************)
EXTENDS Naturals, FiniteSets, Sequences, Functions

CONSTANTS
    Reqs,       \* requests; each is used once
    Users,      \* user ids
    Projects,   \* project ids; the seed inserts Seeded, the others are new
    Seeded,
    SeedUsers,  \* the users of the seed
    SeedRole,   \* their permissions on Seeded
    Inputs,     \* what clients send
    MaxFaults   \* failed database calls and crashes

Roles == {"viewer", "editor", "approver", "admin"}
Statuses == {"draft", "in_progress", "completed"}
Steps == {"findUser", "createUser", "findCompany", "createCompany",
    "insertProject", "findAccess", "writeAccess", "check", "findProject",
    "updateProject", "deleteMappings", "insertMappings", "readStatus",
    "writeStatus", "markMappings", "revokeAccess", "deleteAccess",
    "deleteProject", "findMappings", "countMappings", "findOwn", "findProjects",
    "putObject", "insertFile", "findFile", "getObject", "softDelete",
    "recheck", "deleteObject", "countProjects", "signUrl"}
Outcomes == {"idle", "running", "ok", "refused", "failed", "lost"}
NoInput == [op |-> "none"]

ASSUME LegacyAssumption ==
    /\ Seeded \in Projects
    /\ SeedUsers \subseteq Users
    /\ SeedUsers # {}
    /\ SeedRole \in [SeedUsers -> Roles]
    /\ MaxFaults \in Nat
    /\ "seed" \notin Reqs

VARIABLES
    seed,       \* what start-up has left to insert; <<"down">> before it
    users,      \* documents of the collection users
    company,    \* whether the company of the inputs has its document
    project,    \* id -> "none", its status, or "deleted"
    access,     \* id -> user -> role or "none": unique by index
    maps,       \* id -> its mappings, each [by: request, confirmed: BOOLEAN]
    req,        \* request -> its input
    todo,       \* request -> the awaits it has left
    note,       \* request -> the set of what it has read and will use
    torn,       \* requests answered with two counts that differ
    outcome,    \* request -> how it ended
    before,     \* request -> the requests that had ended when it began
    cut,        \* a crash has cut the seeding short
    faults

dbVars == <<users, company, project, access, maps>>
reqVars == <<req, todo, note, torn, outcome, before>>
projectVars == <<seed, dbVars, reqVars, cut, faults>>

(***************************************************************************)
(* Start-up.  seed_initial_data counts the users and, if there are none,   *)
(* fills five collections one after the other.                             *)
(***************************************************************************)
SeedPlan == <<"users", "companies", "projects", "access", "mappings">>
Up == seed = <<>>
Down == seed = <<"down">>

SeedMapping == [by |-> "seed", confirmed |-> TRUE]

ProjectsInit ==
    /\ seed = <<"down">>
    /\ users = {}
    /\ company = FALSE
    /\ project = [p \in Projects |-> "none"]
    /\ access = [p \in Projects |-> [u \in Users |-> "none"]]
    /\ maps = [p \in Projects |-> {}]
    /\ req = [r \in Reqs |-> NoInput]
    /\ todo = [r \in Reqs |-> <<>>]
    /\ note = [r \in Reqs |-> {}]
    /\ torn = {}
    /\ outcome = [r \in Reqs |-> "idle"]
    /\ before = [r \in Reqs |-> {}]
    /\ cut = FALSE
    /\ faults = 0

CountUsers ==
    /\ Down
    /\ seed' = IF users = {} THEN SeedPlan ELSE <<>>
    /\ UNCHANGED <<dbVars, reqVars, cut, faults>>

Seeding(collection) ==
    /\ seed # <<>>
    /\ Head(seed) = collection
    /\ seed' = Tail(seed)
    /\ UNCHANGED <<reqVars, cut, faults>>

InsertUsers ==
    /\ Seeding("users")
    /\ users' = SeedUsers
    /\ UNCHANGED <<company, project, access, maps>>

InsertCompanies ==
    /\ Seeding("companies")
    /\ company' = TRUE
    /\ UNCHANGED <<users, project, access, maps>>

InsertProjects ==
    /\ Seeding("projects")
    /\ project' = [project EXCEPT ![Seeded] = "draft"]
    /\ UNCHANGED <<users, company, access, maps>>

InsertAccess ==
    /\ Seeding("access")
    /\ access' = [access EXCEPT ![Seeded] =
                    [u \in Users |-> IF u \in SeedUsers THEN SeedRole[u] ELSE "none"]]
    /\ UNCHANGED <<users, company, project, maps>>

InsertMappings ==
    /\ Seeding("mappings")
    /\ maps' = [maps EXCEPT ![Seeded] = {SeedMapping}]
    /\ UNCHANGED <<users, company, project, access>>

(***************************************************************************)
(* Requests.  What each operation awaits, in the order of the code.        *)
(***************************************************************************)
LoginSteps == <<"findUser", "createUser">>
CreateSteps == <<"findCompany", "createCompany", "insertProject", "findAccess",
                 "writeAccess">>
UpdateSteps == <<"check", "updateProject", "findProject">>
SaveSteps == <<"check", "deleteMappings", "insertMappings", "readStatus",
               "writeStatus">>
MarkSteps == <<"check", "markMappings">>
GrantSteps == <<"findProject", "check", "findUser", "createUser", "findAccess",
                "writeAccess">>
RevokeSteps == <<"findProject", "check", "revokeAccess">>
DeleteStepsProjectFirst == <<"check", "findProject", "deleteProject", "deleteAccess">>
DeleteSteps == <<"check", "findProject", "deleteAccess", "deleteProject">>
OpenSteps == <<"check", "findProject">>
ShowSteps == <<"check", "findMappings">>
DetailSteps == <<"findProject", "check", "findMappings", "countMappings">>
OverviewSteps == <<"findOwn", "findProjects">>
ListSteps == <<"findOwn", "countProjects", "findProjects">>
UploadStepsNoRecord == <<"check", "putObject">>
UploadSteps == <<"check", "putObject", "insertFile">>
StoreSteps == <<"check", "putObject", "insertFile">>
FilesSteps == <<"check", "findFile">>
LookSteps == <<"findFile", "check">>
FetchSteps == <<"findFile", "check", "getObject">>
ParseSteps == <<"findFile", "check", "getObject">>
LinkSteps == <<"findFile", "check", "signUrl">>
RemoveStepsObjectFirst ==
    <<"findFile", "check", "findFile", "recheck", "deleteObject", "softDelete">>
RemoveSteps ==
    <<"findFile", "check", "softDelete", "findFile", "recheck", "deleteObject">>

Program ==
    [login |-> LoginSteps, create |-> CreateSteps, update |-> UpdateSteps,
     save |-> SaveSteps, mark |-> MarkSteps, grant |-> GrantSteps,
     revoke |-> RevokeSteps, delete |-> DeleteSteps, open |-> OpenSteps,
     show |-> ShowSteps, detail |-> DetailSteps, overview |-> OverviewSteps,
     list |-> ListSteps, upload |-> UploadSteps, store |-> StoreSteps,
     files |-> FilesSteps, look |-> LookSteps, fetch |-> FetchSteps, parse |-> ParseSteps,
     link |-> LinkSteps, remove |-> RemoveSteps]

\* These name a file, so they begin once there is one.
FileOps == {"look", "fetch", "parse", "link", "remove"}

\* A creation has no project until it has inserted one.
ASSUME InputsAssumption ==
    \A i \in Inputs:
        /\ "op" \in DOMAIN i /\ i.op \in DOMAIN Program
        /\ i.op # "login" => i.user \in Users
        /\ i.op \in {"login", "create", "grant", "revoke"} => i.target \in Users
        /\ i.op \in {"create", "grant"} => i.role \in Roles
        /\ i.op = "create" =>
            {"project", "target", "role"} \subseteq DOMAIN i /\ i.project \notin Projects
        /\ i.op \notin FileOps \union {"login", "create", "overview", "list"} =>
            i.project \in Projects
        /\ i.op = "save" => i.empty \in BOOLEAN
        /\ i.op = "update" => i.status \in Statuses

Ended(r) == outcome[r] \in {"ok", "refused", "failed", "lost"}
Began(r) == outcome[r] # "idle"
Exists(p) == project[p] \in Statuses
Role(r) == access[req[r].project][req[r].user]

\* The request r is at the await step.
At(r, step) == Up /\ outcome[r] = "running" /\ Head(todo[r]) = step

\* The request skips n awaits; after its last one it is answered.
Skip(r, n) ==
    /\ todo' = [todo EXCEPT ![r] = SubSeq(@, n + 1, Len(@))]
    /\ outcome' = [outcome EXCEPT ![r] = IF Len(todo[r]) = n THEN "ok" ELSE @]

End(r, how) ==
    /\ todo' = [todo EXCEPT ![r] = <<>>]
    /\ outcome' = [outcome EXCEPT ![r] = how]

Quiet == UNCHANGED <<seed, req, torn, before, cut, faults>>
\* What a request has noted goes with it.
Keep(r) == note' = [note EXCEPT ![r] = IF outcome'[r] = "running" THEN @ ELSE {}]

\* get_current_user_id: the token names a user, who must have a document.
Start(r, input) ==
    /\ Up
    /\ outcome[r] = "idle"
    /\ input.op # "login" => input.user \in users
    /\ req' = [req EXCEPT ![r] = input]
    /\ todo' = [todo EXCEPT ![r] = Program[input.op]]
    /\ outcome' = [outcome EXCEPT ![r] = "running"]
    /\ before' = [before EXCEPT ![r] = {q \in Reqs: Ended(q)}]
    /\ UNCHANGED <<seed, dbVars, note, torn, cut, faults>>

Begin(r) == \E i \in Inputs: i.op \notin FileOps /\ Start(r, i)

\* Log-in, and the target of a grant, who gets a document if there is none.
FindUser(r) ==
    /\ At(r, "findUser")
    /\ IF req[r].target \in users THEN Skip(r, 2) ELSE Skip(r, 1)
    /\ Quiet /\ Keep(r) /\ UNCHANGED dbVars

CreateUser(r) ==
    /\ At(r, "createUser")
    /\ IF req[r].target \in users THEN End(r, "failed") ELSE Skip(r, 1)
    /\ users' = users \union {req[r].target}
    /\ Quiet /\ Keep(r) /\ UNCHANGED <<company, project, access, maps>>

FindCompany(r) ==
    /\ At(r, "findCompany")
    /\ IF company THEN Skip(r, 2) ELSE Skip(r, 1)
    /\ Quiet /\ Keep(r) /\ UNCHANGED dbVars

CreateCompany(r) ==
    /\ At(r, "createCompany")
    /\ IF company THEN End(r, "failed") ELSE Skip(r, 1)
    /\ company' = TRUE
    /\ Quiet /\ Keep(r) /\ UNCHANGED <<users, project, access, maps>>

\* The id is new, and the request goes on with it.
InsertProject(r) ==
    /\ At(r, "insertProject")
    /\ \E p \in Projects \ {Seeded}:
        /\ project[p] = "none"
        /\ project' = [project EXCEPT ![p] = "draft"]
        /\ req' = [req EXCEPT ![r].project = p]
    /\ Skip(r, 1)
    /\ Keep(r) /\ UNCHANGED <<seed, users, company, access, maps, torn, before, cut, faults>>

\* Who may do what, by the permission on the project.
Needs(op) ==
    CASE op \in {"update", "save", "mark", "upload", "store",
                "remove"} -> Roles \ {"viewer"}
      [] op \in {"grant", "revoke"} -> {"approver", "admin"}
      [] op = "delete" -> {"admin"}
      [] OTHER -> Roles

CheckAccess(r) ==
    /\ At(r, "check")
    /\ IF Role(r) \in Needs(req[r].op) THEN Skip(r, 1) ELSE End(r, "refused")
    /\ Quiet /\ Keep(r) /\ UNCHANGED dbVars

\* A missing project is a 404, or a TypeError at the end of an update.
FindProject(r) ==
    /\ At(r, "findProject")
    /\ IF Exists(req[r].project) THEN Skip(r, 1) ELSE End(r, "refused")
    /\ Quiet /\ Keep(r) /\ UNCHANGED dbVars

UpdateProject(r) ==
    /\ At(r, "updateProject")
    /\ project' = [project EXCEPT ![req[r].project] =
                    IF Exists(req[r].project) THEN req[r].status ELSE @]
    /\ Skip(r, 1)
    /\ Quiet /\ Keep(r) /\ UNCHANGED <<users, company, access, maps>>

FindAccessUnread(r) == At(r, "findAccess") /\ Skip(r, 1) /\ Quiet /\ UNCHANGED <<dbVars, note>>

\* Whether the target has access already.
FindAccess(r) ==
    /\ At(r, "findAccess")
    /\ note' = [note EXCEPT ![r] = {access[req[r].project][req[r].target]}]
    /\ Skip(r, 1)
    /\ Quiet /\ UNCHANGED dbVars

WriteAccessIfNone(r) ==
    LET p == req[r].project
        u == req[r].target
    IN  /\ At(r, "writeAccess")
        /\ access' = [access EXCEPT ![p][u] = IF @ = "none" THEN req[r].role ELSE @]
        /\ Skip(r, 1)
        /\ Quiet /\ Keep(r) /\ UNCHANGED <<users, company, project, maps>>

\* update_one if a document was found, else insert_one: both may come late.
WriteAccess(r) ==
    LET p == req[r].project
        u == req[r].target
        found == note[r] # {"none"}
        there == access[p][u] # "none"
    IN  /\ At(r, "writeAccess")
        /\ access' = [access EXCEPT ![p][u] = IF found = there THEN req[r].role ELSE @]
        /\ IF there /\ ~found THEN End(r, "failed") ELSE Skip(r, 1)
        /\ Quiet /\ Keep(r) /\ UNCHANGED <<users, company, project, maps>>

DeleteUnconfirmed(r) ==
    /\ At(r, "deleteMappings")
    /\ maps' = [maps EXCEPT ![req[r].project] = {m \in @: m.confirmed}]
    /\ IF req[r].empty THEN Skip(r, 2) ELSE Skip(r, 1)
    /\ Quiet /\ Keep(r) /\ UNCHANGED <<users, company, project, access>>

DeleteMappings(r) ==
    /\ At(r, "deleteMappings")
    /\ maps' = [maps EXCEPT ![req[r].project] = {}]
    /\ IF req[r].empty THEN Skip(r, 2) ELSE Skip(r, 1)
    /\ Quiet /\ Keep(r) /\ UNCHANGED <<users, company, project, access>>

InsertMappingsOf(r) ==
    /\ At(r, "insertMappings")
    /\ maps' = [maps EXCEPT ![req[r].project] =
                @ \union {[by |-> r, confirmed |-> FALSE]}]
    /\ Skip(r, 1)
    /\ Quiet /\ Keep(r) /\ UNCHANGED <<users, company, project, access>>

ReadStatus(r) ==
    /\ At(r, "readStatus")
    /\ note' = [note EXCEPT ![r] = {project[req[r].project]}]
    /\ Skip(r, 1)
    /\ Quiet /\ UNCHANGED dbVars

\* draft becomes in_progress; else only the edit is recorded.
WriteStatus(r) ==
    /\ At(r, "writeStatus")
    /\ project' = [project EXCEPT ![req[r].project] =
                    IF note[r] = {"draft"} /\ Exists(req[r].project)
                    THEN "in_progress" ELSE @]
    /\ Skip(r, 1)
    /\ Quiet /\ Keep(r) /\ UNCHANGED <<users, company, access, maps>>

MarkMappings(r) ==
    /\ At(r, "markMappings")
    /\ maps' = [maps EXCEPT ![req[r].project] =
                {[m EXCEPT !.confirmed = TRUE]: m \in @}]
    /\ Skip(r, 1)
    /\ Quiet /\ Keep(r) /\ UNCHANGED <<users, company, project, access>>

RevokeRequester(r) ==
    /\ At(r, "revokeAccess")
    /\ access' = [access EXCEPT ![req[r].project][req[r].user] = "none"]
    /\ Skip(r, 1)
    /\ Quiet /\ Keep(r) /\ UNCHANGED <<users, company, project, maps>>

RevokeAccess(r) ==
    /\ At(r, "revokeAccess")
    /\ access' = [access EXCEPT ![req[r].project][req[r].target] = "none"]
    /\ Skip(r, 1)
    /\ Quiet /\ Keep(r) /\ UNCHANGED <<users, company, project, maps>>

\* Access goes first, then the project; mappings and files stay.
DeleteAccess(r) ==
    /\ At(r, "deleteAccess")
    /\ access' = [access EXCEPT ![req[r].project] = [u \in Users |-> "none"]]
    /\ Skip(r, 1)
    /\ Quiet /\ Keep(r) /\ UNCHANGED <<users, company, project, maps>>

DeleteProject(r) ==
    /\ At(r, "deleteProject")
    /\ project' = [project EXCEPT ![req[r].project] = "deleted"]
    /\ Skip(r, 1)
    /\ Quiet /\ Keep(r) /\ UNCHANGED <<users, company, access, maps>>

\* The last await of a request that answers what it shows and how many there are.
Answer(r, shown, total) ==
    /\ torn' = IF shown # total THEN torn \union {r} ELSE torn
    /\ Skip(r, 1)
    /\ Keep(r) /\ UNCHANGED <<seed, req, dbVars, before, cut, faults>>

\* The detail lists the mappings and later counts them again by status.
FindMappings(r) ==
    /\ At(r, "findMappings")
    /\ Skip(r, 1)
    /\ note' = [note EXCEPT ![r] = IF outcome'[r] = "running"
                                    THEN maps[req[r].project] ELSE {}]
    /\ Quiet /\ UNCHANGED dbVars

CountUnconfirmed(r) ==
    /\ At(r, "countMappings")
    /\ Answer(r, Cardinality(note[r]), Cardinality({m \in maps[req[r].project]: ~m.confirmed}))

CountMappings(r) ==
    /\ At(r, "countMappings")
    /\ Answer(r, Cardinality(note[r]), Cardinality(maps[req[r].project]))

\* The overview reads its user's access, then the projects it names: it shows
\* those it finds and counts those it was told of.  The list counts the
\* projects too before it finds them.
FindOwn(r) ==
    /\ At(r, "findOwn")
    /\ note' = [note EXCEPT ![r] = {p \in Projects: access[p][req[r].user] # "none"}]
    /\ IF note'[r] = {} THEN End(r, "ok") ELSE Skip(r, 1)
    /\ Quiet /\ UNCHANGED dbVars

Found(r) == {p \in note[r]: Exists(p)}

CountProjects(r) ==
    /\ At(r, "countProjects")
    /\ note' = [note EXCEPT ![r] = Found(r)]
    /\ Skip(r, 1)
    /\ Quiet /\ UNCHANGED dbVars

FindProjects(r) ==
    /\ At(r, "findProjects")
    /\ Answer(r, Cardinality(Found(r)), Cardinality(note[r]))

\* A database call raises and the request is answered 500.
Fail(r) ==
    /\ Up
    /\ outcome[r] = "running"
    /\ faults < MaxFaults
    /\ faults' = faults + 1
    /\ End(r, "failed")
    /\ Keep(r)
    /\ UNCHANGED <<seed, dbVars, req, torn, before, cut>>

\* The process dies, while it serves or while it seeds.
Crash ==
    /\ ~Down
    /\ faults < MaxFaults
    /\ faults' = faults + 1
    /\ seed' = <<"down">>
    /\ cut' = (cut \/ seed # <<>>)
    /\ todo' = [r \in Reqs |-> <<>>]
    /\ outcome' = [r \in Reqs |-> IF outcome[r] = "running" THEN "lost" ELSE outcome[r]]
    /\ note' = [r \in Reqs |-> {}]
    /\ UNCHANGED <<dbVars, req, torn, before>>

StartUp ==
    \/ CountUsers \/ InsertUsers \/ InsertCompanies \/ InsertProjects
    \/ InsertAccess \/ InsertMappings

ProjectStep(r) ==
    \/ Begin(r) \/ FindUser(r) \/ CreateUser(r) \/ FindCompany(r)
    \/ CreateCompany(r) \/ InsertProject(r) \/ CheckAccess(r) \/ FindProject(r)
    \/ UpdateProject(r) \/ FindAccess(r) \/ WriteAccess(r) \/ DeleteMappings(r)
    \/ InsertMappingsOf(r) \/ ReadStatus(r) \/ WriteStatus(r) \/ MarkMappings(r)
    \/ RevokeAccess(r) \/ DeleteAccess(r) \/ DeleteProject(r) \/ FindMappings(r)
    \/ CountMappings(r) \/ FindOwn(r) \/ CountProjects(r) \/ FindProjects(r)
    \/ Fail(r)

-----------------------------------------------------------------------------
(***************************************************************************)
(* Properties.  Requests that neither saw the other ended overlapped.      *)
(***************************************************************************)
Overlap(q, r) == Began(q) /\ Began(r) /\ q \notin before[r] /\ r \notin before[q]
On(p, ops) == {r \in Reqs: req[r].op \in ops /\ req[r].project = p}
Of(p, u, ops) == {r \in On(p, ops): req[r].target = u}
Done(q, r) == outcome[q] = "ok" /\ q \in before[r]
Halfway(r) == outcome[r] \in {"running", "failed", "lost"}

\* Types of the collections and of the requests.
ProjectsTypeOK ==
    /\ users \subseteq Users
    /\ company \in BOOLEAN
    /\ project \in [Projects -> Statuses \union {"none", "deleted"}]
    /\ access \in [Projects -> [Users -> Roles \union {"none"}]]
    /\ maps \in [Projects -> SUBSET [by: Reqs \union {"seed"}, confirmed: BOOLEAN]]
    /\ DOMAIN req = Reqs
    /\ todo \in [Reqs -> Seq(Steps)]
    /\ outcome \in [Reqs -> Outcomes]
    /\ \A r \in Reqs: todo[r] # <<>> <=> outcome[r] = "running"

\* A project nobody can reach, since nobody has access to it, was left by
\* something that stopped halfway (its creation, its deletion, the seeding) or
\* by a revocation, which lets the last administrator go.
ProjectsAreReachable ==
    \A p \in Projects:
        Exists(p) /\ (\A u \in Users: access[p][u] = "none") =>
            \/ \E r \in On(p, {"create", "delete"}): Halfway(r)
            \/ \E r \in On(p, {"revoke"}): outcome[r] # "refused"
            \/ p = Seeded /\ (~Up \/ cut)

\* Access to a project that is not there comes from a grant that overlapped
\* its deletion, which removes access first and the project after it.
StrayAccessHasCause ==
    \A p \in Projects: \A u \in Users:
        access[p][u] # "none" /\ ~Exists(p) =>
            \E d \in On(p, {"delete"}), g \in Of(p, u, {"grant"}): Overlap(d, g)

\* What a grant or a creation was answered holds until someone takes it back:
\* the role is that of a grant not over by then, or it went with a revocation
\* or a deletion not over by then.  Find-then-write has to bear overlap.
GrantsAreKept ==
    \A r \in Reqs: outcome[r] = "ok" /\ req[r].op \in {"create", "grant"} =>
        LET p == req[r].project
            u == req[r].target
            later(ops) == {q \in ops: q \notin before[r]}
        IN  \/ access[p][u] \in {req[q].role: q \in later(Of(p, u, {"create", "grant"}))}
            \/ \E q \in later(Of(p, u, {"revoke"}) \union On(p, {"delete"})):
                    outcome[q] # "refused"

\* Who lost access, by a revocation or with the project, gets no answer from
\* it unless a grant was still under way then or came later.
RevokedStayOut ==
    \A r \in Reqs:
        outcome[r] = "ok" /\ req[r].op \in DOMAIN Program
            /\ "check" \in Range(Program[req[r].op]) =>
            LET p == req[r].project
                u == req[r].user
            IN  \A q \in Of(p, u, {"revoke"}) \union On(p, {"delete"}):
                    Done(q, r) => \E g \in Of(p, u, {"grant", "create"}): g \notin before[q]

\* A save that no other save of the project overlaps or follows is what the
\* project shows: delete-then-insert leaves nothing of another save.
LastSaveIsShown ==
    \A r \in Reqs: outcome[r] = "ok" /\ req[r].op = "save" =>
        LET p == req[r].project
        IN  (\A q \in On(p, {"save"}) \ {r}: q \in before[r]) =>
                {m.by: m \in maps[p]} = IF req[r].empty THEN {} ELSE {r}

\* A reader is told numbers that differ only if a save or a deletion overlapped
\* it, or if access was left to a project that is gone.
ReadsAgree ==
    \A r \in torn:
        \/ \E q \in Reqs: req[q].op \in {"save", "delete"} /\ Overlap(q, r)
        \/ \E q, g \in Reqs: req[q].op = "delete" /\ req[g].op = "grant" /\ Overlap(q, g)
=============================================================================
