----------------------------- MODULE ApiService ------------------------------
(***************************************************************************)
(* The SQL api-service that stands between the old backend and the new     *)
(* one: projects with their files, jobs and mappings in PostgreSQL, every  *)
(* await of a request a step; sessions in the memory of the process, of    *)
(* which production runs two behind one address; and the matching          *)
(* endpoints, which keep no state.                                         *)
(*                                                                         *)
(* Rows refer to projects by foreign keys that cascade.  A row made by a   *)
(* request has an id that no other request can make.                       *)
(*                                                                         *)
(* Source: src/legacy/services/api-service/app/api/ and services/.         *)
(***************************************************************************)
EXTENDS Matching, FiniteSets

CONSTANTS
    Reqs,       \* requests; each is used once
    Replicas,   \* processes
    Seeded,     \* the project there is at the start
    Inputs,     \* what clients send
    Matchings,  \* what they have matched
    MaxFaults   \* failing statements and restarts

Writes == {"job", "mappings", "upload"}
Edits == {"edit", "bulkedit"}
OnSessions == {"save", "export", "drop"}

\* The fields a request has.
ASSUME InputsAssumption ==
    \A i \in Inputs:
        /\ "op" \in DOMAIN i
        /\ i.op \in Writes \union Edits \union OnSessions
                        \union {"newproject", "delproject", "delete", "open"}
        /\ i.op \in Writes => i.projects \in Seq(Range(i.projects))
        /\ i.op \in Edits \union {"delete"} => "ids" \in DOMAIN i
        /\ i.op \in OnSessions => "session" \in DOMAIN i

\* Scores are percentages; a name is not scored against ids.
ASSUME MatchingsAssumption ==
    \A i \in Matchings:
        /\ i.op \in {"column", "name", "group"}
        /\ i.op \in {"column", "name"} => /\ i.cutoff \in Nat
                                         /\ i.column.name \in Seq(0 .. 100)
                                         /\ i.column.id \in Seq(0 .. 100)
                                         /\ i.column.exact \in Seq(BOOLEAN)
        /\ i.op = "name" => i.column.id = <<>> /\ i.column.empty \in BOOLEAN
        /\ i.op = "group" => i.rows \in Seq(Range(i.rows))

ASSUME ApiAssumption == Seeded \notin Reqs /\ MaxFaults \in Nat

VARIABLES
    projects,   \* the project rows; one that a request makes has its name
    rows,       \* id -> [kind, project, name, remark, status]: files, jobs and mappings
    sessions,   \* replica -> session -> its status
    req,        \* request -> its input
    at,         \* request -> the replica that serves it
    pc,         \* request -> what it does next, or how it ended
    loaded,     \* request -> the ids it has read
    same,       \* request -> those of them that already had the name it gives
    wrote,      \* request -> the ids it has changed or deleted, as committed
    answer,     \* request -> what a matching request answers
    restarted,  \* the replicas that have restarted
    before,     \* request -> the requests that had ended when it began
    faults

vars == <<projects, rows, sessions, req, at, pc, loaded, same, wrote, answer, restarted,
          before, faults>>

NoInput == [op |-> "none"]
Ended(r) == pc[r] \in {"ok", "not found", "failed"}
Goto(r, place) == pc' = [pc EXCEPT ![r] = place]
Later(q, r) == q \notin before[r]

\* create_all makes the tables; the broker is never connected.
Init ==
    /\ projects = {Seeded}
    /\ rows = [id \in {} |-> {}]
    /\ sessions = [p \in Replicas |-> [s \in {} |-> ""]]
    /\ req = [r \in Reqs |-> NoInput]
    /\ at = [r \in Reqs |-> "none"]
    /\ pc = [r \in Reqs |-> "idle"]
    /\ loaded = [r \in Reqs |-> {}]
    /\ same = [r \in Reqs |-> {}]
    /\ wrote = [r \in Reqs |-> {}]
    /\ answer = [r \in Reqs |-> {}]
    /\ restarted = {}
    /\ before = [r \in Reqs |-> {}]
    /\ faults = 0

\* Matching reads no state, so such a request is looked at by itself.
Matches(r) == req[r].op \in {"column", "name", "group"}

Begin(r, p, input, place) ==
    /\ pc[r] = "idle"
    /\ \A q \in Reqs: ~Matches(q)
    /\ req' = [req EXCEPT ![r] = input]
    /\ at' = [at EXCEPT ![r] = p]
    /\ before' = [before EXCEPT ![r] = {q \in Reqs: Ended(q)}]
    /\ Goto(r, place)

Start(r, p, input, place) ==
    /\ Begin(r, p, input, place)
    /\ UNCHANGED <<projects, rows, sessions, loaded, same, wrote, answer, restarted, faults>>

CreateProject(r, p, i) == i.op = "newproject" /\ Start(r, p, i, "project")
CreateJob(r, p, i) == i.op = "job" /\ Start(r, p, i, "check")

\* One mapping or many; without any there is nothing to do.
CreateMappings(r, p, i) ==
    /\ i.op = "mappings"
    /\ Start(r, p, i, IF i.projects = <<>> THEN "ok" ELSE "check")

\* A file that cannot be parsed ends it; a 404 in the try block becomes a 500.
UploadFile(r, p, i) ==
    /\ i.op = "upload"
    /\ \E place \in {IF i.projects = <<>> THEN "project" ELSE "check", "failed"}:
        Start(r, p, i, place)

DeleteProject(r, p, i) == i.op = "delproject" /\ Start(r, p, i, "load")

\* A job can be cancelled until it runs.
Deletable(id) == rows[id].kind = "job" => rows[id].status \in {"pending", "queued"}

\* Changing and deleting rows that somebody has seen.
OnRows(r, p, i) ==
    /\ i.op \in Edits \union {"delete"}
    /\ \E ids \in SUBSET DOMAIN rows:
        /\ i.op # "bulkedit" => Cardinality(ids) = 1
        /\ \A id \in ids: IF i.op = "delete" THEN Deletable(id) ELSE rows[id].kind = "mapping"
        /\ Start(r, p, [i EXCEPT !.ids = ids],
                 IF i.op = "bulkedit" /\ ids = {} THEN "ok" ELSE "load")

\* Where the rows of a request go; an upload without a project makes one.
ProjectsOf(r) ==
    IF req[r].op = "upload" /\ req[r].projects = <<>> THEN <<r>>
    ELSE IF req[r].op \in Writes THEN req[r].projects
    ELSE <<>>
IdsOf(r) == {<<r, n>>: n \in DOMAIN ProjectsOf(r)}

InsertProject(r) ==
    /\ pc[r] = "project"
    /\ projects' = projects \union {r}
    /\ Goto(r, IF req[r].op = "upload" THEN "insert" ELSE "refresh")
    /\ UNCHANGED <<rows, sessions, req, at, loaded, same, wrote, answer, restarted, before,
                   faults>>

\* Of several mappings only the project of the first is looked up.
FindProject(r) ==
    /\ pc[r] = "check"
    /\ Goto(r, IF ProjectsOf(r)[1] \in projects THEN "insert"
               ELSE IF req[r].op = "upload" THEN "failed" ELSE "not found")
    /\ UNCHANGED <<projects, rows, sessions, req, at, loaded, same, wrote, answer, restarted,
                   before, faults>>

NewRow(r, n) ==
    [kind |-> CASE req[r].op = "job" -> "job" [] req[r].op = "upload" -> "file"
                [] OTHER -> "mapping",
     project |-> ProjectsOf(r)[n], name |-> "n0", remark |-> "ai",
     status |-> "pending"]

Added(r, ids) ==
    [id \in DOMAIN rows \union ids |-> IF id \in ids THEN NewRow(r, id[2]) ELSE rows[id]]

\* Not the code: rows whose project is gone are left out.
InsertValid(r) ==
    /\ pc[r] = "insert"
    /\ rows' = Added(r, {id \in IdsOf(r): ProjectsOf(r)[id[2]] \in projects})
    /\ Goto(r, "refresh")
    /\ UNCHANGED <<projects, sessions, req, at, loaded, same, wrote, answer, restarted,
                   before, faults>>

\* One INSERT and commit; a missing project fails the foreign key and all of it.
InsertRows(r) ==
    /\ pc[r] = "insert"
    /\ IF \A id \in IdsOf(r): ProjectsOf(r)[id[2]] \in projects
       THEN rows' = Added(r, IdsOf(r)) /\ Goto(r, "refresh")
       ELSE UNCHANGED rows /\ Goto(r, "failed")
    /\ UNCHANGED <<projects, sessions, req, at, loaded, same, wrote, answer, restarted,
                   before, faults>>

\* Connecting to the broker is not written yet and answers no, so nothing is
\* ever published and a job stays pending until it is cancelled.
Connected == FALSE
Queued(r) == Connected /\ req[r].op = "job"

\* What is read again for the answer is there: not all that is committed is.
Shown(r) ==
    /\ req[r].op = "newproject" => r \in projects
    /\ req[r].op = "edit" => loaded[r] \subseteq DOMAIN rows
    /\ IdsOf(r) \subseteq DOMAIN rows

\* Committed, but not answered yet; a new job is offered to the broker.
Refresh(r) ==
    /\ pc[r] = "refresh"
    /\ Goto(r, IF Shown(r) THEN "ok" ELSE "failed")
    /\ rows' = [id \in DOMAIN rows |->
                    IF Queued(r) /\ id \in IdsOf(r) THEN [rows[id] EXCEPT !.status = "queued"]
                    ELSE rows[id]]
    /\ UNCHANGED <<projects, sessions, req, at, loaded, same, wrote, answer, restarted, before,
                   faults>>

\* A single row has to be there; of several those that are there are taken.
Load(r) ==
    /\ pc[r] = "load"
    /\ LET found == IF req[r].op = "delproject" THEN {req[r].project} \intersect projects
                    ELSE req[r].ids \intersect DOMAIN rows
       IN  /\ loaded' = [loaded EXCEPT ![r] = found]
           /\ same' = [same EXCEPT ![r] =
                {id \in found: req[r].op \in Edits /\ rows[id].name = req[r].name}]
           /\ Goto(r, IF found = {} /\ req[r].op # "bulkedit" THEN "not found" ELSE "write")
    /\ UNCHANGED <<projects, rows, sessions, req, at, wrote, answer, restarted, before, faults>>

\* Of a row the ORM writes what differs from what was read; one that is gone by
\* now fails the whole request.  One mapping is marked as the user's; several are not.
WriteRows(r) ==
    /\ pc[r] = "write" /\ req[r].op \in Edits
    /\ LET changed == loaded[r] \ same[r]
       IN  IF changed \subseteq DOMAIN rows
           THEN /\ rows' = [id \in DOMAIN rows |->
                    IF id \notin loaded[r] THEN rows[id]
                    ELSE [rows[id] EXCEPT !.name = IF id \in changed THEN req[r].name ELSE @,
                                          !.remark = IF req[r].op = "edit" THEN "user" ELSE @]]
                /\ wrote' = [wrote EXCEPT ![r] = changed]
                /\ Goto(r, "refresh")
           ELSE UNCHANGED <<rows, wrote>> /\ Goto(r, "failed")
    /\ UNCHANGED <<projects, sessions, req, at, loaded, same, answer, restarted, before,
                   faults>>

\* Deleting what is gone already is only a warning.
DeleteRow(r) ==
    /\ pc[r] = "write" /\ req[r].op = "delete"
    /\ rows' = [id \in DOMAIN rows \ loaded[r] |-> rows[id]]
    /\ wrote' = [wrote EXCEPT ![r] = loaded[r]]
    /\ Goto(r, "refresh")
    /\ UNCHANGED <<projects, sessions, req, at, loaded, same, answer, restarted, before,
                   faults>>

RowsOf(p) == {id \in DOMAIN rows: rows[id].project = p}

\* A project goes with all that refers to it.
Cascade(r) ==
    /\ pc[r] = "write" /\ req[r].op = "delproject"
    /\ projects' = projects \ loaded[r]
    /\ rows' = [id \in DOMAIN rows \ UNION {RowsOf(p): p \in loaded[r]} |-> rows[id]]
    /\ wrote' = [wrote EXCEPT ![r] = loaded[r]]
    /\ Goto(r, "refresh")
    /\ UNCHANGED <<sessions, req, at, loaded, same, answer, restarted, before, faults>>

\* A statement or a commit fails, or the connection after a commit.
DatabaseFails(r) ==
    /\ pc[r] \in {"check", "project", "insert", "refresh", "load", "write"}
    /\ faults < MaxFaults
    /\ faults' = faults + 1
    /\ Goto(r, "failed")
    /\ UNCHANGED <<projects, rows, sessions, req, at, loaded, same, wrote, answer, restarted,
                   before>>
-----------------------------------------------------------------------------
(***************************************************************************)
(* Sessions are module-level dictionaries; no request on them awaits       *)
(* between looking a session up and using it.                              *)
(***************************************************************************)
SessionAt(r, p, i, outcome, status) ==
    /\ Begin(r, p, i, outcome)
    /\ sessions' = [sessions EXCEPT ![p] = status]
    /\ UNCHANGED <<projects, rows, loaded, same, wrote, answer, restarted, faults>>

OpenSession(r, p, i) ==
    /\ i.op = "open"
    /\ SessionAt(r, p, i, "ok",
        [s \in DOMAIN sessions[p] \union {r} |-> IF s = r THEN "pending" ELSE sessions[p][s]])

\* Not the code: dropping one drops all.
OnSessionAll(r, p, i) ==
    /\ i.op \in OnSessions
    /\ \E s \in {q \in Reqs: pc[q] = "ok" /\ req[q].op = "open"}:
        SessionAt(r, p, [i EXCEPT !.session = s],
                  IF s \in DOMAIN sessions[p] THEN "ok" ELSE "not found",
                  [t \in {} |-> ""])

\* save-mapping, export and delete, of a session a client was told of.
OnSession(r, p, i) ==
    /\ i.op \in OnSessions
    /\ \E s \in {q \in Reqs: pc[q] = "ok" /\ req[q].op = "open"}:
        LET in == [i EXCEPT !.session = s]
            known == sessions[p]
        IN  IF s \notin DOMAIN known THEN SessionAt(r, p, in, "not found", known)
            ELSE SessionAt(r, p, in, "ok",
                CASE i.op = "save" -> [known EXCEPT ![s] = "mapped"]
                  [] i.op = "export" -> [known EXCEPT ![s] = "exported"]
                  [] OTHER -> [t \in DOMAIN known \ {s} |-> known[t]])

\* The process ends with its sessions and requests, and another starts.
Restart(p) ==
    /\ faults < MaxFaults
    /\ faults' = faults + 1
    /\ restarted' = restarted \union {p}
    /\ sessions' = [sessions EXCEPT ![p] = [s \in {} |-> ""]]
    /\ pc' = [r \in Reqs |-> IF at[r] = p /\ ~Ended(r) /\ pc[r] # "idle" THEN "failed" ELSE pc[r]]
    /\ UNCHANGED <<projects, rows, req, at, loaded, same, wrote, answer, before>>

\* The matching endpoints; a threshold is part of the request.
AnswerMatch(r, p, i) ==
    /\ Begin(r, p, i, "ok")
    /\ answer' = [answer EXCEPT ![r] =
            CASE i.op = "column" -> MatchColumn(i.column, i.cutoff)
              [] i.op = "name" -> BestTargetName(i.column, i.cutoff)
              [] OTHER -> GroupRows(i)]
    /\ UNCHANGED <<projects, rows, sessions, loaded, same, wrote, restarted, faults>>

Next ==
    \/ \E r \in Reqs, p \in Replicas, i \in Inputs:
        \/ CreateProject(r, p, i) \/ CreateJob(r, p, i) \/ CreateMappings(r, p, i)
        \/ UploadFile(r, p, i) \/ DeleteProject(r, p, i) \/ OnRows(r, p, i)
        \/ OpenSession(r, p, i) \/ OnSession(r, p, i)
    \/ /\ \A r \in Reqs: pc[r] = "idle"
       /\ \E r \in Reqs, p \in Replicas, i \in Matchings: AnswerMatch(r, p, i)
    \/ \E r \in Reqs:
        \/ InsertProject(r) \/ FindProject(r) \/ InsertRows(r) \/ Refresh(r) \/ Load(r)
        \/ WriteRows(r) \/ DeleteRow(r) \/ Cascade(r) \/ DatabaseFails(r)
    \/ \E p \in Replicas: Restart(p)

Spec == Init /\ [][Next]_vars
-----------------------------------------------------------------------------
(***************************************************************************)
(* Properties.                                                             *)
(***************************************************************************)
\* Somebody has deleted a row, or a project with what refers to it, answered or not.
Removed(id, project) ==
    \E q \in Reqs: \/ req[q].op = "delete" /\ id \in wrote[q]
                   \/ req[q].op = "delproject" /\ project \in wrote[q]

\* What a request has saved it has saved whole, answered or not, and an
\* answered save stays, until it is deleted or its project is; every row has
\* a project.
SavesAreWhole ==
    /\ \A id \in DOMAIN rows: rows[id].project \in projects
    /\ \A r \in Reqs: pc[r] = "ok" \/ IdsOf(r) \intersect DOMAIN rows # {} =>
        \A id \in IdsOf(r): id \in DOMAIN rows \/ Removed(id, ProjectsOf(r)[id[2]])

\* Not by an edit that had ended when this one began.
Renamed(r, id) ==
    \E q \in Reqs \ {r}: req[q].op \in Edits /\ id \in wrote[q] /\ Later(q, r)

\* A mapping shows the name an answered edit gave it until another edit commits one,
\* answered or not, whose request had not ended when this edit's began; and once
\* deleted it is not brought back by an edit that had read it.
EditedNamesStay ==
    \A r \in Reqs: pc[r] = "ok" /\ req[r].op \in Edits =>
        \A id \in loaded[r]:
            id \in DOMAIN rows => rows[id].name = req[r].name \/ Renamed(r, id)

\* What an answer told a client was saved, rows or names, stays until a deletion or
\* an edit that is not earlier takes it, whether or not anybody was told of that.
AnsweredStays == SavesAreWhole /\ EditedNamesStay

\* A session a client was told of is found again, unless it was dropped, its
\* process has restarted, or the request reached the other process.
LostSessionHasCause ==
    \A r \in Reqs: pc[r] = "not found" /\ req[r].op \in OnSessions =>
        LET s == req[r].session
        IN  \/ at[r] # at[s] \/ at[s] \in restarted
            \/ \E q \in before[r]: req[q].op = "drop" /\ req[q].session = s /\ pc[q] = "ok"

IsBestAnswer(in, a) ==
    CASE in.op = "group" -> IsGrouping(in, a)
      [] in.op = "name" -> IsBestName(in.column, in.cutoff, a)
      [] OTHER -> IsBest(in.column, in.cutoff, a)

\* Matching answers what its definition says: the best field, exact before
\* fuzzy, nothing below the threshold; and each row in the group of its type.
AnswersAreBest == \A r \in Reqs: Matches(r) => IsBestAnswer(req[r], answer[r])
=============================================================================
