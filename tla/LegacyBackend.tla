---------------------------- MODULE LegacyBackend ----------------------------
(***************************************************************************)
(* The whole backend in src/legacy/backend: its projects (LegacyProjects)  *)
(* and its files, each a document in MongoDB, an object in a store reached *)
(* through storage_service, and for an upload a session in memory.  A file *)
(* and a session are named by the request that made them.                  *)
(***************************************************************************)
EXTENDS LegacyProjects

CONSTANT Provider   \* "s3", or "emergent", which cannot delete

ASSUME ProviderAssumption == Provider \in {"s3", "emergent"}

VARIABLES
    ready,      \* storage_initialized
    file,       \* file -> "none", "active" or "deleted"
    home,       \* file -> its project
    pending,    \* files whose path says that no object was put
    objects,    \* files whose object is in the store
    session     \* session -> "none" or its status

fileVars == <<ready, file, home, pending, objects, session>>
vars == <<projectVars, fileVars>>

Init ==
    /\ ProjectsInit
    /\ ready = FALSE
    /\ file = [f \in Reqs |-> "none"]
    /\ home = [f \in Reqs |-> Seeded]
    /\ pending = {}
    /\ objects = {}
    /\ session = [s \in Reqs |-> "none"]

\* init_storage asks the provider until it has once been told yes.
InitStorage == ready' \in IF ready THEN {TRUE} ELSE BOOLEAN

BeginWithFile(r) ==
    /\ \E i \in Inputs, f \in Reqs:
        /\ i.op \in FileOps
        /\ file[f] # "none"
        /\ Start(r, [op |-> i.op, user |-> i.user, file |-> f, project |-> home[f]])
    /\ UNCHANGED fileVars

\* An upload that is parsed opens its session first; whatever fails later
\* leaves it there.
OpenSession(r) ==
    session' = [session EXCEPT ![r] = IF req[r].op = "upload" THEN "pending" ELSE @]

\* Without storage /files/upload goes on and /storage/upload is a 503.
PutObject(r) ==
    /\ At(r, "putObject")
    /\ InitStorage
    /\ OpenSession(r)
    /\ IF ready' \/ req[r].op = "upload" THEN Skip(r, 1) ELSE End(r, "refused")
    /\ objects' = IF ready' THEN objects \union {r} ELSE objects
    /\ pending' = IF ready' THEN pending ELSE pending \union {r}
    /\ Quiet /\ Keep(r) /\ UNCHANGED <<dbVars, file, home>>

\* The store raises, and may hold the object all the same.
PutFails(r) ==
    /\ At(r, "putObject")
    /\ faults < MaxFaults
    /\ faults' = faults + 1
    /\ ready' = TRUE
    /\ OpenSession(r)
    /\ End(r, "failed")
    /\ objects' \in {objects, objects \union {r}}
    /\ UNCHANGED <<seed, req, torn, before, cut, note, dbVars, file,
                   home, pending>>

InsertFile(r) ==
    /\ At(r, "insertFile")
    /\ file' = [file EXCEPT ![r] = "active"]
    /\ home' = [home EXCEPT ![r] = req[r].project]
    /\ Skip(r, 1)
    /\ Quiet /\ Keep(r) /\ UNCHANGED <<dbVars, ready, pending, objects, session>>

\* find_by_id does not look at is_deleted.
FindFile(r) ==
    /\ At(r, "findFile")
    /\ Skip(r, 1)
    /\ Quiet /\ Keep(r) /\ UNCHANGED <<dbVars, fileVars>>

\* A path without an object makes the provider raise.
GetObject(r) ==
    /\ At(r, "getObject")
    /\ InitStorage
    /\ \/ ~ready' /\ End(r, "refused")
       \/ ready' /\ req[r].file \in objects /\ Skip(r, 1)
       \/ ready' /\ req[r].file \notin objects /\ End(r, "failed")
    /\ Quiet /\ Keep(r)
    /\ UNCHANGED <<dbVars, file, home, pending, objects, session>>

SoftDelete(r) ==
    /\ At(r, "softDelete")
    /\ file' = [file EXCEPT ![req[r].file] = "deleted"]
    /\ InitStorage
    /\ IF ready' THEN Skip(r, 1) ELSE End(r, "ok")
    /\ Quiet /\ Keep(r) /\ UNCHANGED <<dbVars, home, pending, objects, session>>

\* get_file again, with its own check: a 403 although the file is deleted.
Recheck(r) ==
    /\ At(r, "recheck")
    /\ IF Role(r) \in Roles THEN Skip(r, 1) ELSE End(r, "refused")
    /\ Quiet /\ Keep(r) /\ UNCHANGED <<dbVars, fileVars>>

\* The link is signed whether or not the object is there.
SignUrl(r) ==
    /\ At(r, "signUrl")
    /\ InitStorage
    /\ IF ready' THEN Skip(r, 1) ELSE End(r, "refused")
    /\ Quiet /\ Keep(r)
    /\ UNCHANGED <<dbVars, file, home, pending, objects, session>>

\* The Emergent provider deletes nothing and says it did.
DeleteObject(r) ==
    /\ At(r, "deleteObject")
    /\ objects' = IF Provider = "s3" THEN objects \ {req[r].file} ELSE objects
    /\ Skip(r, 1)
    /\ Quiet /\ Keep(r)
    /\ UNCHANGED <<dbVars, ready, file, home, pending, session>>

\* An error of the S3 client is logged.
DeleteFails(r) ==
    /\ At(r, "deleteObject")
    /\ Provider = "s3"
    /\ faults < MaxFaults
    /\ faults' = faults + 1
    /\ Skip(r, 1)
    /\ UNCHANGED <<seed, req, torn, before, cut, note, dbVars, fileVars>>

\* Sessions have no owner: whoever knows one marks it, exports it or drops it,
\* without an await.
OnSession(r, op, status) ==
    /\ Up
    /\ outcome[r] = "idle"
    /\ \E s \in Reqs:
        /\ session[s] # "none"
        /\ session' = [session EXCEPT ![s] = status]
        /\ req' = [req EXCEPT ![r] = [op |-> op, session |-> s]]
    /\ outcome' = [outcome EXCEPT ![r] = "ok"]
    /\ before' = [before EXCEPT ![r] = {q \in Reqs: Ended(q)}]
    /\ UNCHANGED <<seed, dbVars, todo, note, torn, cut, faults, ready, file, home,
                   pending, objects>>

\* /upload parses a file for anybody and stores nothing but the session.
UploadOnly(r) ==
    /\ Up
    /\ outcome[r] = "idle"
    /\ session' = [session EXCEPT ![r] = "pending"]
    /\ req' = [req EXCEPT ![r] = [op |-> "session"]]
    /\ outcome' = [outcome EXCEPT ![r] = "ok"]
    /\ before' = [before EXCEPT ![r] = {q \in Reqs: Ended(q)}]
    /\ UNCHANGED <<seed, dbVars, todo, note, torn, cut, faults, ready, file, home,
                   pending, objects>>

SaveMapping(r) == OnSession(r, "mapping", "mapped")
ExportMapped(r) == OnSession(r, "export", "exported")
DeleteSession(r) == OnSession(r, "drop", "none")

\* What is only in memory is gone.
CrashAll ==
    /\ Crash
    /\ ready' = FALSE
    /\ session' = [s \in Reqs |-> "none"]
    /\ UNCHANGED <<file, home, pending, objects>>

FileStep(r) ==
    \/ BeginWithFile(r) \/ PutObject(r) \/ PutFails(r) \/ InsertFile(r)
    \/ FindFile(r) \/ GetObject(r) \/ SoftDelete(r) \/ Recheck(r)
    \/ SignUrl(r) \/ DeleteObject(r) \/ DeleteFails(r) \/ UploadOnly(r) \/ SaveMapping(r) \/ ExportMapped(r) \/ DeleteSession(r)

Next ==
    \/ (StartUp \/ \E r \in Reqs: ProjectStep(r)) /\ UNCHANGED fileVars
    \/ \E r \in Reqs: FileStep(r)
    \/ CrashAll

Spec == Init /\ [][Next]_vars

-----------------------------------------------------------------------------
\* Types, and that a file and its session belong to an upload.
TypeOK ==
    /\ ProjectsTypeOK
    /\ ready \in BOOLEAN
    /\ file \in [Reqs -> {"none", "active", "deleted"}]
    /\ home \in [Reqs -> Projects]
    /\ session \in [Reqs -> {"none", "pending", "mapped", "exported"}]
    /\ pending \union objects \subseteq Reqs
    /\ \A f \in pending \union objects: req[f].op \in {"upload", "store"}

\* A file that is listed can be read: its document is written after the object
\* is put and marked deleted before the object goes, so a stop in between never
\* leaves a document without its object.  A file uploaded while storage was
\* unavailable has a made-up path and stays unreadable.
ListedHaveObjects ==
    \A f \in Reqs: file[f] = "active" => f \in objects \union pending

\* An object no listed file has comes from a fault, from an upload that has
\* not ended, from a removal that was refused after it had marked the file, or
\* from a provider that cannot delete.
OrphansHaveCause ==
    \A f \in objects: file[f] # "active" =>
        \/ faults > 0 \/ Provider = "emergent" \/ outcome[f] = "running"
        \/ \E r \in Reqs: req[r].op = "remove" /\ req[r].file = f /\ outcome[r] # "ok"
=============================================================================
