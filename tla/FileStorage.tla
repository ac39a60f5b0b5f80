---------------------------- MODULE FileStorage ----------------------------
(***************************************************************************)
(* Uploaded files: a row in PostgreSQL and an object in S3, written one    *)
(* after the other with nothing to undo the first when the second fails.   *)
(*                                                                         *)
(* Source: src/src/modules/storage/{service,repository,s3_provider}.py,    *)
(* and delete_project of src/src/modules/projects/service.py.  The files   *)
(* are those of one project, and its deletion takes their rows and leaves  *)
(* their objects.  Each upload has a path of its own (uuid4), so a file    *)
(* and its object share a name here.  Listing, metadata and signed URLs    *)
(* only read rows.                                                         *)
(***************************************************************************)
CONSTANTS
    Files,      \* upload requests, and the files they make
    Deletes,    \* delete requests
    Downloads,  \* download requests
    NoFile      \* a request that names no file yet

ASSUME StorageAssumption == NoFile \notin Files

VARIABLES
    store,    \* whether an S3 endpoint is configured
    objects,  \* the files whose object is in the bucket
    project,  \* whether the project's row is there
    row,      \* the committed row of each file
    upload,   \* where each upload is, or how it was answered
    del,      \* the same for each delete: [pc, file]
    get       \* the same for each download: [pc, file]

storageVars == <<store, objects, project, row, upload, del, get>>

StorageInit ==
    /\ store \in BOOLEAN
    /\ objects = {}
    /\ project = TRUE
    /\ row = [f \in Files |-> "none"]
    /\ upload = [f \in Files |-> "new"]
    /\ del = [d \in Deletes |-> [pc |-> "new", file |-> NoFile]]
    /\ get = [g \in Downloads |-> [pc |-> "new", file |-> NoFile]]

-----------------------------------------------------------------------------
(* StorageService.upload_file *)

\* ensure_project_access: the access rows go with the project.
CheckUpload(f) ==
    /\ upload[f] = "new"
    /\ upload' = [upload EXCEPT ![f] = IF project THEN "checked" ELSE "refused"]
    /\ UNCHANGED <<store, objects, project, row, del, get>>

\* The object is put before the row is inserted; without a store there is none.
PutObject(f) ==
    /\ upload[f] = "checked"
    /\ objects' = IF store THEN objects \cup {f} ELSE objects
    /\ upload' = [upload EXCEPT ![f] = "put"]
    /\ UNCHANGED <<store, project, row, del, get>>

\* Variant: a put that raises is logged and the file is recorded as ready.
PutErrorIgnored(f) ==
    /\ upload[f] = "checked" /\ store
    /\ objects' \in {objects, objects \cup {f}}
    /\ upload' = [upload EXCEPT ![f] = "put"]
    /\ UNCHANGED <<store, project, row, del, get>>

\* put_object raises: 500.  The object may be there all the same.
PutFails(f) ==
    /\ upload[f] = "checked" /\ store
    /\ objects' \in {objects, objects \cup {f}}
    /\ upload' = [upload EXCEPT ![f] = "failed"]
    /\ UNCHANGED <<store, project, row, del, get>>

\* INSERT with status "ready", COMMIT, 201; the foreign key needs the project.
CommitUpload(f) ==
    /\ upload[f] = "put" /\ project
    /\ row' = [row EXCEPT ![f] = "active"]
    /\ upload' = [upload EXCEPT ![f] = "ready"]
    /\ UNCHANGED <<store, objects, project, del, get>>

CommitUploadFails(f) ==
    /\ upload[f] = "put"
    /\ upload' = [upload EXCEPT ![f] = "failed"]
    /\ UNCHANGED <<store, objects, project, row, del, get>>

-----------------------------------------------------------------------------
(* StorageService.delete_file *)

\* The row is read, the access checked: 404 unless it is there and active.
ReadForDelete(d, f) ==
    /\ del[d].pc = "new" /\ row[f] # "none"
    /\ del' = [del EXCEPT ![d] = [pc   |-> IF row[f] = "active" THEN "checked" ELSE "refused",
                                  file |-> f]]
    /\ UNCHANGED <<store, objects, project, row, upload, get>>

\* Another delete has updated the row and has not ended its transaction.
Locked(d) ==
    \E e \in Deletes \ {d} :
        del[e].file = del[d].file /\ del[e].pc \in {"marked", "removed", "kept"}

\* UPDATE ... SET is_active = false, by primary key, for what was read before; an
\* UPDATE that finds no row raises: 500.
SoftDelete(d) ==
    /\ del[d].pc = "checked" /\ ~Locked(d)
    /\ del' = [del EXCEPT ![d].pc = IF row[del[d].file] = "gone" THEN "failed" ELSE "marked"]
    /\ UNCHANGED <<store, objects, project, row, upload, get>>

\* Variant: the test for a store is inverted.
RemoveNothing(d) ==
    /\ del[d].pc = "marked"
    /\ del' = [del EXCEPT ![d].pc = "removed"]
    /\ UNCHANGED <<store, objects, project, row, upload, get>>

\* delete_object, before the commit; it does nothing without a store.
RemoveObject(d) ==
    /\ del[d].pc = "marked"
    /\ objects' = objects \ {del[d].file}
    /\ del' = [del EXCEPT ![d].pc = "removed"]
    /\ UNCHANGED <<store, project, row, upload, get>>

\* A ClientError is logged and the deletion goes on; the object stays.
RemoveRefused(d) ==
    /\ del[d].pc = "marked" /\ store
    /\ del' = [del EXCEPT ![d].pc = "kept"]
    /\ UNCHANGED <<store, objects, project, row, upload, get>>

\* Any other exception is a 500 and a rollback; the object may be gone or not.
RemoveFails(d) ==
    /\ del[d].pc = "marked" /\ store
    /\ \/ /\ objects' = objects \ {del[d].file}
          /\ del' = [del EXCEPT ![d].pc = "lost"]
       \/ /\ del' = [del EXCEPT ![d].pc = "failed"]
          /\ UNCHANGED objects
    /\ UNCHANGED <<store, project, row, upload, get>>

\* Variant: the commit is forgotten.
AnswerWithoutCommit(d) ==
    /\ del[d].pc \in {"removed", "kept"}
    /\ del' = [del EXCEPT ![d].pc = IF @ = "removed" THEN "done" ELSE "leaked"]
    /\ UNCHANGED <<store, objects, project, row, upload, get>>

\* COMMIT and 200.  After a ClientError the answer is the same.
CommitDelete(d) ==
    /\ del[d].pc \in {"removed", "kept"}
    /\ row' = [row EXCEPT ![del[d].file] = "deleted"]
    /\ del' = [del EXCEPT ![d].pc = IF @ = "removed" THEN "done" ELSE "leaked"]
    /\ UNCHANGED <<store, objects, project, upload, get>>

CommitDeleteFails(d) ==
    /\ del[d].pc \in {"removed", "kept"}
    /\ del' = [del EXCEPT ![d].pc = IF @ = "removed" THEN "lost" ELSE "failed"]
    /\ UNCHANGED <<store, objects, project, row, upload, get>>

-----------------------------------------------------------------------------
(* ProjectService.delete_project *)

\* DELETE and COMMIT: the rows of the files go with the project's, and wait for the
\* deletes that hold one of them.  Nothing removes the objects.
DeleteProject ==
    /\ project
    /\ \A d \in Deletes : del[d].pc \notin {"marked", "removed", "kept"}
    /\ project' = FALSE
    /\ row' = [f \in Files |-> IF row[f] = "none" THEN "none" ELSE "gone"]
    /\ UNCHANGED <<store, objects, upload, del, get>>

-----------------------------------------------------------------------------
(* StorageService.download_file *)

\* 404 for a file that is deleted or gone, and for any file without a store.
ReadForDownload(g, f) ==
    /\ get[g].pc = "new" /\ row[f] # "none"
    /\ get' = [get EXCEPT ![g] = [pc   |-> IF row[f] = "active" /\ store THEN "checked"
                                           ELSE "refused",
                                  file |-> f]]
    /\ UNCHANGED <<store, objects, project, row, upload, del>>

\* The object, or a 500 when S3 has no such key.
GetObject(g) ==
    /\ get[g].pc = "checked"
    /\ get' = [get EXCEPT ![g].pc = IF get[g].file \in objects THEN "served" ELSE "missing"]
    /\ UNCHANGED <<store, objects, project, row, upload, del>>

\* The same 500 when S3 cannot be reached.
GetFails(g) ==
    /\ get[g].pc = "checked"
    /\ get' = [get EXCEPT ![g].pc = "error"]
    /\ UNCHANGED <<store, objects, project, row, upload, del>>

-----------------------------------------------------------------------------
\* The process dies: no request ends, no open transaction is committed.
Crash ==
    /\ upload' = [f \in Files |-> IF upload[f] \in {"checked", "put"} THEN "failed"
                                 ELSE upload[f]]
    /\ del' = [d \in Deletes |->
                 [del[d] EXCEPT !.pc = CASE @ \in {"checked", "marked", "kept"} -> "failed"
                                         [] @ = "removed" -> "lost"
                                         [] OTHER -> @]]
    /\ get' = [g \in Downloads |->
                 [get[g] EXCEPT !.pc = IF @ = "checked" THEN "refused" ELSE @]]
    /\ UNCHANGED <<store, objects, project, row>>

StorageNext ==
    \/ \E f \in Files : \/ CheckUpload(f) \/ PutObject(f) \/ PutFails(f)
                        \/ CommitUpload(f) \/ CommitUploadFails(f)
    \/ DeleteProject
    \/ \E d \in Deletes : \/ \E f \in Files : ReadForDelete(d, f)
                          \/ SoftDelete(d) \/ RemoveObject(d) \/ RemoveRefused(d)
                          \/ RemoveFails(d) \/ CommitDelete(d) \/ CommitDeleteFails(d)
    \/ \E g \in Downloads : \/ \E f \in Files : ReadForDownload(g, f)
                            \/ GetObject(g) \/ GetFails(g)
    \/ Crash

StorageSpec == StorageInit /\ [][StorageNext]_storageVars

-----------------------------------------------------------------------------
(* Properties *)

\* The values of each variable; a file has a row exactly when its upload was answered.
StorageTypeOK ==
    /\ store \in BOOLEAN
    /\ objects \subseteq Files
    /\ project \in BOOLEAN
    /\ row \in [Files -> {"none", "active", "deleted", "gone"}]
    /\ upload \in [Files -> {"new", "refused", "checked", "put", "ready", "failed"}]
    /\ del \in [Deletes -> [pc : {"new", "refused", "checked", "marked", "removed", "kept",
                                  "done", "leaked", "failed", "lost"},
                            file : Files \cup {NoFile}]]
    /\ get \in [Downloads -> [pc : {"new", "refused", "checked", "served", "missing", "error"},
                              file : Files \cup {NoFile}]]
    /\ \A f \in Files : row[f] # "none" <=> upload[f] = "ready"

DeletedBy(f, outcomes) == \E d \in Deletes : del[d].file = f /\ del[d].pc \in outcomes

\* A file that is listed can be read.  Only a deletion that took the object and
\* could not commit leaves an active row without one, whatever put or commit
\* fails and however deletions of one file overlap.
ActiveIsReadable ==
    \A f \in Files :
        store /\ row[f] = "active" /\ f \notin objects => DeletedBy(f, {"removed", "lost"})

\* An object without an active row has one of four causes: its upload is under way,
\* its upload was answered 500, a deletion was answered 200 after S3 refused, or the
\* project was deleted under a file that had a row.  Nothing else leaves one behind.
OrphansHaveCause ==
    \A f \in objects :
        row[f] # "active" => \/ upload[f] \in {"put", "failed"}
                             \/ DeletedBy(f, {"leaked"})
                             \/ row[f] = "gone"

\* A download that passed its checks finds no object only if somebody deleted the
\* file meanwhile, or lost it in deleting: an upload answered 201 is in the bucket.
FailedReadsHaveCause ==
    \A g \in Downloads :
        get[g].pc = "missing" => DeletedBy(get[g].file, {"removed", "lost", "done"})
=============================================================================
