---------------------------- MODULE MappingStore ----------------------------
(***************************************************************************)
(* The mappings of one project: bulk saves, each a transaction of several  *)
(* statements at READ COMMITTED, next to deletions of single mappings and  *)
(* changes of the project's status.                                        *)
(*                                                                         *)
(* Source: src/src/modules/mappings/{service,repository}.py, the status    *)
(* update of projects/service.py and the three states of                   *)
(* mappings/suggestions/repository.py.  Of a mapping the model keeps the   *)
(* suggestion it was made from and is_active; the other columns are copied *)
(* through.  The mapping that row i of save c inserts is <<c, i>>.         *)
(***************************************************************************)
EXTENDS Naturals, Sequences, FiniteSets, Relation

CONSTANTS
    Saves,         \* bulk-save requests, each used once
    Suggestions,   \* the suggestions of the project
    Strangers,     \* suggestion ids that are not of the project
    NoSuggestion,  \* suggestion_id is not given
    NoMapping,     \* id is not given; coa_mapping_id is NULL
    Batches,       \* the request bodies: sequences of rows
    MaxRows        \* bound on the length of a body

Statuses == {"draft", "in_progress", "completed"}

Ids == Saves \X (1 .. MaxRows)

Rows == [sug : Suggestions \cup Strangers \cup {NoSuggestion},
         id : Ids \cup {NoMapping}, active : BOOLEAN]

Mappings == [origin : Suggestions \cup Strangers \cup {NoSuggestion}, active : BOOLEAN]

ASSUME ConstantsAssumption ==
    /\ IsFiniteSet(Saves)
    /\ MaxRows \in Nat
    /\ Batches \subseteq Seq(Rows)
    /\ \A b \in Batches : Len(b) <= MaxRows
    /\ Suggestions \cap Strangers = {}
    /\ NoSuggestion \notin Suggestions \cup Strangers
    /\ NoMapping \notin Ids

VARIABLES
    overlap,  \* whether the clients let two saves of the project run at once
    mapping,  \* committed coa_mappings rows, by id
    link,     \* committed coa_mapping_id of each suggestion
    status,   \* committed status of the project
    pc,       \* where each save is
    batch,    \* the body of each save
    at,       \* the row a save is at
    target,   \* the coa_mapping_id read for that row
    missing,  \* whether missing_ids is non-empty
    draft,    \* whether the project was read as a draft
    work,     \* mappings inserted and updated by a save, not committed
    relink    \* links set by a save, not committed

request == <<overlap, batch, missing, draft>>
vars == <<overlap, mapping, link, status, pc, batch, at, target, missing, draft, work, relink>>

Init ==
    /\ overlap \in BOOLEAN
    /\ mapping = [m \in {} |-> {}]
    /\ link = [s \in Suggestions |-> NoMapping]
    /\ status = "draft"
    /\ pc = [c \in Saves |-> "new"]
    /\ batch = [c \in Saves |-> <<>>]
    /\ at = [c \in Saves |-> 1]
    /\ target = [c \in Saves |-> NoMapping]
    /\ missing = [c \in Saves |-> FALSE]
    /\ draft = [c \in Saves |-> FALSE]
    /\ work = [c \in Saves |-> [m \in {} |-> {}]]
    /\ relink = [c \in Saves |-> [s \in {} |-> NoMapping]]

\* g over f, and f with v at x.
Over(g, f) == [x \in DOMAIN f \cup DOMAIN g |-> IF x \in DOMAIN g THEN g[x] ELSE f[x]]
With(f, x, v) == [y \in DOMAIN f \cup {x} |-> IF y = x THEN v ELSE f[y]]

Running(c) == pc[c] \in {"rows", "found", "links", "commit"}

More(c) == at[c] <= Len(batch[c])

Row(c) == batch[c][at[c]]

\* The row a save is at was inserted from a suggestion, so it is in pending_links.
ToLink(c) ==
    /\ Row(c).sug # NoSuggestion
    /\ <<c, at[c]>> \in DOMAIN work[c]

\* What a save sees: its own writes over what is committed.
View(c) == Over(work[c], mapping)

-----------------------------------------------------------------------------
(* Row locks: an UPDATE waits for the transaction that has written the row. *)

\* The mapping the next statement of a save updates, if any.
Updates(c) ==
    CASE pc[c] = "found" -> target[c]
      [] pc[c] = "rows" /\ More(c) /\ Row(c).sug = NoSuggestion -> Row(c).id
      [] OTHER -> NoMapping

\* A row of another transaction that has not committed is not visible, hence not waited for.
HoldsMapping(d, m) == m \in DOMAIN mapping /\ m \in DOMAIN work[d]

Waits(c, d) ==
    /\ c # d
    /\ \/ HoldsMapping(d, Updates(c))
       \/ pc[c] = "links" /\ More(c) /\ ToLink(c) /\ Row(c).sug \in DOMAIN relink[d]

Free(c) == \A d \in Saves : ~Waits(c, d)

Deadlocked(c) ==
    TransitiveClosure([e \in Saves \X Saves |-> Waits(e[1], e[2])], Saves)[c, c]

-----------------------------------------------------------------------------
(* MappingService.bulk_save and MappingRepository.bulk_upsert *)

Begin(c, b) ==
    /\ pc[c] = "new"
    /\ overlap \/ \A d \in Saves : ~Running(d)
    /\ pc' = [pc EXCEPT ![c] = "rows"]
    /\ batch' = [batch EXCEPT ![c] = b]
    /\ UNCHANGED <<overlap, mapping, link, status, at, target, missing, draft, work, relink>>

\* The row is dealt with; on to the next.
NextRow(c) ==
    /\ pc' = [pc EXCEPT ![c] = "rows"]
    /\ at' = [at EXCEPT ![c] = @ + 1]
    /\ target' = [target EXCEPT ![c] = NoMapping]

\* Variant: the link of the suggestion is not looked at.
ReadNoLink(c) ==
    /\ pc[c] = "rows" /\ More(c) /\ Row(c).sug # NoSuggestion
    /\ pc' = [pc EXCEPT ![c] = "found"]
    /\ UNCHANGED <<mapping, link, status, request, at, target, work, relink>>

\* SELECT the suggestion within the project.
ReadSuggestion(c) ==
    /\ pc[c] = "rows" /\ More(c) /\ Row(c).sug # NoSuggestion
    /\ target' = [target EXCEPT ![c] = IF Row(c).sug \in Suggestions
                                       THEN link[Row(c).sug] ELSE NoMapping]
    /\ pc' = [pc EXCEPT ![c] = "found"]
    /\ UNCHANGED <<mapping, link, status, request, at, work, relink>>

\* Variant: a suggestion that has a mapping is left as it is.
SkipLinked(c) ==
    /\ pc[c] = "found" /\ target[c] # NoMapping /\ Free(c)
    /\ NextRow(c)
    /\ UNCHANGED <<mapping, link, status, request, work, relink>>

\* UPDATE ... WHERE id = m: one row, or none and the id is missing.
UpdateMapping(c, m) ==
    /\ IF m \in DOMAIN View(c)
       THEN /\ work' = [work EXCEPT ![c] =
                            With(@, m, [View(c)[m] EXCEPT !.active = Row(c).active])]
            /\ UNCHANGED missing
       ELSE /\ missing' = [missing EXCEPT ![c] = TRUE]
            /\ UNCHANGED work
    /\ NextRow(c)
    /\ UNCHANGED <<overlap, mapping, link, status, batch, draft, relink>>

UpdateLinked(c) ==
    /\ pc[c] = "found" /\ target[c] # NoMapping /\ Free(c)
    /\ UpdateMapping(c, target[c])

UpdateById(c) ==
    /\ pc[c] = "rows" /\ More(c) /\ Row(c).sug = NoSuggestion /\ Row(c).id # NoMapping
    /\ Free(c)
    /\ UpdateMapping(c, Row(c).id)

InsertMapping(c) ==
    /\ work' = [work EXCEPT ![c] =
                    With(@, <<c, at[c]>>, [origin |-> Row(c).sug, active |-> Row(c).active])]
    /\ NextRow(c)
    /\ UNCHANGED <<mapping, link, status, request, relink>>

InsertFromSuggestion(c) ==
    /\ pc[c] = "found" /\ target[c] = NoMapping
    /\ InsertMapping(c)

InsertManual(c) ==
    /\ pc[c] = "rows" /\ More(c) /\ Row(c).sug = NoSuggestion /\ Row(c).id = NoMapping
    /\ InsertMapping(c)

\* Variant: the links are never set.
FlushWithoutLinks(c) ==
    /\ pc[c] = "rows" /\ ~More(c)
    /\ pc' = [pc EXCEPT ![c] = "links"]
    /\ UNCHANGED <<mapping, link, status, request, at, target, work, relink>>

\* session.flush(), then back to the first row for the links.
Flush(c) ==
    /\ pc[c] = "rows" /\ ~More(c)
    /\ pc' = [pc EXCEPT ![c] = "links"]
    /\ at' = [at EXCEPT ![c] = 1]
    /\ UNCHANGED <<mapping, link, status, request, target, work, relink>>

\* UPDATE the suggestion of each inserted row; a stranger's UPDATE matches no row.
LinkRow(c) ==
    /\ pc[c] = "links" /\ More(c) /\ Free(c)
    /\ relink' = IF ToLink(c) /\ Row(c).sug \in Suggestions
                 THEN [relink EXCEPT ![c] = With(@, Row(c).sug, <<c, at[c]>>)]
                 ELSE relink
    /\ at' = [at EXCEPT ![c] = @ + 1]
    /\ UNCHANGED <<mapping, link, status, pc, request, target, work>>

\* The session is closed without a commit: everything is undone, every lock freed.
Rollback(c) ==
    /\ pc' = [pc EXCEPT ![c] = "failed"]
    /\ work' = [work EXCEPT ![c] = [m \in {} |-> {}]]
    /\ relink' = [relink EXCEPT ![c] = [s \in {} |-> NoMapping]]
    /\ target' = [target EXCEPT ![c] = NoMapping]
    /\ UNCHANGED <<mapping, link, status, request, at>>

\* Variant: the answer is 404 and the transaction is left open.
RaiseAndKeep(c) ==
    /\ pc[c] = "links" /\ ~More(c) /\ missing[c]
    /\ pc' = [pc EXCEPT ![c] = "failed"]
    /\ UNCHANGED <<mapping, link, status, request, at, target, work, relink>>

\* Variant: the rows that could be written are committed before the 404.
RaiseAfterCommit(c) ==
    /\ pc[c] = "links" /\ ~More(c) /\ missing[c]
    /\ mapping' = View(c)
    /\ link' = Over(relink[c], link)
    /\ pc' = [pc EXCEPT ![c] = "failed"]
    /\ UNCHANGED <<status, request, at, target, work, relink>>

RaiseMissing(c) ==
    /\ pc[c] = "links" /\ ~More(c) /\ missing[c]
    /\ Rollback(c)

ReadProject(c) ==
    /\ pc[c] = "links" /\ ~More(c) /\ ~missing[c]
    /\ draft' = [draft EXCEPT ![c] = status = "draft"]
    /\ pc' = [pc EXCEPT ![c] = "commit"]
    /\ UNCHANGED <<overlap, mapping, link, status, batch, at, target, missing, work, relink>>

\* update_status if the project was read as a draft, then COMMIT.
Commit(c) ==
    /\ pc[c] = "commit"
    /\ mapping' = View(c)
    /\ link' = Over(relink[c], link)
    /\ status' = IF draft[c] THEN "in_progress" ELSE status
    /\ pc' = [pc EXCEPT ![c] = "done"]
    /\ work' = [work EXCEPT ![c] = [m \in {} |-> {}]]
    /\ relink' = [relink EXCEPT ![c] = [s \in {} |-> NoMapping]]
    /\ UNCHANGED <<request, at, target>>

\* PostgreSQL breaks a cycle of waiting transactions by failing one of them.
DeadlockVictim(c) ==
    /\ Running(c) /\ Deadlocked(c)
    /\ Rollback(c)

\* Any statement may fail: a name that is NULL, a connection that is lost.
SaveFails(c) ==
    /\ Running(c)
    /\ Rollback(c)

-----------------------------------------------------------------------------
(* The other writers: one statement and a commit each *)

\* MappingService.delete_mapping: rejected, not removed.
DeleteMapping(m) ==
    /\ m \in DOMAIN mapping
    /\ \A c \in Saves : ~HoldsMapping(c, m)
    /\ mapping' = [mapping EXCEPT ![m].active = FALSE]
    /\ UNCHANGED <<link, status, pc, request, at, target, work, relink>>

\* ProjectService.update_project: the status is whatever the client sends.
UpdateProject(s) ==
    /\ s # status
    /\ status' = s
    /\ UNCHANGED <<mapping, link, pc, request, at, target, work, relink>>

SaveStep(c) ==
    \/ ReadSuggestion(c) \/ UpdateLinked(c) \/ UpdateById(c)
    \/ InsertFromSuggestion(c) \/ InsertManual(c)
    \/ Flush(c) \/ LinkRow(c) \/ RaiseMissing(c) \/ ReadProject(c) \/ Commit(c)

Next ==
    \/ \E c \in Saves : \/ \E b \in Batches : Begin(c, b)
                        \/ SaveStep(c)
                        \/ DeadlockVictim(c)
                        \/ SaveFails(c)
    \/ \E m \in DOMAIN mapping : DeleteMapping(m)
    \/ \E s \in Statuses : UpdateProject(s)

Spec == Init /\ [][Next]_vars

\* A request runs to its end; the database always breaks a deadlock in the end.
Fairness == \A c \in Saves : WF_vars(SaveStep(c)) /\ WF_vars(DeadlockVictim(c))

FairSpec == Spec /\ Fairness

-----------------------------------------------------------------------------
(* Properties *)

\* Every variable has the type its declaration describes.
TypeOK ==
    /\ overlap \in BOOLEAN
    /\ DOMAIN mapping \subseteq Ids
    /\ \A m \in DOMAIN mapping : mapping[m] \in Mappings
    /\ link \in [Suggestions -> Ids \cup {NoMapping}]
    /\ status \in Statuses
    /\ pc \in [Saves -> {"new", "rows", "found", "links", "commit", "done", "failed"}]
    /\ batch \in [Saves -> Batches \cup {<<>>}]
    /\ at \in [Saves -> 1 .. MaxRows + 1]
    /\ target \in [Saves -> Ids \cup {NoMapping}]
    /\ missing \in [Saves -> BOOLEAN]
    /\ draft \in [Saves -> BOOLEAN]
    /\ DOMAIN work = Saves /\ DOMAIN relink = Saves
    /\ \A c \in Saves : /\ DOMAIN work[c] \subseteq Ids
                        /\ \A m \in DOMAIN work[c] : work[c][m] \in Mappings
                        /\ DOMAIN relink[c] \subseteq Suggestions
                        /\ \A s \in DOMAIN relink[c] : relink[c][s] \in Ids
                        /\ pc[c] = "found" => More(c)

\* The two tables agree, however saves overlap and fail: a mapping made from a
\* suggestion of the project is never committed while the suggestion still shows
\* as pending, and a suggestion only points to a committed mapping of its own.
SavedIsLinked ==
    /\ \A m \in DOMAIN mapping :
          mapping[m].origin \in Suggestions => link[mapping[m].origin] # NoMapping
    /\ \A s \in Suggestions :
          link[s] # NoMapping => link[s] \in DOMAIN mapping /\ mapping[link[s]].origin = s

\* What a successful answer promises for one row.
RowSaved(c, i) ==
    LET r == batch[c][i] IN
    CASE r.sug \in Suggestions -> link[r.sug] # NoMapping
      [] r.sug = NoSuggestion /\ r.id # NoMapping -> r.id \in DOMAIN mapping
      [] OTHER -> <<c, i>> \in DOMAIN mapping

\* A bulk save is all or nothing: once it is answered 201 every row has its
\* mapping, and a save that failed, or has not ended, has left no mapping behind.
AllOrNothing ==
    \A c \in Saves :
        IF pc[c] = "done" THEN \A i \in DOMAIN batch[c] : RowSaved(c, i)
        ELSE \A m \in DOMAIN mapping : m[1] # c

\* At most one mapping is made from a suggestion: resending it updates that one
\* (mappings/repository.py:47, "idempotent; FE can resend suggestion_id safely").
OneMappingEach ==
    \A m, n \in DOMAIN mapping :
        mapping[m].origin = mapping[n].origin /\ mapping[m].origin \in Suggestions => m = n

\* A body that repeats a suggestion inserts two mappings, as both rows find no link.
NamesOnce(b) ==
    \A i, j \in DOMAIN b : b[i].sug = b[j].sug /\ b[i].sug \in Suggestions => i = j

\* Resending is safe as long as the client waits for the answer first and does
\* not resend within one body.
ResendIsSafe == ~overlap /\ (\A c \in Saves : NamesOnce(batch[c])) => OneMappingEach

\* How list_by_project_with_mappings shows a suggestion.
Shown(s) ==
    IF link[s] = NoMapping THEN "pending"
    ELSE IF mapping[link[s]].active THEN "confirmed" ELSE "rejected"

\* While saves do not overlap: when a save commits, each suggestion it names is
\* shown as the save says, whatever earlier saves and deletions made of it: a
\* resent row is not lost (mappings/repository.py:74-84).  That is of a body that
\* says one thing of it: not twice, and not again by the id of its mapping.
CommitIsVisible ==
    [][\A c \in Saves :
         ~overlap /\ NamesOnce(batch[c]) /\ pc[c] = "commit" /\ pc'[c] = "done" =>
           \A i \in DOMAIN batch[c] :
              LET r == batch[c][i] IN
              r.sug \in Suggestions /\ (\A j \in DOMAIN batch[c] :
                      batch[c][j].sug = NoSuggestion => batch[c][j].id # link'[r.sug]) =>
                 Shown(r.sug)' = IF r.active THEN "confirmed" ELSE "rejected"]_vars

\* Every save ends, also when two of them lock the same rows in opposite orders.
SavesEnd == \A c \in Saves : Running(c) ~> pc[c] \in {"done", "failed"}
=============================================================================
