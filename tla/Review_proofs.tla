---------------------------- MODULE Review_proofs ----------------------------
(***************************************************************************)
(* Proofs about Review, for any number of requests, projects and rows.     *)
(*                                                                         *)
(* Every step is of one request that has not ended (Moves), so whatever it *)
(* writes is later than every request that has.  Hence what a request has  *)
(* read, been allowed or deleted is still so, or a later request changed   *)
(* it: Fresh, Allowed and Covered say this of a request under way, and the *)
(* properties of the run say it of one that was answered.                  *)
(***************************************************************************)
EXTENDS Review, FiniteSetTheorems, TLAPS

Writing == {"edit", "delete", "bulk", "score"}

\* A step of r changes no other request, and r has begun by the end of it.
Moves(r) ==
    /\ ~Ended(r) /\ pc'[r] # "idle"
    /\ \A q \in Reqs \ {r}: /\ pc'[q] = pc[q] /\ req'[q] = req[q] /\ need'[q] = need[q]
                            /\ loaded'[q] = loaded[q] /\ wrote'[q] = wrote[q]
                            /\ before'[q] = before[q]
    /\ pc[r] = "idle" => /\ req'[r] \in Inputs
                         /\ before'[r] = {q \in Reqs: Ended(q)}
                         /\ wrote'[r] = wrote[r]
    /\ pc[r] # "idle" => req'[r] = req[r] /\ before'[r] = before[r]
    /\ wrote'[r] # wrote[r] => pc'[r] = "ok" /\ req[r].op \in Writing /\ pc[r] = "apply"
    /\ ~Ended(r)' => req'[r].op # "access"
    /\ pc'[r] = "load" => req'[r].op \in {"edit", "delete", "bulk"}
    /\ pc'[r] \in {"delete", "insert"} => Replaces(r)'

\* A request begins idle, knows only requests that ended, and writes at its end.
Orderly ==
    \A r \in Reqs:
        /\ pc[r] = "idle" => req[r] = NoInput /\ before[r] = {}
        /\ pc[r] # "idle" => req[r] \in Inputs
        /\ \A q \in before[r]: Ended(q)
        /\ wrote[r] # {} => pc[r] = "ok" /\ req[r].op \in Writing
        /\ ~Ended(r) => req[r].op # "access"
        /\ pc[r] = "load" => req[r].op \in {"edit", "delete", "bulk"}
        /\ pc[r] \in {"delete", "insert"} => Replaces(r)
        /\ \A q \in before[r]: before[q] \subseteq before[r]

-----------------------------------------------------------------------------
(* Types, and the shape of a step *)

LEMMA StartMoves ==
    ASSUME NEW r \in Reqs, NEW i \in Inputs, NEW place, NEW projects,
           TypeOK, Orderly, i.op # "access",
           place = "load" => i.op \in {"edit", "delete", "bulk"},
           place \in {"load", "check", "ok", "failed"}, projects \subseteq Projects,
           Start(r, i, place, projects)
    PROVE  Moves(r) /\ ReviewTypeOK' /\ pc[r] = "idle"
  BY DEF Start, Moves, Goto, Ended, Orderly, Replaces, TypeOK, ReviewTypeOK, TypesTypeOK

\* What the steps do to the table of account types.
TypesMove(r) ==
    /\ \A q \in Reqs \ {r}: victims'[q] = victims[q] /\ held'[q] = held[q]
    /\ \A id \in DOMAIN types': DOMAIN types'[id] = Columns /\ types'[id].project \in Projects
    /\ DOMAIN victims' = Reqs /\ DOMAIN held' = Reqs
    /\ held'[r] # {} => pc'[r] = "insert"

LEMMA RequestMoves ==
    ASSUME NEW r \in Reqs, NEW i \in Inputs, TypeOK, Orderly,
           \/ UpdateMapping(r, i) \/ DeleteMapping(r, i) \/ BulkUpdate(r, i)
           \/ BulkByScore(r, i) \/ ListMappings(r, i) \/ SaveTypes(r, i) \/ ClearTypes(r, i)
           \/ Retype(r, i)
    PROVE  Moves(r) /\ ReviewTypeOK' /\ pc[r] = "idle"
<1>1. CASE UpdateMapping(r, i) \/ DeleteMapping(r, i)
  <2>1. Start(r, i, "load", {}) /\ i.op \in {"edit", "delete"}
    BY <1>1 DEF UpdateMapping, DeleteMapping
  <2> QED BY <2>1, StartMoves
<1>2. CASE BulkUpdate(r, i)
  <2>1. i.op = "bulk"
    BY <1>2 DEF BulkUpdate
  <2>2. CASE Start(r, i, "load", {})
    BY <2>1, <2>2, StartMoves
  <2>3. CASE Start(r, i, "ok", {})
    BY <2>1, <2>3, StartMoves
  <2> QED BY <1>2, <2>2, <2>3 DEF BulkUpdate
<1>3. CASE \/ BulkByScore(r, i) \/ ListMappings(r, i)
            \/ SaveTypes(r, i) \/ ClearTypes(r, i)
  <2>1. Start(r, i, "check", {i.project}) /\ i.op # "access"
    BY <1>3 DEF BulkByScore, ListMappings, SaveTypes, ClearTypes
  <2>2. {i.project} \subseteq Projects
    BY <1>3, InputsAssumption, TypesAssumption DEF BulkByScore, ListMappings, SaveTypes, ClearTypes
  <2> QED BY <2>1, <2>2, StartMoves
<1>4. CASE Retype(r, i)
  <2>1. /\ i.op # "access"
        /\ \/ i.id \in DOMAIN types /\ Start(r, i, "check", {types[i.id].project})
           \/ Start(r, i, "failed", {})
    BY <1>4 DEF Retype
  <2>2. i.id \in DOMAIN types => {types[i.id].project} \subseteq Projects
    BY DEF TypeOK, TypesTypeOK
  <2> QED BY <2>1, <2>2, StartMoves
<1> QED BY <1>1, <1>2, <1>3, <1>4

LEMMA ReviewMoves ==
    ASSUME NEW r \in Reqs, TypeOK, Orderly, ReviewStep(r), UNCHANGED typeVars
    PROVE  Moves(r) /\ TypeOK'
<1>1. CASE \E i \in Inputs: \/ UpdateMapping(r, i) \/ DeleteMapping(r, i)
                            \/ BulkUpdate(r, i) \/ BulkByScore(r, i)
                            \/ ListMappings(r, i)
  BY <1>1, RequestMoves DEF TypeOK, TypesTypeOK, typeVars, Moves
<1> USE InputsAssumption, ReviewAssumption DEF Writing, TypeOK, ReviewTypeOK, TypesTypeOK, Moves, Ended, Goto, Orderly, Replaces, typeVars
<1>2. CASE \E i \in Inputs: SetAccess(r, i)
  BY <1>2 DEF SetAccess
<1>3. CASE LoadRows(r)
  <2>1. {ProjectOf[m]: m \in Named(r)} \subseteq Projects
    BY <1>3 DEF Named, LoadRows
  <2> QED BY <1>3, <2>1 DEF LoadRows
<1>4. CASE CheckAccess(r)
  BY <1>4 DEF CheckAccess
<1>5. CASE WriteObject(r)
  <2>1. req[r].mapping \in Mappings
    BY <1>5 DEF WriteObject
  <2> QED BY <1>5, <2>1 DEF WriteObject, Written, Flush
<1>8. CASE WriteByIds(r)
  <2>1. req[r].ids \subseteq Mappings
    BY <1>8 DEF WriteByIds
  <2> QED BY <1>8, <2>1 DEF WriteByIds, WriteStatus, Written, WithStatus
<1>9. CASE WriteByScore(r)
  BY <1>9 DEF WriteByScore, WriteStatus, Written, WithStatus
<1>6. CASE WriteFails(r)
  BY <1>6 DEF WriteFails
<1>7. CASE ReadPage(r)
  BY <1>7 DEF ReadPage
<1> QED BY <1>1, <1>2, <1>3, <1>4, <1>5, <1>6, <1>7, <1>8, <1>9 DEF ReviewStep

LEMMA TypesMoves ==
    ASSUME NEW r \in Reqs, TypeOK, Orderly, TypesStep(r)
    PROVE  Moves(r) /\ TypeOK'
<1>1. CASE \E i \in Inputs: SaveTypes(r, i) \/ ClearTypes(r, i) \/ Retype(r, i)
  <2>1. Moves(r) /\ ReviewTypeOK' /\ pc[r] = "idle"
    BY <1>1, RequestMoves
  <2>2. UNCHANGED typeVars
    BY <1>1 DEF SaveTypes, ClearTypes, Retype
  <2> QED BY <2>1, <2>2 DEF TypeOK, TypesTypeOK, typeVars, Moves
<1> USE TypesAssumption, ReviewAssumption DEF Writing, TypeOK, ReviewTypeOK, TypesTypeOK, Moves, Ended, Goto, Orderly, Replaces, typeVars
<1>2. CASE BeginDelete(r)
  BY <1>2 DEF BeginDelete
<1>3. CASE DeleteRows(r)
  BY <1>3 DEF DeleteRows
<1>4. CASE CommitTypes(r)
  <2>1. req[r].op = "replace" => req[r].project \in Projects
    BY <1>4 DEF CommitTypes
  <2>2. \A id \in DOMAIN types': DOMAIN types'[id] = Columns /\ types'[id].project \in Projects
    BY <1>4, <2>1 DEF CommitTypes, Replaced, NewIds, NewRow, Columns
  <2>3. Moves(r)
    BY <1>4 DEF CommitTypes
  <2>4. ReviewTypeOK'
    BY <1>4 DEF CommitTypes
  <2>5. DOMAIN victims' = Reqs /\ DOMAIN held' = Reqs
    BY <1>4 DEF CommitTypes
  <2>6. \A q \in Reqs: held'[q] # {} => pc'[q] = "insert"
    BY <1>4 DEF CommitTypes
  <2> QED BY <2>2, <2>3, <2>4, <2>5, <2>6
<1>5. CASE WriteType(r)
  BY <1>5 DEF WriteType, Columns
<1>6. CASE RollBackTypes(r)
  BY <1>6 DEF RollBackTypes
<1> QED BY <1>1, <1>2, <1>3, <1>4, <1>5, <1>6 DEF TypesStep

LEMMA OrderlyStep ==
    ASSUME NEW r \in Reqs, TypeOK, TypeOK', Orderly, Moves(r)
    PROVE  Orderly'
<1> SUFFICES ASSUME NEW q \in Reqs
             PROVE  /\ pc'[q] = "idle" => req'[q] = NoInput /\ before'[q] = {}
                    /\ pc'[q] # "idle" => req'[q] \in Inputs
                    /\ \A p \in before'[q]: Ended(p)'
                    /\ wrote'[q] # {} => pc'[q] = "ok" /\ req'[q].op \in Writing
                    /\ ~Ended(q)' => req'[q].op # "access"
                    /\ pc'[q] = "load" => req'[q].op \in {"edit", "delete", "bulk"}
                    /\ pc'[q] \in {"delete", "insert"} => Replaces(q)'
                    /\ \A p \in before'[q]: before'[p] \subseteq before'[q]
  BY DEF Orderly
<1>1. \A p \in Reqs: Ended(p) => Ended(p)'
  BY DEF Moves, Ended, TypeOK, ReviewTypeOK
<1>2. CASE q # r
  BY <1>1, <1>2 DEF Moves, Orderly, Ended, Replaces, TypeOK, ReviewTypeOK
<1>3. CASE q = r
  BY <1>1, <1>3 DEF Moves, Orderly, Ended, Replaces, TypeOK, ReviewTypeOK
<1> QED BY <1>2, <1>3

LEMMA OrderlyInit == Init => TypeOK /\ Orderly
  BY ReviewAssumption, TypesAssumption
     DEF Init, ReviewInit, TypesInit, TypeOK, ReviewTypeOK, TypesTypeOK, Orderly, NoInput, FirstRow, Fields, Levels

LEMMA StepMoves ==
    ASSUME TypeOK, Orderly, [Next]_vars
    PROVE  /\ TypeOK' /\ Orderly'
           /\ \/ \E r \in Reqs: Moves(r) /\ ReviewStep(r) /\ UNCHANGED typeVars
              \/ \E r \in Reqs: Moves(r) /\ TypesStep(r)
              \/ UNCHANGED vars
<1>1. CASE UNCHANGED vars
  BY <1>1 DEF vars, reviewVars, typeVars, TypeOK, ReviewTypeOK, TypesTypeOK, Orderly, Ended, Replaces
<1>2. ASSUME NEW r \in Reqs, ReviewStep(r), UNCHANGED typeVars
      PROVE  TypeOK' /\ Orderly' /\ Moves(r)
  BY <1>2, ReviewMoves, OrderlyStep
<1>3. ASSUME NEW r \in Reqs, TypesStep(r)
      PROVE  TypeOK' /\ Orderly' /\ Moves(r)
  BY <1>3, TypesMoves, OrderlyStep
<1> QED BY <1>1, <1>2, <1>3 DEF Next

\* Every variable has its type.
THEOREM TypeCorrect == Spec => []TypeOK
<1>1. TypeOK /\ Orderly /\ [Next]_vars => (TypeOK /\ Orderly)'
  BY StepMoves
<1> QED BY OrderlyInit, <1>1, PTL DEF Spec

-----------------------------------------------------------------------------
(* Edits: what a request has read is still so, or somebody later wrote it. *)

Overwritten(r, m, f) ==
    \E q \in Reqs \ {r}: m \in wrote[q] /\ f \in DOMAIN Sets(q) /\ Later(q, r)

Fresh ==
    \A r \in Reqs: pc[r] \in {"check", "apply"} /\ req[r].op \in {"edit", "delete"} =>
        \A f \in Fields: LET m == req[r].mapping
                        IN  loaded[r][m][f] = row[m][f] \/ Overwritten(r, m, f)

Kept ==
    \A r \in Reqs: pc[r] = "ok" =>
        \A m \in wrote[r], f \in DOMAIN Sets(r):
            row[m][f] = Sets(r)[f] \/ Overwritten(r, m, f)

\* What the step of q does to the rows.
Writes(q) ==
    \A m \in Mappings, f \in Fields:
        \/ row'[m][f] = row[m][f]
        \/ m \in wrote'[q] /\ f \in DOMAIN Sets(q)

LEMMA SetsFields ==
    ASSUME NEW r \in Reqs, req[r] \in Inputs, req[r].op \in Writing
    PROVE  DOMAIN Sets(r) \subseteq Fields
  BY InputsAssumption DEF Sets, Writing, Fields

LEMMA SetsSame ==
    ASSUME NEW q, req'[q] = req[q]
    PROVE  Sets(q)' = Sets(q)
  BY DEF Sets

LEMMA StaysOverwritten ==
    ASSUME NEW q \in Reqs, Moves(q), TypeOK, Orderly, NEW r \in Reqs, NEW m, NEW f,
           pc[r] # "idle", Overwritten(r, m, f)
    PROVE  Overwritten(r, m, f)'
<1>1. PICK p \in Reqs \ {r}: m \in wrote[p] /\ f \in DOMAIN Sets(p) /\ Later(p, r)
  BY DEF Overwritten
<1>2. p # q /\ req'[p] = req[p] /\ wrote'[p] = wrote[p]
  BY <1>1 DEF Moves, Orderly, Ended
<1>3. before'[r] = before[r]
  BY DEF Moves
<1>4. Sets(p)' = Sets(p)
  BY <1>2, SetsSame
<1> QED BY <1>1, <1>2, <1>3, <1>4 DEF Overwritten, Later

LEMMA OverwrittenNow ==
    ASSUME NEW q \in Reqs, Moves(q), TypeOK, Orderly, NEW r \in Reqs \ {q}, NEW m, NEW f,
           pc[r] # "idle", m \in wrote'[q], m \notin wrote[q] \/ pc[q] = "apply", f \in DOMAIN Sets(q)
    PROVE  Overwritten(r, m, f)'
<1>1. pc[q] = "apply"
  BY DEF Moves, Orderly, Ended
<1>2. req'[q] = req[q] /\ before'[r] = before[r] /\ q \notin before[r]
  BY <1>1 DEF Moves, Orderly, Ended
<1>3. Sets(q)' = Sets(q)
  BY <1>2, SetsSame
<1> QED BY <1>2, <1>3 DEF Overwritten, Later

\* The step of a request that writes.
LEMMA WriterWrites ==
    ASSUME NEW q \in Reqs, TypeOK, Orderly, Fresh, Moves(q),
           WriteObject(q) \/ WriteByIds(q) \/ WriteByScore(q)
    PROVE  /\ Writes(q) /\ pc[q] = "apply" /\ wrote'[q] \subseteq Mappings
           /\ req' = req /\ before' = before
           /\ \A m \in wrote'[q], f \in DOMAIN Sets(q):
                row'[m][f] = Sets(q)[f] \/ Overwritten(q, m, f)
<1> req[q] \in Inputs
  BY DEF WriteObject, WriteByIds, WriteByScore, Orderly
<1>1. CASE WriteObject(q)
  <2> DEFINE m == req[q].mapping
  <2>1. m \in Mappings /\ DOMAIN Sets(q) \subseteq Fields
    BY <1>1, SetsFields, InputsAssumption DEF WriteObject, Writing
  <2>2. /\ wrote' = [wrote EXCEPT ![q] = {m}] /\ req' = req /\ before' = before
        /\ pc[q] = "apply" /\ req[q].op \in {"edit", "delete"}
        /\ row' = [n \in Mappings |-> IF n \in {m} THEN Flush(q, n) ELSE row[n]]
    BY <1>1 DEF WriteObject, Written
  <2>3. wrote'[q] = {m}
    BY <2>2 DEF TypeOK, ReviewTypeOK
  <2>4. Writes(q)
    BY <2>2, <2>3 DEF Writes, Flush
  <2>5. ASSUME NEW f \in DOMAIN Sets(q)
        PROVE  row'[m][f] = Sets(q)[f] \/ Overwritten(q, m, f)
    <3>1. loaded[q][m][f] = row[m][f] \/ Overwritten(q, m, f)
      BY <2>1, <2>2 DEF Fresh
    <3>2. row'[m][f] = IF Sets(q)[f] # loaded[q][m][f] THEN Sets(q)[f] ELSE row[m][f]
      BY <2>1, <2>2 DEF Flush
    <3> QED BY <3>1, <3>2
  <2> QED BY <2>1, <2>2, <2>3, <2>4, <2>5
<1>2. ASSUME NEW rows \in SUBSET Mappings, WriteStatus(q, rows),
             pc[q] = "apply", req[q].op \in {"bulk", "score"}
      PROVE  /\ Writes(q) /\ wrote'[q] \subseteq Mappings
             /\ req' = req /\ before' = before
             /\ \A m \in wrote'[q], f \in DOMAIN Sets(q): row'[m][f] = Sets(q)[f]
  <2>1. DOMAIN Sets(q) = {"status"} /\ Sets(q)["status"] = req[q].data.status
    BY <1>2 DEF Sets
  <2>2. /\ wrote' = [wrote EXCEPT ![q] = rows] /\ req' = req /\ before' = before
        /\ row' = [n \in Mappings |-> IF n \in rows THEN WithStatus(q, n) ELSE row[n]]
    BY <1>2 DEF WriteStatus, Written
  <2>3. wrote'[q] = rows
    BY <2>2 DEF TypeOK, ReviewTypeOK
  <2>4. \A m \in rows: /\ row'[m]["status"] = req[q].data.status
                      /\ \A f \in Fields \ {"status"}: row'[m][f] = row[m][f]
    <3>1. \A m \in rows: DOMAIN row[m] = Fields /\ row'[m] = WithStatus(q, m)
      BY <2>2 DEF TypeOK, ReviewTypeOK
    <3> QED BY <3>1 DEF WithStatus, Fields
  <2>5. \A m \in Mappings \ rows: row'[m] = row[m]
    BY <2>2
  <2>6. Writes(q)
    BY <2>1, <2>3, <2>4, <2>5 DEF Writes
  <2> QED BY <2>1, <2>2, <2>3, <2>4, <2>6 DEF Fields
<1>3. CASE WriteByIds(q)
  <2>1. /\ req[q].ids \in SUBSET Mappings /\ WriteStatus(q, req[q].ids)
        /\ pc[q] = "apply" /\ req[q].op \in {"bulk", "score"}
    BY <1>3, InputsAssumption DEF WriteByIds
  <2> QED BY <1>2, <2>1
<1>4. CASE WriteByScore(q)
  <2>1. PICK rows \in SUBSET Mappings: WriteStatus(q, rows)
    BY <1>4 DEF WriteByScore
  <2>2. pc[q] = "apply" /\ req[q].op \in {"bulk", "score"}
    BY <1>4 DEF WriteByScore
  <2> QED BY <1>2, <2>1, <2>2
<1> QED BY <1>1, <1>3, <1>4

LEMMA EditStep ==
    ASSUME TypeOK, TypeOK', Orderly, Orderly', Fresh, Kept, NEW q \in Reqs, Moves(q), Writes(q),
           \/ /\ pc[q] = "apply" /\ req' = req /\ before' = before
              /\ \A m \in wrote'[q], f \in DOMAIN Sets(q):
                    row'[m][f] = Sets(q)[f] \/ Overwritten(q, m, f)
           \/ row' = row /\ wrote' = wrote,
           \/ LoadRows(q)
           \/ pc'[q] \in {"check", "apply"} /\ pc[q] \in {"check", "apply"} /\ loaded' = loaded
           \/ pc'[q] \in {"check", "apply"} /\ req'[q].op \notin {"edit", "delete"}
           \/ pc'[q] \notin {"check", "apply"}
    PROVE  Fresh' /\ Kept'
<1>1. ASSUME NEW r \in Reqs \ {q}, NEW m \in Mappings, NEW f \in Fields, pc[r] # "idle"
      PROVE  row'[m][f] = row[m][f] \/ Overwritten(r, m, f)'
  <2>1. CASE row' = row
    BY <2>1
  <2>2. CASE pc[q] = "apply" /\ m \in wrote'[q] /\ f \in DOMAIN Sets(q)
    BY <1>1, <2>2, OverwrittenNow
  <2>3. CASE row'[m][f] = row[m][f]
    BY <2>3
  <2> QED BY <2>1, <2>2, <2>3 DEF Writes
<1>2. ASSUME NEW r \in Reqs, pc'[r] \in {"check", "apply"}, req'[r].op \in {"edit", "delete"},
             NEW m \in Mappings, m = req'[r].mapping, NEW f \in Fields
      PROVE  loaded'[r][m][f] = row'[m][f] \/ Overwritten(r, m, f)'
  <2>2. CASE r # q
    <3>1. pc[r] \in {"check", "apply"} /\ req'[r] = req[r] /\ loaded'[r] = loaded[r]
      BY <1>2, <2>2 DEF Moves
    <3>2. loaded[r][m][f] = row[m][f] \/ Overwritten(r, m, f)
      BY <1>2, <3>1 DEF Fresh
    <3>3. row'[m][f] = row[m][f] \/ Overwritten(r, m, f)'
      BY <1>1, <2>2, <3>1
    <3>4. Overwritten(r, m, f) => Overwritten(r, m, f)'
      BY <3>1, StaysOverwritten
    <3> QED BY <3>1, <3>2, <3>3, <3>4
  <2>3. CASE r = q /\ LoadRows(q)
    <3>1. loaded'[q] = [n \in Named(q) |-> row[n]] /\ row' = row /\ req' = req
      BY <2>3 DEF LoadRows, TypeOK, ReviewTypeOK
    <3>2. m \in Named(q)
      BY <1>2, <2>3, <3>1 DEF Named
    <3> QED BY <2>3, <3>1, <3>2
  <2>4. CASE r = q /\ pc[q] \in {"check", "apply"} /\ loaded' = loaded
    <3>1. req'[q] = req[q]
      BY <2>4 DEF Moves
    <3>2. loaded[q][m][f] = row[m][f] \/ Overwritten(q, m, f)
      BY <1>2, <2>4, <3>1 DEF Fresh
    <3>3. wrote'[q] = {}
      BY <1>2, <2>4 DEF Moves, Orderly
    <3>4. row'[m][f] = row[m][f]
      BY <3>3 DEF Writes
    <3>5. Overwritten(q, m, f) => Overwritten(q, m, f)'
      BY <2>4, StaysOverwritten
    <3> QED BY <2>4, <3>1, <3>2, <3>4, <3>5
  <2> QED BY <1>2, <2>2, <2>3, <2>4
<1>3. ASSUME NEW r \in Reqs, pc'[r] = "ok", NEW m \in wrote'[r], NEW f \in DOMAIN Sets(r)'
      PROVE  row'[m][f] = Sets(r)'[f] \/ Overwritten(r, m, f)'
  <2>1. m \in Mappings
    BY DEF TypeOK, ReviewTypeOK
  <2>2. CASE r # q
    <3>1. pc[r] = "ok" /\ req'[r] = req[r] /\ wrote'[r] = wrote[r]
      BY <1>3, <2>2 DEF Moves
    <3>2. Sets(r)' = Sets(r) /\ f \in Fields
      BY <1>3, <3>1, SetsSame, SetsFields DEF Orderly
    <3>3. row[m][f] = Sets(r)[f] \/ Overwritten(r, m, f)
      BY <1>3, <3>1, <3>2 DEF Kept
    <3> QED BY <1>1, <2>1, <2>2, <3>1, <3>2, <3>3, StaysOverwritten
  <2>3. CASE r = q
    <3>1. pc[q] = "apply" /\ req' = req
      BY <1>3, <2>3 DEF Moves, Orderly, Ended
    <3>2. Sets(q)' = Sets(q)
      BY <3>1, SetsSame
    <3>3. row'[m][f] = Sets(q)[f] \/ Overwritten(q, m, f)
      BY <1>3, <2>3, <3>1, <3>2 DEF Moves, Orderly
    <3>4. Overwritten(q, m, f) => Overwritten(q, m, f)'
      BY <3>1, StaysOverwritten
    <3> QED BY <2>3, <3>2, <3>3, <3>4
  <2> QED BY <2>2, <2>3
<1>4. \A r \in Reqs: pc'[r] \in {"check", "apply"} /\ req'[r].op \in {"edit", "delete"} =>
            req'[r].mapping \in Mappings
  BY InputsAssumption DEF Orderly
<1>5. Fresh'
  BY <1>2, <1>4 DEF Fresh
<1>6. Kept'
  BY <1>3 DEF Kept
<1> QED BY <1>5, <1>6

EditShape(q) ==
    \/ LoadRows(q)
    \/ pc'[q] \in {"check", "apply"} /\ pc[q] \in {"check", "apply"} /\ loaded' = loaded
    \/ pc'[q] \in {"check", "apply"} /\ req'[q].op \notin {"edit", "delete"}
    \/ pc'[q] \notin {"check", "apply"}

LEMMA TypesShape ==
    ASSUME TypeOK, NEW q \in Reqs, TypesStep(q)
    PROVE  row' = row /\ wrote' = wrote /\ access' = access /\ EditShape(q)
<1> USE DEF TypeOK, ReviewTypeOK, EditShape
<1>1. CASE \E i \in Inputs: SaveTypes(q, i) \/ ClearTypes(q, i) \/ Retype(q, i)
  BY <1>1 DEF SaveTypes, ClearTypes, Retype, Start, Goto
<1>2. CASE BeginDelete(q)
  BY <1>2 DEF BeginDelete, Goto
<1>3. CASE DeleteRows(q)
  BY <1>3 DEF DeleteRows, Goto
<1>4. CASE CommitTypes(q)
  BY <1>4 DEF CommitTypes, Goto
<1>5. CASE WriteType(q)
  BY <1>5 DEF WriteType, Goto
<1>6. CASE RollBackTypes(q)
  BY <1>6 DEF RollBackTypes, Goto
<1> QED BY <1>1, <1>2, <1>3, <1>4, <1>5, <1>6 DEF TypesStep

LEMMA ReviewShape ==
    ASSUME TypeOK, NEW q \in Reqs, ReviewStep(q)
    PROVE  /\ EditShape(q)
           /\ \/ row' = row /\ wrote' = wrote
              \/ WriteObject(q) \/ WriteByIds(q) \/ WriteByScore(q)
<1> USE DEF TypeOK, ReviewTypeOK, EditShape
<1>1. CASE \E i \in Inputs: \/ UpdateMapping(q, i) \/ DeleteMapping(q, i)
                            \/ BulkUpdate(q, i) \/ BulkByScore(q, i) \/ ListMappings(q, i)
  BY <1>1 DEF UpdateMapping, DeleteMapping, BulkUpdate, BulkByScore, ListMappings, Start, Goto
<1>2. CASE \E i \in Inputs: SetAccess(q, i)
  BY <1>2 DEF SetAccess, Goto
<1>3. CASE LoadRows(q)
  BY <1>3 DEF LoadRows
<1>4. CASE CheckAccess(q)
  BY <1>4 DEF CheckAccess, Goto
<1>5. CASE WriteObject(q) \/ WriteByIds(q) \/ WriteByScore(q)
  BY <1>5 DEF WriteObject, WriteByIds, WriteByScore, WriteStatus, Written, Goto
<1>6. CASE WriteFails(q)
  BY <1>6 DEF WriteFails, Goto
<1>7. CASE ReadPage(q)
  BY <1>7 DEF ReadPage, Goto
<1> QED BY <1>1, <1>2, <1>3, <1>4, <1>5, <1>6, <1>7 DEF ReviewStep

LEMMA EditsStep ==
    ASSUME TypeOK, Orderly, Fresh, Kept, [Next]_vars
    PROVE  Fresh' /\ Kept'
<1>0. TypeOK' /\ Orderly'
  BY StepMoves
<1>1. CASE UNCHANGED vars
  BY <1>1 DEF vars, reviewVars, Fresh, Kept, Overwritten, Sets, Later
<1>2. ASSUME NEW q \in Reqs, Moves(q), row' = row /\ wrote' = wrote, EditShape(q)
      PROVE  Fresh' /\ Kept'
  BY <1>0, <1>2, EditStep DEF EditShape, Writes
<1>3. ASSUME NEW q \in Reqs, Moves(q), EditShape(q), WriteObject(q) \/ WriteByIds(q) \/ WriteByScore(q)
      PROVE  Fresh' /\ Kept'
  BY <1>0, <1>3, WriterWrites, EditStep DEF EditShape
<1> QED BY <1>1, <1>2, <1>3, StepMoves, TypesShape, ReviewShape

\* An answered edit, deletion or status change stays until a request that was
\* not over when it began writes the same field.
THEOREM EditsKept == Spec => []EditsAreKept
<1>1. Init => Fresh /\ Kept
  BY DEF Init, ReviewInit, Fresh, Kept
<1>2. TypeOK /\ Orderly /\ Fresh /\ Kept /\ [Next]_vars => (TypeOK /\ Orderly /\ Fresh /\ Kept)'
  BY StepMoves, EditsStep
<1>3. Kept => EditsAreKept
  BY DEF Kept, EditsAreKept, Overwritten
<1> QED BY OrderlyInit, <1>1, <1>2, <1>3, PTL DEF Spec

-----------------------------------------------------------------------------
(* Access: who was allowed was not revoked before he began.                *)

\* The request x gave or took the access of u to p.
Gives(x, u, p) == req[x].op = "access" /\ req[x].user = u /\ req[x].project = p

\* What is committed was set last, or by a request after it.
AccessIsSet ==
    \A q \in Reqs: req[q].op = "access" =>
        \E g \in Reqs:
            /\ Gives(g, req[q].user, req[q].project)
            /\ req[g].role = access[req[q].project][req[q].user]
            /\ g = q \/ Later(g, q)

NotRevoked(r, p) ==
    \A q \in before[r]: Gives(q, req[r].user, p) /\ req[q].role # "editor" =>
        \E g \in Reqs: Gives(g, req[r].user, p) /\ req[g].role = "editor" /\ Later(g, q)

\* The projects a request will write to.
Targets(r) == IF req[r].op = "score" THEN {req[r].project} ELSE {ProjectOf[m]: m \in Named(r)}

Allowed ==
    \A r \in Reqs:
        /\ pc[r] = "check" /\ req[r].op \in Writing => \A p \in Targets(r) \ need[r]: NotRevoked(r, p)
        /\ pc[r] = "apply" /\ req[r].op \in Writing => \A p \in Targets(r): NotRevoked(r, p)
        /\ \A m \in wrote[r]: NotRevoked(r, ProjectOf[m])

LEMMA SetBefore ==
    ASSUME TypeOK, Orderly, NEW q \in Reqs, Moves(q), NEW x \in Reqs, req[x].op = "access"
    PROVE  x # q /\ req'[x] = req[x] /\ before'[x] = before[x] /\ Ended(x)
<1>1. Ended(x)
  BY DEF Orderly
<1> QED BY <1>1 DEF Moves

LEMMA StaysNotRevoked ==
    ASSUME TypeOK, Orderly, NEW q \in Reqs, Moves(q), NEW r \in Reqs, NEW p,
           pc[r] # "idle", NotRevoked(r, p)
    PROVE  NotRevoked(r, p)'
<1>1. req'[r] = req[r] /\ before'[r] = before[r]
  BY DEF Moves
<1>2. SUFFICES ASSUME NEW x \in before[r], Gives(x, req[r].user, p)', req'[x].role # "editor"
               PROVE  \E g \in Reqs: /\ Gives(g, req[r].user, p)'
                                     /\ req'[g].role = "editor" /\ Later(g, x)'
  BY <1>1 DEF NotRevoked, Gives, Later
<1>3. x \in Reqs /\ x # q
  BY DEF Orderly, Moves, TypeOK, ReviewTypeOK
<1>4. req'[x] = req[x] /\ before'[x] = before[x]
  BY <1>3 DEF Moves
<1>5. PICK g \in Reqs: Gives(g, req[r].user, p) /\ req[g].role = "editor" /\ Later(g, x)
  BY <1>1, <1>2, <1>4 DEF NotRevoked, Gives
<1>6. req'[g] = req[g]
  BY <1>5, SetBefore DEF Gives
<1> QED BY <1>1, <1>4, <1>5, <1>6 DEF Gives, Later

LEMMA AccessSetStep ==
    ASSUME TypeOK, TypeOK', Orderly, Orderly', AccessIsSet, NEW q \in Reqs, Moves(q),
           \/ \E i \in Inputs: SetAccess(q, i)
           \/ access' = access /\ req'[q].op # "access"
    PROVE  AccessIsSet'
<1>1. ASSUME NEW x \in Reqs \ {q}, req'[x].op = "access"
      PROVE  \E g \in Reqs:
                /\ Gives(g, req[x].user, req[x].project)'
                /\ req'[g].role = access'[req[x].project][req[x].user]
                /\ g = x \/ Later(g, x)'
  <2>1. req'[x] = req[x] /\ before'[x] = before[x]
    BY DEF Moves
  <2>2. PICK g \in Reqs: /\ Gives(g, req[x].user, req[x].project)
                         /\ req[g].role = access[req[x].project][req[x].user]
                         /\ g = x \/ Later(g, x)
    BY <1>1, <2>1 DEF AccessIsSet
  <2>3. req'[g] = req[g]
    BY <2>2, SetBefore DEF Gives
  <2>4. CASE access'[req[x].project][req[x].user] = access[req[x].project][req[x].user]
    BY <2>1, <2>2, <2>3, <2>4 DEF Gives, Later
  <2>5. CASE /\ Gives(q, req[x].user, req[x].project)'
             /\ req'[q].role = access'[req[x].project][req[x].user]
    <3>1. q \notin before[x]
      BY DEF Orderly, Moves
    <3> QED BY <2>1, <2>5, <3>1 DEF Later
  <2>6. CASE \E i \in Inputs: SetAccess(q, i)
    <3>1. PICK i \in Inputs: SetAccess(q, i)
      BY <2>6
    <3>2. /\ access' = [access EXCEPT ![i.project][i.user] = i.role]
          /\ i.op = "access" /\ req'[q] = i /\ i.project \in Projects /\ i.user \in Users
      BY <3>1, InputsAssumption DEF SetAccess, TypeOK, ReviewTypeOK
    <3>3. x \in Reqs /\ req[x] \in Inputs /\ req[x].op = "access"
      BY <1>1, <2>1, SetBefore DEF Orderly, NoInput
    <3>4. req[x].project \in Projects /\ req[x].user \in Users
      BY <3>3, InputsAssumption
    <3>5. CASE i.project = req[x].project /\ i.user = req[x].user
      <4>1. access'[req[x].project][req[x].user] = i.role
        BY <3>2, <3>4, <3>5 DEF TypeOK, ReviewTypeOK
      <4> QED BY <2>1, <2>5, <3>2, <3>5, <4>1 DEF Gives
    <3>6. CASE ~(i.project = req[x].project /\ i.user = req[x].user)
      <4>1. access'[req[x].project][req[x].user] = access[req[x].project][req[x].user]
        BY <3>2, <3>4, <3>6 DEF TypeOK, ReviewTypeOK
      <4> QED BY <2>4, <4>1
    <3> QED BY <3>5, <3>6
  <2> QED BY <2>4, <2>6
<1>2. ASSUME req'[q].op = "access"
      PROVE  /\ Gives(q, req[q].user, req[q].project)'
             /\ req'[q].role = access'[req'[q].project][req'[q].user]
  <2>1. PICK i \in Inputs: SetAccess(q, i)
    BY <1>2
  <2>2. /\ access' = [access EXCEPT ![i.project][i.user] = i.role]
        /\ i.op = "access" /\ req'[q] = i /\ i.project \in Projects /\ i.user \in Users
    BY <2>1, InputsAssumption DEF SetAccess, TypeOK, ReviewTypeOK
  <2> QED BY <2>2 DEF Gives, TypeOK, ReviewTypeOK
<1> QED BY <1>1, <1>2 DEF AccessIsSet, Moves

LEMMA SetWhileChecking ==
    ASSUME TypeOK, Orderly, AccessIsSet, NEW r \in Reqs, NEW p,
           ~(Levels[access[p][req[r].user]] < Levels.editor), p \in Projects
    PROVE  NotRevoked(r, p)
<1> SUFFICES ASSUME NEW q \in before[r], Gives(q, req[r].user, p), req[q].role # "editor"
             PROVE  \E g \in Reqs: Gives(g, req[r].user, p) /\ req[g].role = "editor" /\ Later(g, q)
  BY DEF NotRevoked
<1>1. q \in Reqs /\ req[q] \in Inputs /\ req[r].user \in Users
  BY InputsAssumption DEF TypeOK, ReviewTypeOK, Orderly, NoInput, Gives
<1>2. access[p][req[r].user] = "editor"
  <2>1. access[p][req[r].user] \in {"none", "viewer", "editor"}
    BY <1>1 DEF TypeOK, ReviewTypeOK, Levels
  <2> QED BY <2>1 DEF Levels
<1>3. PICK g \in Reqs: /\ Gives(g, req[q].user, req[q].project)
                       /\ req[g].role = access[req[q].project][req[q].user]
                       /\ g = q \/ Later(g, q)
  BY <1>1 DEF AccessIsSet, Gives
<1> QED BY <1>2, <1>3 DEF Gives

LEMMA AllowedStep ==
    ASSUME TypeOK, TypeOK', Orderly, Orderly', AccessIsSet, Allowed, [Next]_vars
    PROVE  Allowed'
<1>1. CASE UNCHANGED vars
  BY <1>1 DEF vars, reviewVars, Allowed, NotRevoked, Targets, Named, Gives, Later
<1>2. ASSUME NEW q \in Reqs, Moves(q), NEW r \in Reqs \ {q}
      PROVE  /\ pc'[r] = "check" /\ req'[r].op \in Writing =>
                    \A p \in Targets(r)' \ need'[r]: NotRevoked(r, p)'
             /\ pc'[r] = "apply" /\ req'[r].op \in Writing => \A p \in Targets(r)': NotRevoked(r, p)'
             /\ \A m \in wrote'[r]: NotRevoked(r, ProjectOf[m])'
  <2>1. /\ pc'[r] = pc[r] /\ req'[r] = req[r] /\ need'[r] = need[r] /\ wrote'[r] = wrote[r]
        /\ Targets(r)' = Targets(r)
    BY <1>2 DEF Moves, Targets, Named
  <2>2. \A p: pc[r] # "idle" /\ NotRevoked(r, p) => NotRevoked(r, p)'
    BY <1>2, StaysNotRevoked
  <2>3. wrote[r] # {} => pc[r] # "idle"
    BY DEF Orderly
  <2> QED BY <2>1, <2>2, <2>3 DEF Allowed
<1>3. ASSUME NEW q \in Reqs, Moves(q), ReviewStep(q)
      PROVE  /\ pc'[q] = "check" /\ req'[q].op \in Writing =>
                    \A p \in Targets(q)' \ need'[q]: NotRevoked(q, p)'
             /\ pc'[q] = "apply" /\ req'[q].op \in Writing => \A p \in Targets(q)': NotRevoked(q, p)'
             /\ \A m \in wrote'[q]: NotRevoked(q, ProjectOf[m])'
  <2>1. CASE pc[q] = "idle"
    <3>1. wrote'[q] = {}
      BY <1>3, <2>1 DEF Moves, Orderly
    <3>2. \/ pc'[q] \notin {"check", "apply"}
          \/ req'[q].op = "score" /\ need'[q] = {req'[q].project} /\ pc'[q] = "check"
          \/ req'[q].op = "list" /\ pc'[q] = "check"
      <4>1. \/ \E i \in Inputs: \/ UpdateMapping(q, i) \/ DeleteMapping(q, i)
                                \/ BulkUpdate(q, i) \/ SetAccess(q, i)
            \/ \E i \in Inputs: BulkByScore(q, i)
            \/ \E i \in Inputs: ListMappings(q, i)
        BY <1>3, <2>1 DEF ReviewStep, LoadRows, CheckAccess, WriteObject, WriteByIds, WriteByScore,
           ReadPage, WriteFails
      <4>2. CASE \E i \in Inputs: \/ UpdateMapping(q, i) \/ DeleteMapping(q, i)
                                  \/ BulkUpdate(q, i) \/ SetAccess(q, i)
        BY <4>2 DEF UpdateMapping, DeleteMapping, BulkUpdate, SetAccess, Start, Goto, TypeOK, ReviewTypeOK
      <4>3. CASE \E i \in Inputs: BulkByScore(q, i)
        BY <4>3 DEF BulkByScore, Start, Goto, TypeOK, ReviewTypeOK
      <4>4. CASE \E i \in Inputs: ListMappings(q, i)
        BY <4>4 DEF ListMappings, Start, Goto, TypeOK, ReviewTypeOK
      <4> QED BY <4>1, <4>2, <4>3, <4>4
    <3>3. pc'[q] = "check" /\ req'[q].op \in Writing => Targets(q)' = need'[q]
      BY <3>2 DEF Targets, Writing
    <3> QED BY <3>1, <3>2, <3>3
  <2> SUFFICES ASSUME pc[q] # "idle" PROVE
             /\ pc'[q] = "check" /\ req'[q].op \in Writing =>
                    \A p \in Targets(q)' \ need'[q]: NotRevoked(q, p)'
             /\ pc'[q] = "apply" /\ req'[q].op \in Writing => \A p \in Targets(q)': NotRevoked(q, p)'
             /\ \A m \in wrote'[q]: NotRevoked(q, ProjectOf[m])'
    BY <2>1
  <2>2. /\ req'[q] = req[q] /\ Targets(q)' = Targets(q) /\ wrote[q] = {}
        /\ \A p: NotRevoked(q, p) => NotRevoked(q, p)'
    <3>1. req'[q] = req[q] /\ wrote[q] = {}
      BY <1>3 DEF Moves, Orderly, Ended
    <3>2. Targets(q)' = Targets(q)
      BY <3>1 DEF Targets, Named
    <3> QED BY <1>3, <3>1, <3>2, StaysNotRevoked
  <2>3. CASE LoadRows(q)
    <3>1. req[q].op \in {"edit", "delete", "bulk"}
      BY <2>3 DEF LoadRows, Orderly
    <3>2. /\ need'[q] = Targets(q) /\ wrote' = wrote
          /\ pc'[q] = "apply" => Named(q) = {}
      <4>1. need' = [need EXCEPT ![q] = {ProjectOf[m]: m \in Named(q)}] /\ wrote' = wrote
        BY <2>3 DEF LoadRows
      <4>2. Targets(q) = {ProjectOf[m]: m \in Named(q)}
        BY <3>1 DEF Targets
      <4>3. pc'[q] = "apply" => Named(q) = {}
        BY <2>3 DEF LoadRows, Goto, TypeOK, ReviewTypeOK
      <4> QED BY <4>1, <4>2, <4>3 DEF TypeOK, ReviewTypeOK
    <3>3. Named(q) = {} => Targets(q) = {}
      BY <3>1 DEF Targets
    <3> QED BY <2>2, <3>2, <3>3
  <2>4. CASE CheckAccess(q)
    <3>1. PICK p \in need[q]:
            /\ need' = [need EXCEPT ![q] = @ \ {p}]
            /\ Goto(q, IF Levels[access[p][req[q].user]] < Needed(q) THEN "refused"
                       ELSE IF need'[q] = {} THEN "apply" ELSE "check")
      BY <2>4 DEF CheckAccess
    <3>2. need'[q] = need[q] \ {p} /\ p \in Projects /\ wrote' = wrote /\ pc[q] = "check"
      BY <2>4, <3>1 DEF CheckAccess, TypeOK, ReviewTypeOK
    <3>3. CASE Levels[access[p][req[q].user]] < Needed(q)
      <4>1. pc'[q] = "refused"
        BY <3>1, <3>3 DEF Goto, TypeOK, ReviewTypeOK
      <4> QED BY <2>2, <3>2, <4>1
    <3>4. CASE ~(Levels[access[p][req[q].user]] < Needed(q))
      <4>1. req[q].op \in Writing => NotRevoked(q, p)
        BY <3>2, <3>4, SetWhileChecking DEF Needed, Writing
      <4>2. pc'[q] = "apply" => need'[q] = {}
        BY <3>1, <3>4 DEF Goto, TypeOK, ReviewTypeOK
      <4>3. req[q].op \in Writing => \A x \in Targets(q) \ need'[q]: NotRevoked(q, x)
        BY <3>2, <4>1 DEF Allowed
      <4> QED BY <2>2, <3>2, <4>2, <4>3
    <3> QED BY <3>3, <3>4
  <2>5. CASE WriteObject(q) \/ WriteByIds(q) \/ WriteByScore(q)
    <3>1. pc[q] = "apply" /\ pc'[q] = "ok" /\ req[q].op \in Writing
      BY <2>5 DEF WriteObject, WriteByIds, WriteByScore, WriteStatus, Written, Goto, Writing, TypeOK, ReviewTypeOK
    <3>2. \A m \in wrote'[q]: ProjectOf[m] \in Targets(q)
      BY <2>5 DEF WriteObject, WriteByIds, WriteByScore, WriteStatus, Written, Targets, Named, TypeOK, ReviewTypeOK
    <3> QED BY <2>2, <3>1, <3>2 DEF Allowed
  <2>6. CASE WriteFails(q)
    BY <2>2, <2>6 DEF WriteFails, Goto, TypeOK, ReviewTypeOK
  <2>7. CASE ReadPage(q)
    BY <2>2, <2>7 DEF ReadPage, Goto, TypeOK, ReviewTypeOK
  <2>8. ReviewStep(q) => LoadRows(q) \/ CheckAccess(q) \/ WriteObject(q) \/ WriteByIds(q)
                            \/ WriteByScore(q) \/ ReadPage(q) \/ WriteFails(q)
    BY DEF ReviewStep, UpdateMapping, DeleteMapping, BulkUpdate, BulkByScore, ListMappings,
       SetAccess, Start
  <2> QED BY <1>3, <2>3, <2>4, <2>5, <2>6, <2>7, <2>8
<1>4. ASSUME NEW q \in Reqs, Moves(q), TypesStep(q)
      PROVE  /\ pc'[q] = "check" /\ req'[q].op \in Writing =>
                    \A p \in Targets(q)' \ need'[q]: NotRevoked(q, p)'
             /\ pc'[q] = "apply" /\ req'[q].op \in Writing => \A p \in Targets(q)': NotRevoked(q, p)'
             /\ \A m \in wrote'[q]: NotRevoked(q, ProjectOf[m])'
  <2>1. wrote'[q] = {}
    BY <1>4, TypesShape DEF Moves, Orderly, Ended
  <2>2. pc'[q] \in {"check", "apply"} => req'[q].op \notin Writing
    <3>1. CASE \E i \in Inputs: SaveTypes(q, i) \/ ClearTypes(q, i) \/ Retype(q, i)
      BY <3>1 DEF SaveTypes, ClearTypes, Retype, Start, Writing, TypeOK, ReviewTypeOK
    <3>2. CASE \/ BeginDelete(q) \/ DeleteRows(q) \/ CommitTypes(q) \/ WriteType(q)
               \/ RollBackTypes(q)
      BY <3>2 DEF BeginDelete, DeleteRows, CommitTypes, WriteType, RollBackTypes, Goto, TypeOK, ReviewTypeOK
    <3> QED BY <1>4, <3>1, <3>2 DEF TypesStep
  <2> QED BY <2>1, <2>2
<1> QED BY <1>1, <1>2, <1>3, <1>4, StepMoves DEF Allowed

LEMMA AccessSetNext ==
    ASSUME TypeOK, Orderly, AccessIsSet, [Next]_vars
    PROVE  AccessIsSet'
<1>0. TypeOK' /\ Orderly'
  BY StepMoves
<1>1. CASE UNCHANGED vars
  BY <1>1 DEF vars, reviewVars, AccessIsSet, Gives, Later
<1>2. ASSUME NEW q \in Reqs, Moves(q),
             (ReviewStep(q) /\ ~\E i \in Inputs: SetAccess(q, i)) \/ TypesStep(q)
      PROVE  access' = access /\ req'[q].op # "access"
  <2>1. CASE TypesStep(q)
    <3>1. CASE \E i \in Inputs: SaveTypes(q, i) \/ ClearTypes(q, i) \/ Retype(q, i)
      BY <3>1 DEF SaveTypes, ClearTypes, Retype, Start, TypeOK, ReviewTypeOK
    <3>2. CASE \/ BeginDelete(q) \/ DeleteRows(q) \/ CommitTypes(q) \/ WriteType(q)
               \/ RollBackTypes(q)
      BY <1>2, <3>2 DEF BeginDelete, DeleteRows, CommitTypes, WriteType, RollBackTypes,
            Moves, Orderly
    <3> QED BY <2>1, <3>1, <3>2 DEF TypesStep
  <2>2. CASE ReviewStep(q) /\ ~\E i \in Inputs: SetAccess(q, i)
    <3>1. CASE \E i \in Inputs: \/ UpdateMapping(q, i) \/ DeleteMapping(q, i)
                                \/ BulkUpdate(q, i) \/ BulkByScore(q, i) \/ ListMappings(q, i)
      BY <3>1 DEF UpdateMapping, DeleteMapping, BulkUpdate, BulkByScore, ListMappings, Start, TypeOK, ReviewTypeOK
    <3>2. CASE \/ LoadRows(q) \/ CheckAccess(q) \/ WriteObject(q) \/ WriteByIds(q)
               \/ WriteByScore(q) \/ ReadPage(q) \/ WriteFails(q)
      BY <1>2, <3>2 DEF LoadRows, CheckAccess, WriteObject, WriteByIds, WriteByScore, WriteStatus,
            Written, ReadPage, WriteFails, Moves, Orderly
    <3> QED BY <2>2, <3>1, <3>2 DEF ReviewStep
  <2> QED BY <1>2, <2>1, <2>2
<1>3. ASSUME NEW q \in Reqs, Moves(q), ReviewStep(q) \/ TypesStep(q)
      PROVE  AccessIsSet'
  BY <1>0, <1>2, <1>3, AccessSetStep
<1> QED BY <1>1, <1>3, StepMoves

\* Who lost edit access to a project before his request began writes nothing
\* there, unless somebody gave it back.
THEOREM RevokedNeverWrites == Spec => []RevokedCannotWrite
<1> DEFINE I == TypeOK /\ Orderly /\ AccessIsSet /\ Allowed
<1>1. Init => AccessIsSet /\ Allowed
  BY DEF Init, ReviewInit, AccessIsSet, Allowed, NoInput
<1>2. I /\ [Next]_vars => I'
  BY StepMoves, AccessSetNext, AllowedStep
<1>3. I => RevokedCannotWrite
  <2> SUFFICES ASSUME I, NEW r \in Reqs, NEW m \in wrote[r], NEW q \in before[r],
                      Gives(q, req[r].user, ProjectOf[m]), req[q].role # "editor"
               PROVE  \E g \in Reqs: /\ Gives(g, req[r].user, ProjectOf[m])
                                     /\ req[g].role = "editor" /\ Later(g, q)
    BY DEF RevokedCannotWrite, Gives
  <2> QED BY DEF Allowed, NotRevoked
<1> QED BY OrderlyInit, <1>1, <1>2, <1>3, PTL DEF Spec

-----------------------------------------------------------------------------
(* The table of account types.                                             *)

\* Rows are named by the save that inserted them, and that has been answered.
Answered(id) == id[1] \in Reqs => pc[id[1]] = "ok"
NamesFresh ==
    /\ \A id \in DOMAIN types: Answered(id)
    /\ \A r \in Reqs: \A id \in victims[r] \union held[r]: Answered(id)

\* Who is about to delete or has deleted rows does so in its own project.
OwnRows ==
    \A r \in Reqs:
        /\ pc[r] \in {"delete", "insert"} => Replaces(r)
        /\ pc[r] = "delete" => \A id \in victims[r] \intersect DOMAIN types:
                                    types[id].project = req[r].project
        /\ \A id \in held[r] \intersect DOMAIN types: types[id].project = req[r].project

\* Replacements answered that were not over when r began, and their rows.
OthersOf(r) ==
    {q \in Reqs \ {r}: /\ pc[q] = "ok" /\ Replaces(q)
                       /\ req[q].project = req[r].project /\ Later(q, r)}
LaterRows(r) == UNION {NewIds(q): q \in OthersOf(r)}

\* What a replacement does not delete was inserted by a later one.
TableOf(r) == RowsOf(req[r].project)
CoveredBy(r) ==
    Replaces(r) =>
        /\ pc[r] = "delete" => TableOf(r) \subseteq victims[r] \union LaterRows(r)
        /\ pc[r] = "insert" => TableOf(r) \subseteq held[r] \union LaterRows(r)
        /\ pc[r] = "ok" => /\ TableOf(r) \subseteq NewIds(r) \union LaterRows(r)
                           /\ OthersOf(r) = {} => NewIds(r) \subseteq TableOf(r)
Covered == \A r \in Reqs: CoveredBy(r)

TypesInv == NamesFresh /\ OwnRows /\ Covered

\* The step leaves every row where it is, if not as it is.
TypesStay ==
    DOMAIN types' = DOMAIN types /\ \A id \in DOMAIN types: types'[id].project = types[id].project

LEMMA StayRows == ASSUME TypesStay, NEW p PROVE RowsOf(p)' = RowsOf(p)
  BY DEF TypesStay, RowsOf

LEMMA LaterGrows ==
    ASSUME TypeOK, Orderly, NEW q \in Reqs, Moves(q), NEW r \in Reqs, pc[r] # "idle"
    PROVE  /\ OthersOf(r) \subseteq OthersOf(r)' /\ LaterRows(r) \subseteq LaterRows(r)'
           /\ NewIds(r)' = NewIds(r)
<1>1. req'[r] = req[r] /\ before'[r] = before[r] /\ NewIds(r)' = NewIds(r)
  BY DEF Moves, NewIds
<1>2. ASSUME NEW x \in OthersOf(r)
      PROVE  x \in OthersOf(r)' /\ NewIds(x)' = NewIds(x)
  <2>1. x \in Reqs \ {r, q} /\ pc[x] = "ok"
    BY DEF OthersOf, Moves, Ended
  <2>2. pc'[x] = pc[x] /\ req'[x] = req[x]
    BY <2>1 DEF Moves
  <2> QED BY <1>1, <2>1, <2>2 DEF OthersOf, Replaces, Later, NewIds
<1>3. LaterRows(r) \subseteq LaterRows(r)'
  BY <1>2 DEF LaterRows
<1> QED BY <1>1, <1>2, <1>3

\* Steps that change no row's project, for the requests that do not move.
LEMMA StayOthers ==
    ASSUME TypeOK, Orderly, TypesInv, NEW q \in Reqs, Moves(q), TypesMove(q), TypesStay,
           NEW r \in Reqs \ {q}
    PROVE  CoveredBy(r)'
<1> SUFFICES ASSUME Replaces(r)' PROVE CoveredBy(r)'
  BY DEF CoveredBy
<1>1. /\ pc'[r] = pc[r] /\ req'[r] = req[r] /\ victims'[r] = victims[r] /\ held'[r] = held[r]
      /\ Replaces(r)
  BY DEF Moves, TypesMove, Replaces
<1>2. pc[r] # "idle"
  BY <1>1 DEF Orderly, Replaces, NoInput
<1>3. TableOf(r)' = TableOf(r)
  BY <1>1, StayRows DEF RowsOf, TypesStay, TableOf
<1>4. CoveredBy(r)
  BY DEF TypesInv, Covered
<1>5. /\ OthersOf(r) \subseteq OthersOf(r)' /\ LaterRows(r) \subseteq LaterRows(r)'
      /\ NewIds(r)' = NewIds(r)
  BY <1>2, LaterGrows
<1>6. CASE pc[r] = "delete"
  <2>1. TableOf(r) \subseteq victims[r] \union LaterRows(r)
    BY <1>1, <1>4, <1>6 DEF CoveredBy
  <2>2. TableOf(r)' \subseteq victims'[r] \union LaterRows(r)'
    BY <1>1, <1>3, <1>5, <2>1
  <2> QED BY <1>1, <1>6, <2>2 DEF CoveredBy
<1>7. CASE pc[r] = "insert"
  <2>1. TableOf(r) \subseteq held[r] \union LaterRows(r)
    BY <1>1, <1>4, <1>7 DEF CoveredBy
  <2>2. TableOf(r)' \subseteq held'[r] \union LaterRows(r)'
    BY <1>1, <1>3, <1>5, <2>1
  <2> QED BY <1>1, <1>7, <2>2 DEF CoveredBy
<1>8. CASE pc[r] = "ok"
  <2>1. TableOf(r) \subseteq NewIds(r) \union LaterRows(r)
    BY <1>1, <1>4, <1>8 DEF CoveredBy
  <2>2. TableOf(r)' \subseteq NewIds(r)' \union LaterRows(r)'
    BY <1>3, <1>5, <2>1
  <2>3. ASSUME OthersOf(r)' = {} PROVE NewIds(r)' \subseteq TableOf(r)'
    <3>1. OthersOf(r) = {}
      BY <1>5, <2>3
    <3>2. NewIds(r) \subseteq TableOf(r)
      BY <1>1, <1>4, <1>8, <3>1 DEF CoveredBy
    <3> QED BY <1>3, <1>5, <3>2
  <2> QED BY <1>1, <1>8, <2>2, <2>3 DEF CoveredBy
<1> QED BY <1>1, <1>6, <1>7, <1>8 DEF CoveredBy

LEMMA NewIdsNamed ==
    ASSUME NEW r, NEW id \in NewIds(r)
    PROVE  id[1] = r /\ req[r].op = "replace"
  BY DEF NewIds

\* A commit takes what it holds out of the table and puts its own rows in.
LEMMA CommitTable ==
    ASSUME TypeOK, Orderly, TypesInv, NEW q \in Reqs, CommitTypes(q)
    PROVE  /\ DOMAIN types' = (DOMAIN types \ held[q]) \union NewIds(q)
           /\ NewIds(q) \intersect DOMAIN types = {}
           /\ \A id \in NewIds(q): types'[id].project = req[q].project
           /\ \A id \in DOMAIN types \ held[q]: types'[id].project = types[id].project
           /\ pc[q] = "insert" /\ pc'[q] = "ok" /\ req' = req /\ before' = before
           /\ held'[q] = {} /\ Replaces(q)
<1>1. types' = Replaced(q) /\ pc[q] = "insert" /\ req' = req /\ before' = before
  BY DEF CommitTypes
<1>2. pc'[q] = "ok" /\ held'[q] = {}
  BY DEF CommitTypes, Goto, TypeOK, ReviewTypeOK, TypesTypeOK
<1>3. NewIds(q) \intersect DOMAIN types = {}
  BY <1>1, NewIdsNamed DEF TypesInv, NamesFresh, Answered
<1>4. \A id \in NewIds(q): NewRow(q, id).project = req[q].project
  BY DEF NewRow
<1>5. Replaces(q)
  BY <1>1 DEF TypesInv, OwnRows
<1> QED BY <1>1, <1>2, <1>3, <1>4, <1>5 DEF Replaced

\* What a commit does to the others.
LEMMA CommitOthers ==
    ASSUME TypeOK, Orderly, TypesInv, NEW q \in Reqs, Moves(q), CommitTypes(q), TypesMove(q),
           NEW r \in Reqs \ {q}
    PROVE  CoveredBy(r)'
<1> SUFFICES ASSUME Replaces(r)' PROVE CoveredBy(r)'
  BY DEF CoveredBy
<1>1. /\ pc'[r] = pc[r] /\ req'[r] = req[r] /\ victims'[r] = victims[r] /\ held'[r] = held[r]
      /\ Replaces(r) /\ pc[r] # "idle"
  BY DEF Moves, TypesMove, Replaces, Orderly, NoInput
<1>2. CoveredBy(r)
  BY DEF TypesInv, Covered
<1>3. /\ LaterRows(r) \subseteq LaterRows(r)' /\ NewIds(r)' = NewIds(r)
      /\ OthersOf(r) \subseteq OthersOf(r)'
  BY <1>1, LaterGrows
<1>4. req[q].project = req[r].project => q \in OthersOf(r)' /\ NewIds(q) \subseteq LaterRows(r)'
  <2>1. q \notin before[r] /\ req'[q] = req[q] /\ before'[r] = before[r] /\ pc'[q] = "ok" /\ Replaces(q)
    BY CommitTable DEF Moves, Orderly
  <2>2. NewIds(q)' = NewIds(q)
    BY <2>1 DEF NewIds
  <2>3. req[q].project = req[r].project => q \in OthersOf(r)'
    BY <1>1, <2>1 DEF OthersOf, Replaces, Later
  <2> QED BY <2>2, <2>3 DEF LaterRows
<1>5. TableOf(r)' \subseteq TableOf(r) \union LaterRows(r)'
  <2> SUFFICES ASSUME NEW id \in TableOf(r)', id \notin TableOf(r) PROVE id \in LaterRows(r)'
    OBVIOUS
  <2>1. id \in DOMAIN types' /\ types'[id].project = req[r].project
    BY <1>1 DEF TableOf, RowsOf
  <2>2. id \in NewIds(q)
    BY <1>1, <2>1, CommitTable DEF TableOf, RowsOf
  <2>3. req[q].project = req[r].project
    BY <2>1, <2>2, CommitTable
  <2> QED BY <1>4, <2>2, <2>3
<1>6. CASE pc[r] = "delete"
  <2>1. TableOf(r) \subseteq victims[r] \union LaterRows(r)
    BY <1>1, <1>2, <1>6 DEF CoveredBy
  <2>2. TableOf(r)' \subseteq victims'[r] \union LaterRows(r)'
    BY <1>1, <1>3, <1>5, <2>1
  <2> QED BY <1>1, <1>6, <2>2 DEF CoveredBy
<1>7. CASE pc[r] = "insert"
  <2>1. TableOf(r) \subseteq held[r] \union LaterRows(r)
    BY <1>1, <1>2, <1>7 DEF CoveredBy
  <2>2. TableOf(r)' \subseteq held'[r] \union LaterRows(r)'
    BY <1>1, <1>3, <1>5, <2>1
  <2> QED BY <1>1, <1>7, <2>2 DEF CoveredBy
<1>8. CASE pc[r] = "ok"
  <2>1. TableOf(r) \subseteq NewIds(r) \union LaterRows(r)
    BY <1>1, <1>2, <1>8 DEF CoveredBy
  <2>2. TableOf(r)' \subseteq NewIds(r)' \union LaterRows(r)'
    BY <1>3, <1>5, <2>1
  <2>3. ASSUME OthersOf(r)' = {} PROVE NewIds(r)' \subseteq TableOf(r)'
    <3>1. OthersOf(r) = {}
      BY <1>3, <2>3
    <3>2. NewIds(r) \subseteq TableOf(r)
      BY <1>1, <1>2, <1>8, <3>1 DEF CoveredBy
    <3>3. req[q].project # req[r].project
      BY <1>4, <2>3
    <3>4. ASSUME NEW id \in TableOf(r) PROVE id \in TableOf(r)'
      <4>1. id \in DOMAIN types /\ types[id].project = req[r].project
        BY DEF TableOf, RowsOf
      <4>2. id \notin held[q]
        BY <3>3, <4>1 DEF TypesInv, OwnRows
      <4> QED BY <1>1, <4>1, <4>2, CommitTable DEF TableOf, RowsOf
    <3> QED BY <1>3, <3>2, <3>4
  <2> QED BY <1>1, <1>8, <2>2, <2>3 DEF CoveredBy
<1> QED BY <1>1, <1>6, <1>7, <1>8 DEF CoveredBy

LEMMA CommitOwn ==
    ASSUME TypeOK, Orderly, TypesInv, NEW q \in Reqs, Moves(q), CommitTypes(q)
    PROVE  CoveredBy(q)'
<1>1. /\ LaterRows(q) \subseteq LaterRows(q)' /\ NewIds(q)' = NewIds(q) /\ req'[q] = req[q]
      /\ pc[q] = "insert" /\ pc'[q] = "ok" /\ Replaces(q)
  BY LaterGrows, CommitTable
<1>2. TableOf(q) \subseteq held[q] \union LaterRows(q)
  BY <1>1 DEF TypesInv, Covered, CoveredBy
<1>3. TableOf(q)' \subseteq NewIds(q)' \union LaterRows(q)'
  <2> SUFFICES ASSUME NEW id \in TableOf(q)', id \notin NewIds(q) PROVE id \in LaterRows(q)'
    BY <1>1
  <2>1. id \in DOMAIN types' /\ types'[id].project = req[q].project
    BY <1>1 DEF TableOf, RowsOf
  <2>2. id \in DOMAIN types \ held[q] /\ types[id].project = req[q].project
    BY <2>1, CommitTable
  <2> QED BY <1>1, <1>2, <2>2 DEF TableOf, RowsOf
<1>4. NewIds(q)' \subseteq TableOf(q)'
  BY <1>1, CommitTable DEF TableOf, RowsOf
<1> QED BY <1>1, <1>3, <1>4 DEF CoveredBy

LEMMA StaysAnswered ==
    ASSUME TypeOK, NEW q \in Reqs, Moves(q), NEW id, Answered(id)
    PROVE  Answered(id)'
  BY DEF Moves, Ended, Answered

LEMMA CommitStep ==
    ASSUME TypeOK, Orderly, TypesInv, NEW q \in Reqs, Moves(q), CommitTypes(q), TypesMove(q)
    PROVE  TypesInv'
<1>1. Covered'
  BY CommitOthers, CommitOwn DEF Covered
<1>2. NamesFresh'
  <2>1. ASSUME NEW id \in DOMAIN types' PROVE Answered(id)'
    <3>1. CASE id \in NewIds(q)
      <4>1. id[1] = q
        BY <3>1, NewIdsNamed
      <4>2. pc'[q] = "ok"
        BY CommitTable
      <4> QED BY <4>1, <4>2 DEF Answered
    <3>2. CASE id \in DOMAIN types
      BY <3>2, StaysAnswered DEF TypesInv, NamesFresh
    <3> QED BY <3>1, <3>2, CommitTable
  <2>2. ASSUME NEW r \in Reqs, NEW id \in victims'[r] \union held'[r] PROVE Answered(id)'
    <3>1. id \in victims[r] \union held[r]
      <4>1. CASE r = q
        BY <4>1, CommitTable DEF CommitTypes
      <4>2. CASE r # q
        BY <4>2 DEF TypesMove
      <4> QED BY <4>1, <4>2
    <3> QED BY <3>1, StaysAnswered DEF TypesInv, NamesFresh
  <2> QED BY <2>1, <2>2 DEF NamesFresh
<1>3. OwnRows'
  <2> SUFFICES ASSUME NEW r \in Reqs
               PROVE  /\ pc'[r] \in {"delete", "insert"} => Replaces(r)'
                      /\ pc'[r] = "delete" => \A id \in victims'[r] \intersect DOMAIN types':
                                                types'[id].project = req'[r].project
                      /\ \A id \in held'[r] \intersect DOMAIN types': types'[id].project = req'[r].project
    BY DEF OwnRows
  <2>1. CASE r = q
    BY <2>1, CommitTable
  <2>2. CASE r # q
    <3>1. /\ pc'[r] = pc[r] /\ req'[r] = req[r] /\ victims'[r] = victims[r] /\ held'[r] = held[r]
          /\ Replaces(r)' = Replaces(r)
      BY <2>2 DEF Moves, TypesMove, Replaces
    <3>2. ASSUME NEW id \in DOMAIN types', id \in victims[r] \/ id \in held[r],
                 pc[r] \in {"delete", "insert"}
          PROVE  id \in DOMAIN types /\ types'[id].project = types[id].project
      <4>1. Answered(id)
        BY <3>2 DEF TypesInv, NamesFresh
      <4>2. pc[q] # "ok"
        BY CommitTable
      <4>3. id \notin NewIds(q)
        BY <4>1, <4>2, NewIdsNamed DEF Answered
      <4> QED BY <3>2, <4>3, CommitTable
    <3>3. held[r] # {} => pc[r] \in {"delete", "insert"}
      BY DEF TypeOK, TypesTypeOK
    <3>4. pc'[r] \in {"delete", "insert"} => Replaces(r)'
      BY <3>1 DEF TypesInv, OwnRows
    <3>5. pc'[r] = "delete" => \A id \in victims'[r] \intersect DOMAIN types':
                                    types'[id].project = req'[r].project
      BY <3>1, <3>2 DEF TypesInv, OwnRows
    <3>6. \A id \in held'[r] \intersect DOMAIN types': types'[id].project = req'[r].project
      BY <3>1, <3>2, <3>3 DEF TypesInv, OwnRows
    <3> QED BY <3>4, <3>5, <3>6
  <2> QED BY <2>1, <2>2
<1> QED BY <1>1, <1>2, <1>3 DEF TypesInv

\* What the other steps do to the table and to who replaces it.
LEMMA TypesStepsMove ==
    ASSUME TypeOK, Orderly, TypesInv, NEW q \in Reqs, Moves(q), TypesStep(q)
    PROVE  /\ TypesMove(q)
           /\ \/ CommitTypes(q) \/ BeginDelete(q) \/ DeleteRows(q)
              \/ TypesStay /\ victims'[q] \subseteq victims[q] /\ held'[q] \subseteq held[q]
                 /\ \/ pc'[q] \notin {"delete", "insert", "ok"}
                    \/ req'[q].op = "retype" /\ pc'[q] = "ok"
<1> USE DEF TypeOK, ReviewTypeOK, TypesTypeOK, Goto
<1>0. TypeOK' => (\A r \in Reqs: held'[r] # {} => pc'[r] = "insert")
  BY DEF TypeOK
<1>1. CASE \E i \in Inputs: SaveTypes(q, i) \/ ClearTypes(q, i) \/ Retype(q, i)
  BY <1>1 DEF SaveTypes, ClearTypes, Retype, Start, typeVars, TypesMove, TypesStay
<1>2. CASE BeginDelete(q)
  BY <1>2 DEF BeginDelete, TypesMove
<1>3. CASE DeleteRows(q)
  BY <1>3 DEF DeleteRows, TypesMove
<1>4. CASE CommitTypes(q)
  <2>1. TypeOK'
    BY <1>4, TypesMoves
  <2> QED BY <1>4, <2>1 DEF CommitTypes, TypesMove
<1>5. CASE WriteType(q)
  BY <1>5, TypesAssumption DEF WriteType, TypesMove, TypesStay, Columns
<1>6. CASE RollBackTypes(q)
  BY <1>6 DEF RollBackTypes, TypesMove, TypesStay
<1> QED BY <1>1, <1>2, <1>3, <1>4, <1>5, <1>6 DEF TypesStep

LEMMA StayNamed ==
    ASSUME TypeOK, Orderly, NamesFresh, NEW q \in Reqs, Moves(q), TypesMove(q),
           DOMAIN types' = DOMAIN types,
           victims'[q] \union held'[q] \subseteq victims[q] \union held[q] \union DOMAIN types
    PROVE  NamesFresh'
<1>1. \A id \in DOMAIN types': Answered(id)'
  BY StaysAnswered DEF NamesFresh
<1>2. ASSUME NEW r \in Reqs, NEW id \in victims'[r] \union held'[r] PROVE Answered(id)'
  <2>1. id \in victims[r] \union held[r] \union DOMAIN types
    BY DEF TypesMove
  <2> QED BY <2>1, StaysAnswered DEF NamesFresh
<1> QED BY <1>1, <1>2 DEF NamesFresh

LEMMA StayOwn ==
    ASSUME TypeOK, Orderly, OwnRows, NEW q \in Reqs, Moves(q), TypesMove(q), TypesStay,
           /\ pc'[q] \in {"delete", "insert"} => Replaces(q)'
           /\ pc'[q] = "delete" => \A id \in victims'[q] \intersect DOMAIN types:
                                    types[id].project = req'[q].project
           /\ \A id \in held'[q] \intersect DOMAIN types: types[id].project = req'[q].project
    PROVE  OwnRows'
<1> SUFFICES ASSUME NEW r \in Reqs
             PROVE  /\ pc'[r] \in {"delete", "insert"} => Replaces(r)'
                    /\ pc'[r] = "delete" => \A id \in victims'[r] \intersect DOMAIN types':
                                              types'[id].project = req'[r].project
                    /\ \A id \in held'[r] \intersect DOMAIN types': types'[id].project = req'[r].project
  BY DEF OwnRows
<1>1. CASE r = q
  BY <1>1 DEF TypesStay
<1>2. CASE r # q
  BY <1>2 DEF Moves, TypesMove, TypesStay, OwnRows, Replaces
<1> QED BY <1>1, <1>2

LEMMA TypesInvStep ==
    ASSUME TypeOK, Orderly, TypesInv, NEW q \in Reqs, Moves(q), TypesStep(q)
    PROVE  TypesInv'
<1>0. TypesMove(q) /\ TypeOK'
  BY TypesStepsMove, TypesMoves
<1>1. CASE CommitTypes(q)
  BY <1>0, <1>1, CommitStep
<1>2. CASE BeginDelete(q)
  <2>1. /\ Replaces(q) /\ req' = req /\ types' = types /\ held' = held
        /\ victims'[q] = TableOf(q) /\ pc'[q] = "delete" /\ pc[q] = "apply" /\ TypesStay
    BY <1>2 DEF BeginDelete, TableOf, Goto, TypesStay, TypeOK, ReviewTypeOK, TypesTypeOK
  <2>2. held[q] = {} /\ TableOf(q)' = TableOf(q) /\ Replaces(q)' /\ TableOf(q) \subseteq DOMAIN types
    BY <2>1 DEF TypeOK, TypesTypeOK, TableOf, RowsOf, Replaces
  <2>3. NamesFresh'
    BY <1>0, <2>1, <2>2, StayNamed DEF TypesInv, TypesStay
  <2>4. \A id \in victims'[q]: types[id].project = req'[q].project
    BY <2>1 DEF TableOf, RowsOf
  <2>5. OwnRows'
    BY <1>0, <2>1, <2>2, <2>4, StayOwn DEF TypesInv
  <2>6. CoveredBy(q)'
    BY <2>1, <2>2 DEF CoveredBy
  <2>7. Covered'
    BY <1>0, <2>1, <2>6, StayOthers DEF Covered
  <2> QED BY <2>3, <2>5, <2>7 DEF TypesInv
<1>3. CASE DeleteRows(q)
  <2>1. /\ req' = req /\ types' = types /\ TypesStay /\ pc[q] = "delete" /\ pc'[q] = "insert"
        /\ victims'[q] = {} /\ held'[q] = victims[q] \intersect DOMAIN types
    BY <1>3 DEF DeleteRows, Goto, TypesStay, TypeOK, ReviewTypeOK, TypesTypeOK
  <2>2. Replaces(q) /\ Replaces(q)' /\ TableOf(q)' = TableOf(q) /\ TableOf(q) \subseteq DOMAIN types
    BY <2>1 DEF TypesInv, OwnRows, TableOf, RowsOf, Replaces
  <2>3. NamesFresh'
    BY <1>0, <2>1, StayNamed DEF TypesInv, TypesStay
  <2>4. \A id \in held'[q] \intersect DOMAIN types: types[id].project = req'[q].project
    BY <2>1 DEF TypesInv, OwnRows
  <2>5. OwnRows'
    BY <1>0, <2>1, <2>2, <2>4, StayOwn DEF TypesInv
  <2>6. CoveredBy(q)'
    <3>1. TableOf(q) \subseteq victims[q] \union LaterRows(q)
      BY <2>1, <2>2 DEF TypesInv, Covered, CoveredBy
    <3>2. LaterRows(q) \subseteq LaterRows(q)'
      BY <2>1, LaterGrows
    <3>3. TableOf(q)' \subseteq held'[q] \union LaterRows(q)'
      BY <2>1, <2>2, <3>1, <3>2
    <3> QED BY <2>1, <3>3 DEF CoveredBy
  <2>7. Covered'
    BY <1>0, <2>1, <2>6, StayOthers DEF Covered
  <2> QED BY <2>3, <2>5, <2>7 DEF TypesInv
<1>4. CASE /\ TypesStay /\ victims'[q] \subseteq victims[q] /\ held'[q] \subseteq held[q]
           /\ \/ pc'[q] \notin {"delete", "insert", "ok"}
              \/ req'[q].op = "retype" /\ pc'[q] = "ok"
  <2>1. held'[q] = {}
    BY <1>0, <1>4 DEF TypeOK, TypesTypeOK
  <2>2. NamesFresh'
    BY <1>0, <1>4, StayNamed DEF TypesInv, TypesStay
  <2>3. OwnRows'
    BY <1>0, <1>4, <2>1, StayOwn DEF TypesInv
  <2>4. CoveredBy(q)'
    BY <1>4 DEF CoveredBy, Replaces
  <2>5. Covered'
    BY <1>0, <1>4, <2>4, StayOthers DEF Covered
  <2> QED BY <2>2, <2>3, <2>5 DEF TypesInv
<1> QED BY <1>1, <1>2, <1>3, <1>4, TypesStepsMove

\* A step on mappings or access.
LEMMA ReviewInvStep ==
    ASSUME TypeOK, Orderly, TypesInv, NEW q \in Reqs, Moves(q), ReviewStep(q), UNCHANGED typeVars
    PROVE  TypesInv'
<1>0. TypeOK'
  BY ReviewMoves
<1>1. pc'[q] \notin {"delete", "insert"} /\ (pc'[q] = "ok" => ~Replaces(q)')
  <2>1. CASE \E i \in Inputs: \/ UpdateMapping(q, i) \/ DeleteMapping(q, i) \/ BulkUpdate(q, i)
                              \/ BulkByScore(q, i) \/ ListMappings(q, i) \/ SetAccess(q, i)
    BY <2>1 DEF UpdateMapping, DeleteMapping, BulkUpdate, BulkByScore, ListMappings, SetAccess, Start, Goto,
          Replaces, TypeOK, ReviewTypeOK
  <2>2. CASE LoadRows(q) \/ CheckAccess(q) \/ WriteFails(q)
    BY <2>2 DEF LoadRows, CheckAccess, WriteFails, Goto, TypeOK, ReviewTypeOK
  <2>3. CASE WriteObject(q) \/ WriteByIds(q) \/ WriteByScore(q)
    BY <2>3 DEF WriteObject, WriteByIds, WriteByScore, WriteStatus, Written, Goto, Replaces,
          TypeOK, ReviewTypeOK
  <2>4. CASE ReadPage(q)
    BY <2>4 DEF ReadPage, Goto, Replaces, TypeOK, ReviewTypeOK
  <2> QED BY <2>1, <2>2, <2>3, <2>4 DEF ReviewStep
<1>2. TypesMove(q) /\ TypesStay
  BY <1>0 DEF typeVars, TypesMove, TypesStay, TypeOK, TypesTypeOK
<1>3. held'[q] = {} /\ victims' = victims /\ held' = held
  BY <1>0, <1>1 DEF TypeOK, TypesTypeOK, typeVars
<1>4. NamesFresh'
  BY <1>2, <1>3, StayNamed DEF TypesInv, TypesStay
<1>5. OwnRows'
  BY <1>1, <1>2, <1>3, StayOwn DEF TypesInv
<1>6. CoveredBy(q)'
  BY <1>1 DEF CoveredBy
<1>7. Covered'
  BY <1>2, <1>6, StayOthers DEF Covered
<1> QED BY <1>4, <1>5, <1>7 DEF TypesInv

\* The table of a project is what one answered replacement made of it, with
\* rows only of those that had not ended when it began.
THEOREM LastReplaceShown == Spec => []LastReplaceIsShown
<1>1. Init => TypesInv
  BY TypesAssumption DEF Init, ReviewInit, TypesInit, TypesInv, NamesFresh, Answered, OwnRows, Covered,
     CoveredBy, Replaces, NoInput
<1>2. TypeOK /\ Orderly /\ TypesInv /\ [Next]_vars => (TypeOK /\ Orderly /\ TypesInv)'
  <2> SUFFICES ASSUME TypeOK, Orderly, TypesInv, [Next]_vars PROVE TypesInv'
    BY StepMoves
  <2>1. CASE UNCHANGED vars
    BY <2>1 DEF vars, reviewVars, typeVars, TypesInv, NamesFresh, Answered, OwnRows, Covered, CoveredBy,
          TableOf, RowsOf, LaterRows, OthersOf, NewIds, Replaces, Later
  <2> QED BY <2>1, StepMoves, TypesInvStep, ReviewInvStep
<1>3. TypesInv => LastReplaceIsShown
  BY DEF TypesInv, Covered, CoveredBy, LastReplaceIsShown, TableOf, LaterRows, OthersOf
<1> QED BY OrderlyInit, <1>1, <1>2, <1>3, PTL DEF Spec

-----------------------------------------------------------------------------
(* Pages: what is off a page though its place is on it was moved since.     *)

\* A page shows whatever has its place on it now, unless it was moved since.
Paged ==
    \A r \in Reqs: pc[r] = "ok" /\ req[r].op = "list" => \A m \in Matching(req[r]):
        /\ Cardinality(Older(req[r], m)) \in req[r].skip .. req[r].skip + req[r].limit - 1
        /\ AsOld(req[r], m) = {m}
        => m \in DOMAIN loaded[r] \/ Moved(r, m)

\* The page that is read.
LEMMA PageShows ==
    ASSUME NEW i, i.skip \in Nat, i.limit \in Nat, NEW page \in Pages(i), NEW m \in Matching(i),
           Cardinality(Older(i, m)) \in i.skip .. i.skip + i.limit - 1, AsOld(i, m) = {m}
    PROVE  m \in page
<1> DEFINE c == Cardinality(Older(i, m))
<1>1. c \in Nat
  BY DEF Older
<1>2. Cardinality({m}) = 1 /\ Cardinality({c}) = 1
  BY FS_Singleton
<1>3. Places(i, m) = {c}
  <2>1. Places(i, m) = c .. c + 1 - 1
    BY <1>2 DEF Places
  <2> HIDE DEF c
  <2>2. c .. c + 1 - 1 = {c}
    BY <1>1
  <2> QED BY <2>1, <2>2
<1>4. Places(i, m) \intersect (i.skip .. i.skip + i.limit - 1) = {c}
  BY <1>3
<1>5. Cardinality(page \intersect {m}) = 1
  BY <1>2, <1>4 DEF Pages
<1>6. page \intersect {m} # {}
  <2>1. Cardinality({}) = 0
    BY FS_EmptySet
  <2>2. \A S, T: S = T => Cardinality(S) = Cardinality(T)
    OBVIOUS
  <2>3. Cardinality(page \intersect {m}) # Cardinality({})
    BY <1>5, <2>1
  <2> QED BY <2>2, <2>3, Zenon
<1> QED BY <1>6

\* A step of q that leaves the status and activity of all that come up to m leaves
\* the place of m.
LEMMA PlaceStays ==
    ASSUME TypeOK, TypeOK', NEW i, NEW m \in Matching(i)',
           \A x \in Mappings: ProjectOf[x] = ProjectOf[m] /\ Created[x] <= Created[m] =>
               row'[x]["status"] = row[x]["status"] /\ row'[x]["active"] = row[x]["active"]
    PROVE  m \in Matching(i) /\ Older(i, m)' = Older(i, m) /\ AsOld(i, m)' = AsOld(i, m)
<1>1. ProjectOf[m] = i.project /\ m \in Mappings /\ Created[m] \in Nat
  BY ReviewAssumption DEF Matching
<1>2. ASSUME NEW x \in Mappings, Created[x] <= Created[m]
      PROVE  x \in Matching(i)' <=> x \in Matching(i)
  BY <1>1, <1>2 DEF Matching
<1>3. \A x \in Mappings: Created[x] \in Nat
  BY ReviewAssumption
<1>4. \A x \in Mappings: Created[x] < Created[m] \/ Created[x] = Created[m] => Created[x] <= Created[m]
  BY <1>1, <1>3
<1>5. m \in Matching(i)
  BY <1>1, <1>2, <1>4
<1>6. Older(i, m)' = Older(i, m)
  BY <1>2, <1>4 DEF Older, Matching
<1>7. AsOld(i, m)' = AsOld(i, m)
  BY <1>2, <1>4 DEF AsOld, Matching
<1> QED BY <1>5, <1>6, <1>7

LEMMA StaysMoved ==
    ASSUME TypeOK, Orderly, NEW q \in Reqs, Moves(q), NEW r \in Reqs, NEW m, pc[r] # "idle", Moved(r, m)
    PROVE  Moved(r, m)'
<1>1. PICK w \in Reqs: \E x \in wrote[w]:
        /\ Later(w, r) /\ DOMAIN Sets(w) \intersect {"status", "active"} # {}
        /\ ProjectOf[x] = ProjectOf[m] /\ Created[x] <= Created[m]
  BY DEF Moved
<1>2. w # q
  BY <1>1 DEF Moves, Orderly, Ended
<1>3. req'[w] = req[w] /\ wrote'[w] = wrote[w] /\ before'[r] = before[r]
  BY <1>2 DEF Moves
<1>4. Sets(w)' = Sets(w)
  BY <1>3, SetsSame
<1> QED BY <1>1, <1>3, <1>4 DEF Moved, Later

\* A step of another request either moves something up to m or leaves its place.
LEMMA PagedOther ==
    ASSUME TypeOK, TypeOK', Orderly, Paged, NEW q \in Reqs, Moves(q),
           row' = row \/ (Writes(q) /\ Sets(q)' = Sets(q)),
           NEW r \in Reqs \ {q}, pc[r] = "ok", req[r].op = "list", NEW m \in Matching(req[r])',
           Cardinality(Older(req[r], m)') \in req[r].skip .. req[r].skip + req[r].limit - 1,
           AsOld(req[r], m)' = {m}
    PROVE  m \in DOMAIN loaded[r] \/ Moved(r, m)'
<1>1. SUFFICES ASSUME ~Moved(r, m)' PROVE m \in DOMAIN loaded[r]
  OBVIOUS
<1>2. Later(q, r)'
  BY DEF Later, Moves, Orderly
<1>3. ASSUME NEW x \in Mappings, ProjectOf[x] = ProjectOf[m], Created[x] <= Created[m],
             NEW f \in {"status", "active"}
      PROVE  row'[x][f] = row[x][f]
  <2>1. CASE row' = row
    BY <2>1
  <2>2. CASE Writes(q) /\ Sets(q)' = Sets(q)
    <3>1. row'[x][f] = row[x][f] \/ (x \in wrote'[q] /\ f \in DOMAIN Sets(q))
      BY <1>3, <2>2 DEF Writes, Fields
    <3>2. ASSUME x \in wrote'[q], f \in DOMAIN Sets(q) PROVE FALSE
      <4>1. (DOMAIN Sets(q))' = DOMAIN Sets(q)
        BY <2>2
      <4>2. (DOMAIN Sets(q) \intersect {"status", "active"})' # {}
        BY <1>3, <3>2, <4>1
      <4> QED BY <1>1, <1>2, <1>3, <3>2, <4>2 DEF Moved
    <3> QED BY <3>1, <3>2
  <2> QED BY <2>1, <2>2
<1>4. PICK i: i = req[r] /\ req'[r] = i
  BY DEF Moves
<1>5. m \in Matching(i)' /\ (Cardinality(Older(i, m)') \in i.skip .. i.skip + i.limit - 1)
      /\ AsOld(i, m)' = {m}
  BY <1>4 DEF Matching, Older, AsOld
<1>6. m \in Matching(i) /\ Older(i, m)' = Older(i, m) /\ AsOld(i, m)' = AsOld(i, m)
  BY <1>3, <1>5, PlaceStays
<1>7. /\ m \in Matching(req[r]) /\ AsOld(req[r], m) = {m}
      /\ Cardinality(Older(req[r], m)) \in req[r].skip .. req[r].skip + req[r].limit - 1
  BY <1>4, <1>5, <1>6
<1>8. ~Moved(r, m)
  BY <1>1, StaysMoved
<1> QED BY <1>7, <1>8 DEF Paged

\* A list ends only by reading its page.
LEMMA ListReads ==
    ASSUME TypeOK, Orderly, NEW q \in Reqs, Moves(q), ReviewStep(q) \/ TypesStep(q),
           pc'[q] = "ok", req'[q].op = "list"
    PROVE  ReadPage(q)
<1> USE DEF TypeOK, ReviewTypeOK, Goto
<1>1. CASE TypesStep(q)
  <2>1. CASE \E i \in Inputs: SaveTypes(q, i) \/ ClearTypes(q, i) \/ Retype(q, i)
    BY <2>1 DEF SaveTypes, ClearTypes, Retype, Start
  <2>2. CASE BeginDelete(q) \/ DeleteRows(q) \/ WriteType(q) \/ RollBackTypes(q)
    BY <2>2 DEF BeginDelete, DeleteRows, WriteType, RollBackTypes
  <2>3. CASE CommitTypes(q)
    BY <2>3 DEF CommitTypes, Orderly, Replaces
  <2> QED BY <1>1, <2>1, <2>2, <2>3 DEF TypesStep
<1>2. CASE ReviewStep(q)
  <2>1. CASE \E i \in Inputs: \/ UpdateMapping(q, i) \/ DeleteMapping(q, i) \/ BulkUpdate(q, i)
                              \/ BulkByScore(q, i) \/ ListMappings(q, i) \/ SetAccess(q, i)
    BY <2>1 DEF UpdateMapping, DeleteMapping, BulkUpdate, BulkByScore, ListMappings, SetAccess, Start
  <2>2. CASE LoadRows(q) \/ CheckAccess(q) \/ WriteFails(q)
    BY <2>2 DEF LoadRows, CheckAccess, WriteFails
  <2>3. CASE WriteObject(q) \/ WriteByIds(q) \/ WriteByScore(q)
    BY <2>3 DEF WriteObject, WriteByIds, WriteByScore, WriteStatus, Written
  <2> QED BY <1>2, <2>1, <2>2, <2>3 DEF ReviewStep
<1> QED BY <1>1, <1>2

LEMMA PagedStep ==
    ASSUME TypeOK, Orderly, Fresh, Paged, [Next]_vars
    PROVE  Paged'
<1>0. TypeOK' /\ Orderly'
  BY StepMoves
<1>1. CASE UNCHANGED vars
  BY <1>1 DEF vars, reviewVars, Paged, Matching, Older, AsOld, Moved, Sets, Later
<1>2. ASSUME NEW q \in Reqs, Moves(q), ReviewStep(q) \/ TypesStep(q)
      PROVE  Paged'
  <2>1. row' = row \/ (Writes(q) /\ Sets(q)' = Sets(q))
    BY <1>2, WriterWrites, TypesShape, ReviewShape, SetsSame
  <2> SUFFICES ASSUME NEW r \in Reqs, pc'[r] = "ok", req'[r].op = "list", NEW m \in Matching(req[r])',
                      (Cardinality(Older(req[r], m)) \in req[r].skip .. req[r].skip + req[r].limit - 1)',
                      (AsOld(req[r], m) = {m})'
               PROVE  (m \in DOMAIN loaded[r] \/ Moved(r, m))'
    BY DEF Paged
  <2>2. CASE r # q
    <3>1. pc'[r] = pc[r] /\ req'[r] = req[r] /\ loaded'[r] = loaded[r]
      BY <1>2, <2>2 DEF Moves
    <3> QED BY <1>0, <1>2, <2>1, <2>2, <3>1, PagedOther
  <2>3. CASE r = q
    <3>1. ReadPage(q)
      BY <1>2, <2>3, ListReads
    <3>2. row' = row /\ req' = req /\ req[q] \in Inputs
      BY <3>1 DEF ReadPage, Orderly
    <3>3. PICK page \in Pages(req[q]): loaded' = [loaded EXCEPT ![q] = [x \in page |-> row[x]]]
      BY <3>1 DEF ReadPage
    <3>4. DOMAIN loaded'[q] = page
      BY <3>3 DEF TypeOK, ReviewTypeOK
    <3>5. req[q].skip \in Nat /\ req[q].limit \in Nat
      BY <2>3, <3>2, InputsAssumption
    <3>6. /\ m \in Matching(req[q]) /\ AsOld(req[q], m) = {m}
          /\ Older(req[q], m)' = Older(req[q], m)
      BY <2>3, <3>2 DEF Matching, Older, AsOld
    <3>7. Cardinality(Older(req[q], m)) \in req[q].skip .. req[q].skip + req[q].limit - 1
      BY <2>3, <3>2, <3>6
    <3>8. m \in page
      BY <3>5, <3>6, <3>7, PageShows
    <3> QED BY <2>3, <3>4, <3>8
  <2> QED BY <2>2, <2>3
<1> QED BY <1>1, <1>2, StepMoves

\* Of two pages read one after the other a mapping that has its place on one of them is
\* missing only if it or one before it was deleted or given a status since, or if another
\* was created at the same moment.
THEOREM PagesMissNothingHolds == Spec => []PagesMissNothing
<1> DEFINE I == TypeOK /\ Orderly /\ Fresh /\ Kept /\ Paged
<1>1. Init => Fresh /\ Kept /\ Paged
  BY DEF Init, ReviewInit, Fresh, Kept, Paged
<1>2. I /\ [Next]_vars => I'
  BY StepMoves, EditsStep, PagedStep
<1>3. I => PagesMissNothing
  <2> SUFFICES ASSUME I, NEW r \in Reqs, NEW s \in Reqs, Follows(r, s), NEW m \in Matching(req[r]),
                      Cardinality(Older(req[r], m)) \in req[r].skip .. req[s].skip + req[s].limit - 1,
                      AsOld(req[r], m) = {m}
               PROVE  m \in DOMAIN loaded[r] \union DOMAIN loaded[s] \/ Moved(r, m)
    BY DEF PagesMissNothing
  <2>1. /\ pc[r] = "ok" /\ pc[s] = "ok" /\ req[r].op = "list" /\ req[s].op = "list"
        /\ req[s].project = req[r].project /\ req[s].status = req[r].status
        /\ req[s].skip = req[r].skip + req[r].limit /\ r \in before[s]
    BY DEF Follows
  <2>2. /\ req[r].skip \in Nat /\ req[r].limit \in Nat
        /\ req[s].skip \in Nat /\ req[s].limit \in Nat
    BY <2>1, InputsAssumption DEF Orderly
  <2>3. /\ m \in Matching(req[s]) /\ Older(req[s], m) = Older(req[r], m)
        /\ AsOld(req[s], m) = AsOld(req[r], m)
    BY <2>1 DEF Matching, Older, AsOld
  <2>4. Moved(s, m) => Moved(r, m)
    <3>1. before[r] \subseteq before[s]
      BY <2>1 DEF Orderly
    <3> QED BY <3>1 DEF Moved, Later
  <2>5. CASE Cardinality(Older(req[r], m)) \in req[r].skip .. req[r].skip + req[r].limit - 1
    BY <2>1, <2>5 DEF Paged
  <2>6. CASE Cardinality(Older(req[s], m)) \in req[s].skip .. req[s].skip + req[s].limit - 1
    BY <2>1, <2>3, <2>4, <2>6 DEF Paged
  <2> QED BY <2>1, <2>2, <2>3, <2>5, <2>6
<1> QED BY OrderlyInit, <1>1, <1>2, <1>3, PTL DEF Spec
=============================================================================
