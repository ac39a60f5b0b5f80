------------------------- MODULE ProjectData_proofs -------------------------
(***************************************************************************)
(* Proofs about the data of a project: MappingStore, for any saves,        *)
(* suggestions and bodies, and FileStorage, for any uploads, deletes and   *)
(* downloads.                                                              *)
(*                                                                         *)
(* A save works on rows nobody else sees and shows them all at once, so    *)
(* the invariant has to say what is in those rows: what a save has written *)
(* is either a committed mapping with its origin unchanged or a row of its *)
(* own body (Own), every row it has passed has left its mapping or its     *)
(* error (Written), and every row it has passed a second time has its link *)
(* (Linked).                                                               *)
(*                                                                         *)
(* While saves follow each other (SoloInv), what the running one has read  *)
(* of the links still holds: it inserts only for a suggestion that has no  *)
(* mapping, and what it has written for a row (Put) is what will be shown. *)
(*                                                                         *)
(* The properties of files speak of answered requests; StorageInv adds     *)
(* what holds on the way: an object that was put is there until its row    *)
(* is, and whoever has removed an object is still there to be blamed.      *)
(***************************************************************************)
EXTENDS MappingStore, FileStorage, TLAPS

\* What a save has written and not committed.
Own(c) ==
    /\ ~Running(c) => DOMAIN work[c] = {}
    /\ pc[c] \in {"rows", "found"} \/ ~Running(c) => DOMAIN relink[c] = {}
    /\ pc[c] # "done" => \A m \in DOMAIN mapping : m[1] # c
    /\ \A m \in DOMAIN work[c] :
          \/ m \in DOMAIN mapping /\ work[c][m].origin = mapping[m].origin
          \/ /\ m[1] = c /\ m[2] \in DOMAIN batch[c]
             /\ work[c][m].origin = batch[c][m[2]].sug
    /\ \A s \in DOMAIN relink[c] :
          relink[c][s] \in DOMAIN work[c] /\ work[c][relink[c][s]].origin = s

\* Row i has its mapping, at least in the eyes of the save, or its error.
Written(c, i) ==
    LET r == batch[c][i] IN
    CASE r.sug \in Suggestions -> link[r.sug] # NoMapping \/ <<c, i>> \in DOMAIN work[c]
      [] r.sug = NoSuggestion /\ r.id # NoMapping ->
            r.id \in DOMAIN mapping \/ r.id \in DOMAIN work[c] \/ missing[c]
      [] OTHER -> <<c, i>> \in DOMAIN work[c]

Linked(c, i) ==
    batch[c][i].sug \in Suggestions /\ <<c, i>> \in DOMAIN work[c] =>
        batch[c][i].sug \in DOMAIN relink[c]

\* How far a save has come.
Progress(c) ==
    /\ pc[c] = "new" => at[c] = 1
    /\ pc[c] \in {"rows", "found"} => \A i \in DOMAIN batch[c] : i < at[c] => Written(c, i)
    /\ pc[c] = "found" => Row(c).sug # NoSuggestion
    /\ pc[c] = "found" /\ target[c] # NoMapping =>
          Row(c).sug \in Suggestions /\ link[Row(c).sug] # NoMapping
    /\ pc[c] \in {"links", "commit"} => \A i \in DOMAIN batch[c] : Written(c, i)
    /\ pc[c] = "links" => \A i \in DOMAIN batch[c] : i < at[c] => Linked(c, i)
    /\ pc[c] = "commit" => ~missing[c] /\ \A i \in DOMAIN batch[c] : Linked(c, i)

StoreInv == /\ \A c \in Saves : Own(c) /\ Progress(c)
            /\ SavedIsLinked
            /\ AllOrNothing

-----------------------------------------------------------------------------
(* Types *)

LEMMA TypeInit == Init => TypeOK
  BY ConstantsAssumption DEF Init, TypeOK, Statuses

LEMMA BodyIsSequence == ASSUME TypeOK, NEW c \in Saves
                        PROVE  /\ batch[c] \in Seq(Rows)
                               /\ Len(batch[c]) \in Nat /\ Len(batch[c]) <= MaxRows
<1>1. CASE batch[c] = <<>>
  BY <1>1, ConstantsAssumption
<1>2. CASE batch[c] \in Batches
  BY <1>2, ConstantsAssumption
<1> QED
  BY <1>1, <1>2 DEF TypeOK

\* A row of a body is a row, and the id of a row is an id.
LEMMA BodyRows == ASSUME TypeOK, NEW c \in Saves, NEW i \in DOMAIN batch[c]
                  PROVE  batch[c][i] \in Rows /\ i \in 1 .. MaxRows /\ <<c, i>> \in Ids
<1>1. i \in 1 .. Len(batch[c]) /\ batch[c][i] \in Rows
  BY BodyIsSequence
<1>2. i \in 1 .. MaxRows
  BY <1>1, BodyIsSequence, ConstantsAssumption
<1> QED
  BY <1>1, <1>2 DEF Ids

\* The row a save is at, while there is one.
LEMMA RowIsRow == ASSUME TypeOK, NEW c \in Saves, More(c)
                  PROVE  /\ at[c] \in DOMAIN batch[c]
                         /\ Row(c) \in Rows /\ <<c, at[c]>> \in Ids
                         /\ at[c] + 1 \in 1 .. MaxRows + 1
<1>1. batch[c] \in Seq(Rows) /\ Len(batch[c]) <= MaxRows /\ Len(batch[c]) \in Nat
  BY BodyIsSequence
<1>2. at[c] \in Nat /\ at[c] >= 1
  BY ConstantsAssumption DEF TypeOK
<1>3. at[c] \in DOMAIN batch[c]
  BY <1>1, <1>2 DEF More
<1> QED
  BY <1>1, <1>2, <1>3, BodyRows, ConstantsAssumption DEF Row, More

LEMMA UpdateTyped == ASSUME TypeOK, NEW c \in Saves, NEW m \in Ids, More(c), UpdateMapping(c, m)
                     PROVE  TypeOK'
<1> USE DEF TypeOK, UpdateMapping, NextRow
<1>1. Row(c) \in Rows /\ at[c] + 1 \in 1 .. MaxRows + 1
  BY RowIsRow
<1>2. at' \in [Saves -> 1 .. MaxRows + 1]
  BY <1>1
<1>3. /\ DOMAIN work' = Saves
      /\ \A d \in Saves : /\ DOMAIN work'[d] \subseteq Ids
                          /\ \A n \in DOMAIN work'[d] : work'[d][n] \in Mappings
  <2>1. CASE m \in DOMAIN View(c)
    <3> DEFINE new == [View(c)[m] EXCEPT !.active = Row(c).active]
    <3>1. View(c)[m] \in Mappings
      BY <2>1 DEF View, Over
    <3>2. new \in Mappings
      BY <1>1, <3>1 DEF Mappings, Rows
    <3>3. work' = [work EXCEPT ![c] = With(work[c], m, new)]
      BY <2>1
    <3> HIDE DEF new
    <3> QED
      BY <3>2, <3>3 DEF With
  <2>2. CASE m \notin DOMAIN View(c)
    BY <2>2
  <2> QED
    BY <2>1, <2>2
<1>4. missing' \in [Saves -> BOOLEAN]
  OBVIOUS
<1> QED
  BY <1>2, <1>3, <1>4 DEF More

LEMMA InsertTyped == ASSUME TypeOK, NEW c \in Saves, More(c), InsertMapping(c) PROVE TypeOK'
<1> USE DEF TypeOK, InsertMapping, NextRow, request
<1>1. Row(c) \in Rows /\ <<c, at[c]>> \in Ids /\ at[c] + 1 \in 1 .. MaxRows + 1
  BY RowIsRow
<1>2. [origin |-> Row(c).sug, active |-> Row(c).active] \in Mappings
  BY <1>1 DEF Rows, Mappings
<1>3. /\ DOMAIN work' = Saves
      /\ \A d \in Saves : /\ DOMAIN work'[d] \subseteq Ids
                          /\ \A n \in DOMAIN work'[d] : work'[d][n] \in Mappings
  BY <1>1, <1>2 DEF With
<1>4. at' \in [Saves -> 1 .. MaxRows + 1]
  BY <1>1
<1> QED
  BY <1>3, <1>4 DEF More

LEMMA RollbackTyped == ASSUME TypeOK, NEW c \in Saves, Rollback(c) PROVE TypeOK'
  BY DEF TypeOK, Rollback, More, request

LEMMA TypeStep == TypeOK /\ [Next]_vars => TypeOK'
<1> SUFFICES ASSUME TypeOK, [Next]_vars PROVE TypeOK'
  OBVIOUS
<1> USE DEF TypeOK, Statuses, request
<1>1. ASSUME NEW c \in Saves, NEW b \in Batches, Begin(c, b) PROVE TypeOK'
  BY <1>1 DEF Begin, More
<1>2. ASSUME NEW c \in Saves, ReadSuggestion(c) PROVE TypeOK'
  BY <1>2 DEF ReadSuggestion, More
<1>3. ASSUME NEW c \in Saves, UpdateLinked(c) PROVE TypeOK'
  <2>1. More(c) /\ target[c] \in Ids
    BY <1>3 DEF UpdateLinked
  <2>2. QED
    BY <1>3, <2>1, UpdateTyped DEF UpdateLinked
<1>4. ASSUME NEW c \in Saves, UpdateById(c) PROVE TypeOK'
  <2>1. More(c) /\ Row(c).id \in Ids
    BY <1>4, RowIsRow DEF UpdateById, Rows
  <2>2. QED
    BY <1>4, <2>1, UpdateTyped DEF UpdateById
<1>5. ASSUME NEW c \in Saves, InsertFromSuggestion(c) PROVE TypeOK'
  BY <1>5, InsertTyped DEF InsertFromSuggestion
<1>6. ASSUME NEW c \in Saves, InsertManual(c) PROVE TypeOK'
  BY <1>6, InsertTyped DEF InsertManual
<1>7. ASSUME NEW c \in Saves, Flush(c) PROVE TypeOK'
  BY <1>7, ConstantsAssumption DEF Flush, More
<1>8. ASSUME NEW c \in Saves, LinkRow(c) PROVE TypeOK'
  <2>1. Row(c) \in Rows /\ <<c, at[c]>> \in Ids /\ at[c] + 1 \in 1 .. MaxRows + 1
    BY <1>8, RowIsRow DEF LinkRow
  <2>2. \A d \in Saves : pc[d] = "found" => d # c
    BY <1>8 DEF LinkRow
  <2>3. at' \in [Saves -> 1 .. MaxRows + 1]
    BY <1>8, <2>1 DEF LinkRow
  <2>4. /\ DOMAIN relink' = Saves
        /\ \A d \in Saves : /\ DOMAIN relink'[d] \subseteq Suggestions
                            /\ \A s \in DOMAIN relink'[d] : relink'[d][s] \in Ids
    <3>1. CASE ToLink(c) /\ Row(c).sug \in Suggestions
      BY <1>8, <2>1, <3>1 DEF LinkRow, With
    <3>2. CASE ~(ToLink(c) /\ Row(c).sug \in Suggestions)
      BY <1>8, <3>2 DEF LinkRow
    <3> QED
      BY <3>1, <3>2
  <2>5. QED
    BY <1>8, <2>2, <2>3, <2>4 DEF LinkRow, More
<1>9. ASSUME NEW c \in Saves, RaiseMissing(c) PROVE TypeOK'
  BY <1>9, RollbackTyped DEF RaiseMissing
<1>10. ASSUME NEW c \in Saves, ReadProject(c) PROVE TypeOK'
  BY <1>10 DEF ReadProject, More
<1>11. ASSUME NEW c \in Saves, Commit(c) PROVE TypeOK'
  BY <1>11 DEF Commit, View, Over, More
<1>12. ASSUME NEW c \in Saves, DeadlockVictim(c) \/ SaveFails(c) PROVE TypeOK'
  BY <1>12, RollbackTyped DEF DeadlockVictim, SaveFails
<1>13. ASSUME NEW m \in DOMAIN mapping, DeleteMapping(m) PROVE TypeOK'
  BY <1>13 DEF DeleteMapping, More, Mappings
<1>14. ASSUME NEW s \in Statuses, UpdateProject(s) PROVE TypeOK'
  BY <1>14 DEF UpdateProject, More
<1>15. CASE UNCHANGED vars
  BY <1>15 DEF vars, More
<1> QED
  BY <1>1, <1>2, <1>3, <1>4, <1>5, <1>6, <1>7, <1>8, <1>9, <1>10, <1>11, <1>12,
     <1>13, <1>14, <1>15 DEF Next, SaveStep

\* Every variable has the type its declaration describes, for any saves and bodies.
THEOREM TypeCorrect == Spec => []TypeOK
  BY TypeInit, TypeStep, PTL DEF Spec

-----------------------------------------------------------------------------
(* What a save has written, and what is committed *)

\* The committed tables only gain mappings and links, and origins stay.
Grows ==
    /\ DOMAIN mapping \subseteq DOMAIN mapping'
    /\ \A m \in DOMAIN mapping : mapping'[m].origin = mapping[m].origin
    /\ \A s \in Suggestions : link[s] # NoMapping => link'[s] # NoMapping

\* Save d takes no step.
Still(d) ==
    /\ pc'[d] = pc[d] /\ batch'[d] = batch[d] /\ at'[d] = at[d] /\ target'[d] = target[d]
    /\ missing'[d] = missing[d] /\ work'[d] = work[d] /\ relink'[d] = relink[d]

\* A save that takes no step keeps what it has when others commit.
LEMMA StillKeeps ==
    ASSUME NEW d \in Saves, Own(d), Progress(d), Still(d), Grows,
           \A m \in DOMAIN mapping' : m \in DOMAIN mapping \/ m[1] # d
    PROVE  Own(d)' /\ Progress(d)'
<1>1. Own(d)'
  BY DEF Own, Still, Grows, Running
<1>2. ASSUME NEW i, Written(d, i) PROVE Written(d, i)'
  BY <1>2 DEF Written, Still, Grows
<1>3. ASSUME NEW i, Linked(d, i) PROVE Linked(d, i)'
  BY <1>3 DEF Linked, Still
<1>4. Row(d)' = Row(d)
  BY DEF Row, Still
<1>5. Progress(d)'
  BY <1>2, <1>3, <1>4 DEF Progress, Still, Grows
<1> QED
  BY <1>1, <1>5

\* A step of a save that commits nothing only has to keep that save's own part.
LEMMA QuietStep ==
    ASSUME StoreInv, NEW c \in Saves, pc[c] # "done", pc'[c] # "done",
           UNCHANGED <<mapping, link>>, Own(c)', Progress(c)',
           \A d \in Saves : d # c => Still(d)
    PROVE  StoreInv'
<1>1. Grows
  BY DEF Grows
<1>2. ASSUME NEW d \in Saves PROVE Own(d)' /\ Progress(d)'
  BY <1>1, StillKeeps DEF StoreInv
<1>3. SavedIsLinked'
  BY DEF StoreInv, SavedIsLinked
<1>4. AllOrNothing'
  <2> SUFFICES ASSUME NEW d \in Saves
      PROVE  IF pc'[d] = "done" THEN \A i \in DOMAIN batch'[d] : RowSaved(d, i)'
             ELSE \A m \in DOMAIN mapping' : m[1] # d
    BY DEF AllOrNothing
  <2>1. CASE d = c
    BY <2>1 DEF StoreInv, AllOrNothing
  <2>2. CASE d # c
    BY <2>2 DEF StoreInv, AllOrNothing, RowSaved, Still
  <2> QED
    BY <2>1, <2>2
<1> QED
  BY <1>2, <1>3, <1>4 DEF StoreInv

LEMMA RollbackStep == ASSUME TypeOK, StoreInv, NEW c \in Saves, Running(c), Rollback(c)
                      PROVE  StoreInv'
<1>1. /\ pc'[c] = "failed" /\ DOMAIN work'[c] = {} /\ DOMAIN relink'[c] = {}
      /\ mapping' = mapping /\ link' = link
  BY DEF TypeOK, Rollback
<1>2. Own(c)' /\ Progress(c)'
  BY <1>1 DEF StoreInv, Own, Progress, Running
<1>3. \A d \in Saves : d # c => Still(d)
  BY DEF TypeOK, Rollback, request, Still
<1> QED
  BY <1>1, <1>2, <1>3, QuietStep DEF Running

\* Writing a mapping for the row a save is at, and moving on.
LEMMA UpdateStep ==
    ASSUME TypeOK, StoreInv, NEW c \in Saves, NEW m \in Ids, More(c), UpdateMapping(c, m),
           pc[c] \in {"rows", "found"},
           \/ Row(c).sug = NoSuggestion /\ m = Row(c).id
           \/ Row(c).sug \in Suggestions /\ link[Row(c).sug] # NoMapping
    PROVE  StoreInv'
<1>1. /\ at[c] \in DOMAIN batch[c] /\ at[c] \in Nat
      /\ \A i \in DOMAIN batch[c] : i \in Nat
  <2>1. at[c] \in DOMAIN batch[c]
    BY RowIsRow
  <2>2. \A i \in DOMAIN batch[c] : i \in Nat
    BY BodyIsSequence
  <2> QED
    BY <2>1, <2>2
<1>2. \A d \in Saves : d # c => Still(d)
  BY DEF Still, TypeOK, UpdateMapping, NextRow
<1>3. /\ pc'[c] = "rows" /\ at'[c] = at[c] + 1 /\ target'[c] = NoMapping
      /\ batch' = batch /\ relink' = relink /\ mapping' = mapping /\ link' = link
  BY DEF TypeOK, UpdateMapping, NextRow
<1>4. \/ /\ m \in DOMAIN mapping \cup DOMAIN work[c] /\ missing' = missing
         /\ DOMAIN work'[c] = DOMAIN work[c] \cup {m}
         /\ work'[c][m].origin =
               IF m \in DOMAIN work[c] THEN work[c][m].origin ELSE mapping[m].origin
         /\ \A n \in DOMAIN work[c] : n # m => work'[c][n] = work[c][n]
      \/ missing'[c] /\ work' = work
  <2>1. CASE m \in DOMAIN View(c)
    <3> DEFINE new == [View(c)[m] EXCEPT !.active = Row(c).active]
    <3>1. /\ View(c)[m] \in Mappings
          /\ View(c)[m] = IF m \in DOMAIN work[c] THEN work[c][m] ELSE mapping[m]
          /\ m \in DOMAIN mapping \cup DOMAIN work[c]
      BY <2>1 DEF View, Over, TypeOK
    <3>2. new.origin = View(c)[m].origin
      BY <3>1 DEF Mappings
    <3>3. work'[c] = With(work[c], m, new)
      BY <2>1 DEF TypeOK, UpdateMapping
    <3>4. missing' = missing
      BY <2>1 DEF UpdateMapping
    <3> HIDE DEF new
    <3> QED
      BY <3>1, <3>2, <3>3, <3>4 DEF With
  <2>2. CASE m \notin DOMAIN View(c)
    BY <2>2 DEF TypeOK, UpdateMapping
  <2> QED
    BY <2>1, <2>2
<1>5. Own(c)'
  <2>1. Own(c) /\ DOMAIN relink[c] = {}
    BY DEF StoreInv, Own
  <2> QED
    BY <2>1, <1>3, <1>4 DEF Own, Running
<1>6. ASSUME NEW i \in DOMAIN batch[c], i < at[c] PROVE Written(c, i)'
  <2>1. Written(c, i)
    BY <1>6 DEF StoreInv, Progress
  <2> QED
    BY <2>1, <1>3, <1>4 DEF Written
<1>7. ASSUME NEW i \in DOMAIN batch[c], i = at[c] PROVE Written(c, i)'
  <2>1. CASE Row(c).sug = NoSuggestion /\ m = Row(c).id
    BY <1>7, <2>1, <1>3, <1>4, ConstantsAssumption DEF Written, Row
  <2>2. CASE Row(c).sug \in Suggestions /\ link[Row(c).sug] # NoMapping
    BY <1>7, <2>2, <1>3, ConstantsAssumption DEF Written, Row
  <2> QED
    BY <2>1, <2>2
<1>8. Progress(c)'
  BY <1>1, <1>3, <1>6, <1>7 DEF Progress
<1> QED
  BY <1>2, <1>3, <1>5, <1>8, QuietStep DEF TypeOK

LEMMA InsertStep ==
    ASSUME TypeOK, StoreInv, NEW c \in Saves, More(c), InsertMapping(c),
           pc[c] \in {"rows", "found"},
           Row(c).sug = NoSuggestion => Row(c).id = NoMapping
    PROVE  StoreInv'
<1> DEFINE id == <<c, at[c]>>
           new == [origin |-> Row(c).sug, active |-> Row(c).active]
<1>1. /\ at[c] \in DOMAIN batch[c]
      /\ \A i \in DOMAIN batch[c] : i \in Nat
  <2>1. at[c] \in DOMAIN batch[c]
    BY RowIsRow
  <2>2. \A i \in DOMAIN batch[c] : i \in Nat
    BY BodyIsSequence
  <2> QED
    BY <2>1, <2>2
<1>2. \A d \in Saves : d # c => Still(d)
  BY DEF Still, TypeOK, InsertMapping, NextRow, request
<1>3. /\ pc'[c] = "rows" /\ at'[c] = at[c] + 1 /\ target'[c] = NoMapping
      /\ batch' = batch /\ missing' = missing /\ relink' = relink
      /\ mapping' = mapping /\ link' = link
  BY DEF TypeOK, InsertMapping, NextRow, request
<1>4. /\ DOMAIN work'[c] = DOMAIN work[c] \cup {id}
      /\ work'[c][id].origin = batch[c][at[c]].sug
      /\ \A n \in DOMAIN work[c] : n # id => work'[c][n] = work[c][n]
  <2>1. work'[c] = With(work[c], id, new)
    BY DEF TypeOK, InsertMapping
  <2>2. new.origin = batch[c][at[c]].sug
    BY DEF Row
  <2> HIDE DEF id, new
  <2> QED
    BY <2>1, <2>2 DEF With
<1>5. Own(c)'
  <2>1. Own(c) /\ DOMAIN relink[c] = {}
    BY DEF StoreInv, Own
  <2>2. id[1] = c /\ id[2] = at[c]
    OBVIOUS
  <2> HIDE DEF id
  <2> QED
    BY <2>1, <2>2, <1>1, <1>3, <1>4 DEF Own, Running
<1>6. ASSUME NEW i \in DOMAIN batch[c], i < at[c] PROVE Written(c, i)'
  <2>1. Written(c, i)
    BY <1>6 DEF StoreInv, Progress
  <2> HIDE DEF id
  <2> QED
    BY <2>1, <1>3, <1>4 DEF Written
<1>7. ASSUME NEW i \in DOMAIN batch[c], i = at[c] PROVE Written(c, i)'
  BY <1>7, <1>3, <1>4, ConstantsAssumption DEF Written, Row
<1>8. at[c] \in Nat
  BY <1>1
<1>9. Progress(c)'
  BY <1>1, <1>3, <1>6, <1>7, <1>8 DEF Progress
<1> QED
  BY <1>2, <1>3, <1>5, <1>9, QuietStep DEF TypeOK

LEMMA LinkStep == ASSUME TypeOK, StoreInv, NEW c \in Saves, LinkRow(c) PROVE StoreInv'
<1> DEFINE id == <<c, at[c]>>
<1>1. /\ at[c] \in DOMAIN batch[c]
      /\ \A i \in DOMAIN batch[c] : i \in Nat
      /\ More(c) /\ pc[c] = "links"
  <2>1. More(c) /\ pc[c] = "links"
    BY DEF LinkRow
  <2>2. at[c] \in DOMAIN batch[c]
    BY <2>1, RowIsRow
  <2>3. \A i \in DOMAIN batch[c] : i \in Nat
    BY BodyIsSequence
  <2> QED
    BY <2>1, <2>2, <2>3
<1>2. \A d \in Saves : d # c => Still(d)
  BY DEF Still, TypeOK, LinkRow, request
<1>3. /\ pc' = pc /\ at'[c] = at[c] + 1 /\ target' = target /\ work' = work
      /\ batch' = batch /\ missing' = missing /\ mapping' = mapping /\ link' = link
  BY DEF TypeOK, LinkRow, request
<1>4. IF ToLink(c) /\ Row(c).sug \in Suggestions
      THEN /\ DOMAIN relink'[c] = DOMAIN relink[c] \cup {Row(c).sug}
           /\ relink'[c][Row(c).sug] = id
           /\ \A s \in DOMAIN relink[c] : s # Row(c).sug => relink'[c][s] = relink[c][s]
      ELSE relink' = relink
  <2>1. CASE ToLink(c) /\ Row(c).sug \in Suggestions
    <3>1. relink'[c] = With(relink[c], Row(c).sug, id)
      BY <2>1 DEF LinkRow, TypeOK
    <3> HIDE DEF id
    <3> QED
      BY <2>1, <3>1 DEF With
  <2>2. CASE ~(ToLink(c) /\ Row(c).sug \in Suggestions)
    BY <2>2 DEF LinkRow
  <2> QED
    BY <2>1, <2>2
<1>5. ToLink(c) => id \in DOMAIN work[c] /\ work[c][id].origin = Row(c).sug
  <2>1. id[1] = c /\ id[2] = at[c]
    OBVIOUS
  <2>2. id \notin DOMAIN mapping
    BY <1>1, <2>1 DEF StoreInv, Own
  <2> HIDE DEF id
  <2>3. id \in DOMAIN work[c] => work[c][id].origin = batch[c][at[c]].sug
    BY <2>1, <2>2 DEF StoreInv, Own
  <2> QED
    BY <2>3 DEF ToLink, Row, id
<1>6. Own(c)'
  <2> HIDE DEF id
  <2>1. Own(c)
    BY DEF StoreInv
  <2> QED
    BY <2>1, <1>1, <1>3, <1>4, <1>5 DEF Own, Running
<1>7. ASSUME NEW i \in DOMAIN batch[c], i < at[c] PROVE Linked(c, i)'
  <2>1. Linked(c, i)
    BY <1>1, <1>7 DEF StoreInv, Progress
  <2> QED
    BY <2>1, <1>3, <1>4 DEF Linked
<1>8. ASSUME NEW i \in DOMAIN batch[c], i = at[c] PROVE Linked(c, i)'
  BY <1>8, <1>3, <1>4, ConstantsAssumption DEF Linked, Row, ToLink
<1>9. \A i \in DOMAIN batch[c] : Written(c, i)'
  BY <1>1, <1>3 DEF StoreInv, Progress, Written
<1>10. at[c] \in Nat
  BY <1>1
<1>11. Progress(c)'
  BY <1>1, <1>3, <1>7, <1>8, <1>9, <1>10 DEF Progress
<1> QED
  BY <1>1, <1>2, <1>3, <1>6, <1>11, QuietStep

\* The commit is where what a save has written meets what is committed.
LEMMA CommitStep == ASSUME TypeOK, StoreInv, NEW c \in Saves, Commit(c) PROVE StoreInv'
<1>1. /\ pc[c] = "commit" /\ pc'[c] = "done" /\ batch' = batch
      /\ DOMAIN work'[c] = {} /\ DOMAIN relink'[c] = {}
      /\ \A d \in Saves : d # c => Still(d)
  BY DEF Commit, TypeOK, request, Still
<1>2. /\ DOMAIN mapping' = DOMAIN mapping \cup DOMAIN work[c]
      /\ \A m \in DOMAIN mapping' :
            mapping'[m] = IF m \in DOMAIN work[c] THEN work[c][m] ELSE mapping[m]
  BY DEF Commit, View, Over
<1>3. \A s \in Suggestions :
         link'[s] = IF s \in DOMAIN relink[c] THEN relink[c][s] ELSE link[s]
  BY DEF Commit, Over, TypeOK
<1>4. /\ Own(c) /\ Progress(c) /\ SavedIsLinked /\ AllOrNothing
  BY DEF StoreInv
<1>5. \A m \in DOMAIN mapping : m[1] # c
  BY <1>1, <1>4 DEF Own
<1>6. ASSUME NEW m \in DOMAIN work[c], m \in DOMAIN mapping
      PROVE  work[c][m].origin = mapping[m].origin
  BY <1>4, <1>5, <1>6 DEF Own
<1>7. ASSUME NEW m \in DOMAIN work[c], m \notin DOMAIN mapping
      PROVE  m[1] = c /\ m[2] \in DOMAIN batch[c] /\ work[c][m].origin = batch[c][m[2]].sug
  BY <1>4, <1>7 DEF Own
<1>8. \A s \in DOMAIN relink[c] : s \in Suggestions /\ relink[c][s] # NoMapping
  BY ConstantsAssumption DEF TypeOK
<1>9. Grows
  <2>1. ASSUME NEW m \in DOMAIN mapping PROVE mapping'[m].origin = mapping[m].origin
    BY <1>2, <1>6
  <2>2. \A s \in Suggestions : link[s] # NoMapping => link'[s] # NoMapping
    BY <1>3, <1>8
  <2> QED
    BY <2>1, <2>2, <1>2 DEF Grows
<1>10. ASSUME NEW d \in Saves, d # c PROVE Own(d)' /\ Progress(d)'
  <2>1. \A m \in DOMAIN mapping' : m \in DOMAIN mapping \/ m[1] # d
    BY <1>2, <1>7, <1>10
  <2> QED
    BY <2>1, <1>1, <1>9, <1>10, StillKeeps DEF StoreInv
<1>11. Own(c)' /\ Progress(c)'
  BY <1>1 DEF Own, Progress, Running
<1>12. SavedIsLinked'
  <2>1. ASSUME NEW m \in DOMAIN mapping', mapping'[m].origin \in Suggestions
        PROVE  link'[mapping'[m].origin] # NoMapping
    <3>1. CASE m \in DOMAIN mapping
      <4>1. mapping'[m].origin = mapping[m].origin /\ link[mapping[m].origin] # NoMapping
        BY <2>1, <3>1, <1>4, <1>9 DEF SavedIsLinked, Grows
      <4> QED
        BY <2>1, <4>1, <1>9 DEF Grows
    <3>2. CASE m \notin DOMAIN mapping
      <4>1. m \in DOMAIN work[c] /\ mapping'[m] = work[c][m]
        BY <2>1, <3>2, <1>2
      <4>2. PICK i \in DOMAIN batch[c] : i = m[2]
        BY <3>2, <4>1, <1>7
      <4>3. m = <<c, i>> /\ work[c][m].origin = batch[c][i].sug
        <5>1. m \in Ids
          BY <4>1 DEF TypeOK
        <5> QED
          BY <3>2, <4>1, <4>2, <5>1, <1>7 DEF Ids
      <4>4. batch[c][i].sug \in DOMAIN relink[c]
        BY <2>1, <4>1, <4>3, <1>1, <1>4 DEF Progress, Linked
      <4> QED
        BY <4>1, <4>3, <4>4, <1>3, <1>8
    <3> QED
      BY <3>1, <3>2
  <2>2. ASSUME NEW s \in Suggestions, link'[s] # NoMapping
        PROVE  link'[s] \in DOMAIN mapping' /\ mapping'[link'[s]].origin = s
    <3>1. CASE s \in DOMAIN relink[c]
      BY <3>1, <1>2, <1>3, <1>4 DEF Own
    <3>2. CASE s \notin DOMAIN relink[c]
      BY <2>2, <3>2, <1>2, <1>3, <1>4, <1>9 DEF SavedIsLinked, Grows
    <3> QED
      BY <3>1, <3>2
  <2> QED
    BY <2>1, <2>2 DEF SavedIsLinked
<1>13. ASSUME NEW d \in Saves, d # c
       PROVE  IF pc'[d] = "done" THEN \A i \in DOMAIN batch'[d] : RowSaved(d, i)'
              ELSE \A m \in DOMAIN mapping' : m[1] # d
  <2>1. CASE pc[d] = "done"
    <3>1. ASSUME NEW i \in DOMAIN batch[d], RowSaved(d, i) PROVE RowSaved(d, i)'
      BY <3>1, <1>1, <1>9 DEF RowSaved, Grows
    <3> QED
      BY <2>1, <3>1, <1>1, <1>4, <1>13 DEF AllOrNothing, Still
  <2>2. CASE pc[d] # "done"
    BY <2>2, <1>1, <1>2, <1>4, <1>7, <1>13 DEF AllOrNothing, Still
  <2> QED
    BY <2>1, <2>2
<1>14. ASSUME NEW i \in DOMAIN batch[c] PROVE RowSaved(c, i)'
  <2>1. Written(c, i) /\ Linked(c, i) /\ ~missing[c]
    BY <1>1, <1>4 DEF Progress
  <2>2. batch[c][i].sug \in Suggestions => link'[batch[c][i].sug] # NoMapping
    BY <2>1, <1>3, <1>8, <1>9, ConstantsAssumption DEF Written, Linked, Grows
  <2>3. <<c, i>> \in DOMAIN work[c] => <<c, i>> \in DOMAIN mapping'
    BY <1>2
  <2>4. batch[c][i].id \in DOMAIN mapping \cup DOMAIN work[c] => batch[c][i].id \in DOMAIN mapping'
    BY <1>2
  <2> QED
    BY <2>1, <2>2, <2>3, <2>4, <1>1, ConstantsAssumption DEF Written, RowSaved
<1>15. AllOrNothing'
  BY <1>1, <1>13, <1>14 DEF AllOrNothing
<1> QED
  BY <1>10, <1>11, <1>12, <1>15 DEF StoreInv

LEMMA StoreInit == Init => StoreInv
  BY ConstantsAssumption
     DEF Init, StoreInv, Own, Progress, SavedIsLinked, AllOrNothing, Running

LEMMA StoreStep == TypeOK /\ StoreInv /\ [Next]_vars => StoreInv'
<1> SUFFICES ASSUME TypeOK, StoreInv, [Next]_vars PROVE StoreInv'
  OBVIOUS
<1>1. ASSUME NEW c \in Saves, NEW b \in Batches, Begin(c, b) PROVE StoreInv'
  <2>1. Own(c)'
    BY <1>1 DEF Begin, StoreInv, Own, TypeOK, Running
  <2>2. /\ pc[c] = "new" /\ pc'[c] = "rows" /\ at'[c] = 1 /\ batch'[c] = b
        /\ UNCHANGED <<mapping, link>>
    BY <1>1 DEF Begin, StoreInv, Progress, TypeOK
  <2>3. b \in Seq(Rows)
    BY ConstantsAssumption
  <2>4. Progress(c)'
    <3>1. \A i \in DOMAIN b : ~(i < 1)
      BY <2>3
    <3> QED
      BY <2>2, <3>1 DEF Progress
  <2>5. \A d \in Saves : d # c => Still(d)
    BY <1>1 DEF Begin, Still, TypeOK
  <2> QED
    BY <2>1, <2>2, <2>4, <2>5, QuietStep
<1>2. ASSUME NEW c \in Saves, ReadSuggestion(c) PROVE StoreInv'
  <2>1. /\ pc[c] = "rows" /\ pc'[c] = "found"
        /\ Row(c)' = Row(c) /\ Row(c).sug # NoSuggestion
        /\ UNCHANGED <<mapping, link, batch, at, missing, work, relink>>
        /\ target'[c] # NoMapping => Row(c).sug \in Suggestions /\ link[Row(c).sug] # NoMapping
    BY <1>2 DEF ReadSuggestion, TypeOK, Row, request
  <2>2. Own(c)'
    BY <2>1 DEF StoreInv, Own, Running
  <2>3. Progress(c)'
    BY <2>1 DEF StoreInv, Progress, Written
  <2>4. \A d \in Saves : d # c => Still(d)
    BY <1>2 DEF ReadSuggestion, Still, TypeOK, request
  <2> QED
    BY <2>1, <2>2, <2>3, <2>4, QuietStep
<1>3. ASSUME NEW c \in Saves, UpdateLinked(c) PROVE StoreInv'
  <2>1. pc[c] = "found" /\ target[c] \in Ids /\ More(c)
    BY <1>3 DEF UpdateLinked, TypeOK
  <2> QED
    BY <1>3, <2>1, UpdateStep DEF UpdateLinked, StoreInv, Progress
<1>4. ASSUME NEW c \in Saves, UpdateById(c) PROVE StoreInv'
  <2>1. Row(c).id \in Ids
    BY <1>4, RowIsRow DEF UpdateById, Rows
  <2> QED
    BY <1>4, <2>1, UpdateStep DEF UpdateById
<1>5. ASSUME NEW c \in Saves, InsertFromSuggestion(c) PROVE StoreInv'
  <2>1. More(c) /\ Row(c).sug # NoSuggestion
    BY <1>5 DEF InsertFromSuggestion, TypeOK, StoreInv, Progress
  <2> QED
    BY <1>5, <2>1, InsertStep DEF InsertFromSuggestion
<1>6. ASSUME NEW c \in Saves, InsertManual(c) PROVE StoreInv'
  BY <1>6, InsertStep DEF InsertManual
<1>7. ASSUME NEW c \in Saves, Flush(c) PROVE StoreInv'
  <2>1. /\ pc[c] = "rows" /\ pc'[c] = "links" /\ at'[c] = 1 /\ ~More(c)
        /\ UNCHANGED <<mapping, link, batch, missing, work, relink>>
    BY <1>7 DEF Flush, TypeOK, request
  <2>2. \A i \in DOMAIN batch[c] : ~(i < 1) /\ i < at[c]
    <3>1. at[c] \in Nat
      BY ConstantsAssumption DEF TypeOK
    <3> QED
      BY <2>1, <3>1, BodyIsSequence DEF More
  <2>3. Own(c)'
    BY <2>1 DEF StoreInv, Own, Running
  <2>4. Progress(c)'
    BY <2>1, <2>2 DEF StoreInv, Progress, Written
  <2>5. \A d \in Saves : d # c => Still(d)
    BY <1>7 DEF Flush, Still, TypeOK, request
  <2> QED
    BY <2>1, <2>3, <2>4, <2>5, QuietStep
<1>8. ASSUME NEW c \in Saves, LinkRow(c) PROVE StoreInv'
  BY <1>8, LinkStep
<1>9. ASSUME NEW c \in Saves, RaiseMissing(c) PROVE StoreInv'
  BY <1>9, RollbackStep DEF RaiseMissing, Running
<1>10. ASSUME NEW c \in Saves, ReadProject(c) PROVE StoreInv'
  <2>1. /\ pc[c] = "links" /\ pc'[c] = "commit" /\ ~More(c) /\ ~missing[c]
        /\ UNCHANGED <<mapping, link, batch, missing, work, relink>>
    BY <1>10 DEF ReadProject, TypeOK
  <2>2. \A i \in DOMAIN batch[c] : i < at[c]
    <3>1. at[c] \in Nat
      BY ConstantsAssumption DEF TypeOK
    <3> QED
      BY <2>1, <3>1, BodyIsSequence DEF More
  <2>3. Own(c)'
    BY <2>1 DEF StoreInv, Own, Running
  <2>4. Progress(c)'
    BY <2>1, <2>2 DEF StoreInv, Progress, Written, Linked
  <2>5. \A d \in Saves : d # c => Still(d)
    BY <1>10 DEF ReadProject, Still, TypeOK
  <2> QED
    BY <2>1, <2>3, <2>4, <2>5, QuietStep
<1>11. ASSUME NEW c \in Saves, Commit(c) PROVE StoreInv'
  BY <1>11, CommitStep
<1>12. ASSUME NEW c \in Saves, DeadlockVictim(c) \/ SaveFails(c) PROVE StoreInv'
  BY <1>12, RollbackStep DEF DeadlockVictim, SaveFails
<1>13. ASSUME NEW m \in DOMAIN mapping, DeleteMapping(m) PROVE StoreInv'
  <2>1. /\ DOMAIN mapping' = DOMAIN mapping /\ link' = link
        /\ \A n \in DOMAIN mapping : mapping'[n].origin = mapping[n].origin
        /\ UNCHANGED <<pc, batch>>
    BY <1>13 DEF DeleteMapping, TypeOK, Mappings, request
  <2>2. \A d \in Saves : Still(d)
    BY <1>13 DEF DeleteMapping, Still, request
  <2>3. ASSUME NEW d \in Saves PROVE Own(d)' /\ Progress(d)'
    BY <2>1, <2>2, StillKeeps DEF StoreInv, Grows
  <2>4. SavedIsLinked'
    BY <2>1 DEF StoreInv, SavedIsLinked
  <2>5. AllOrNothing'
    BY <2>1 DEF StoreInv, AllOrNothing, RowSaved
  <2> QED
    BY <2>3, <2>4, <2>5 DEF StoreInv
<1>14. ASSUME NEW s \in Statuses, UpdateProject(s) PROVE StoreInv'
  BY <1>14 DEF UpdateProject, StoreInv, Own, Progress, Written, Linked, SavedIsLinked,
               AllOrNothing, RowSaved, Running, Row, request
<1>15. CASE UNCHANGED vars
  BY <1>15 DEF vars, StoreInv, Own, Progress, Written, Linked, SavedIsLinked,
               AllOrNothing, RowSaved, Running, Row
<1> QED
  BY <1>1, <1>2, <1>3, <1>4, <1>5, <1>6, <1>7, <1>8, <1>9, <1>10, <1>11, <1>12,
     <1>13, <1>14, <1>15 DEF Next, SaveStep

LEMMA StoreInvHolds == Spec => [](TypeOK /\ StoreInv)
<1>1. Init => TypeOK /\ StoreInv
  BY TypeInit, StoreInit
<1>2. TypeOK /\ StoreInv /\ [Next]_vars => (TypeOK /\ StoreInv)'
  BY TypeStep, StoreStep
<1> QED
  BY <1>1, <1>2, PTL DEF Spec

-----------------------------------------------------------------------------
(* Saves that follow each other *)

\* The mapping by which the running save will show the suggestion of row i.
Mine(c, i) == IF link[batch[c][i].sug] = NoMapping THEN <<c, i>> ELSE link[batch[c][i].sug]

\* Row i is in what the save has written, as it says, unless another row speaks
\* of the same mapping.
Put(c, i) ==
    /\ NamesOnce(batch[c])
    /\ batch[c][i].sug \in Suggestions
    /\ \A j \in DOMAIN batch[c] : batch[c][j].sug = NoSuggestion => batch[c][j].id # Mine(c, i)
    => Mine(c, i) \in DOMAIN work[c] /\ work[c][Mine(c, i)].active = batch[c][i].active

\* Nobody else commits, so what a running save has read of the links still holds.
Solo(c) ==
    /\ \A m \in DOMAIN work[c] :
          m \notin DOMAIN mapping /\ work[c][m].origin \in Suggestions =>
              link[work[c][m].origin] = NoMapping
    /\ \A s \in DOMAIN relink[c] : relink[c][s][1] = c
    /\ pc[c] = "found" /\ Row(c).sug \in Suggestions => target[c] = link[Row(c).sug]
    /\ \A i \in DOMAIN batch[c] : i < at[c] \/ pc[c] \in {"links", "commit"} => Put(c, i)

SoloInv ==
    ~overlap => /\ \A c, d \in Saves : Running(c) /\ Running(d) => c = d
                /\ \A c \in Saves : /\ Running(c) => Solo(c)
                                    /\ pc[c] = "new" => batch[c] = <<>>

LEMMA SoloInit == Init => SoloInv
  BY DEF Init, SoloInv, Running

\* While saves follow each other, a step of one of them concerns no other.
LEMMA SoloStep ==
    ASSUME SoloInv, UNCHANGED overlap, NEW c \in Saves,
           ~overlap => Running(c) \/ \A d \in Saves : ~Running(d),
           \A d \in Saves : d # c => Still(d),
           pc'[c] # "new", ~overlap /\ Running(c)' => Solo(c)'
    PROVE  SoloInv'
<1>1. ASSUME NEW d \in Saves, d # c PROVE Running(d)' = Running(d)
  BY <1>1 DEF Still, Running
<1>2. ASSUME ~overlap, NEW d \in Saves, d # c PROVE ~Running(d)'
  BY <1>1, <1>2 DEF SoloInv
<1>3. ASSUME ~overlap, NEW d \in Saves, pc'[d] = "new" PROVE batch'[d] = <<>>
  <2>1. d # c /\ Still(d)
    BY <1>3
  <2> QED
    BY <1>3, <2>1 DEF SoloInv, Still
<1> QED
  BY <1>2, <1>3 DEF SoloInv

\* The mapping a suggestion points to was not made by a save that has not ended.
LEMMA LinkIsOld ==
    ASSUME TypeOK, StoreInv, NEW c \in Saves, pc[c] # "done", NEW s \in Suggestions,
           link[s] # NoMapping
    PROVE  /\ link[s] \in DOMAIN mapping /\ mapping[link[s]].origin = s
           /\ link[s][1] # c
  BY DEF StoreInv, SavedIsLinked, Own

\* Two rows of a body have two mappings.
LEMMA MineDiffers ==
    ASSUME TypeOK, StoreInv, NEW c \in Saves, pc[c] # "done", NamesOnce(batch[c]),
           NEW i \in DOMAIN batch[c], NEW j \in DOMAIN batch[c], i # j,
           batch[c][i].sug \in Suggestions
    PROVE  /\ Mine(c, i) # <<c, j>>
           /\ batch[c][j].sug \in Suggestions /\ link[batch[c][j].sug] # NoMapping =>
                  Mine(c, i) # link[batch[c][j].sug]
<1>1. CASE link[batch[c][i].sug] = NoMapping
  <2>1. Mine(c, i) = <<c, i>>
    BY <1>1 DEF Mine
  <2>2. batch[c][j].sug \in Suggestions /\ link[batch[c][j].sug] # NoMapping =>
            link[batch[c][j].sug][1] # c
    BY LinkIsOld
  <2> QED
    BY <2>1, <2>2
<1>2. CASE link[batch[c][i].sug] # NoMapping
  <2>1. Mine(c, i) = link[batch[c][i].sug]
    BY <1>2 DEF Mine
  <2>2. mapping[link[batch[c][i].sug]].origin = batch[c][i].sug /\ link[batch[c][i].sug][1] # c
    BY <1>2, LinkIsOld
  <2>3. batch[c][j].sug \in Suggestions /\ link[batch[c][j].sug] # NoMapping =>
            mapping[link[batch[c][j].sug]].origin = batch[c][j].sug
    BY LinkIsOld
  <2>4. batch[c][j].sug # batch[c][i].sug
    BY DEF NamesOnce
  <2> QED
    BY <2>1, <2>2, <2>3, <2>4
<1> QED
  BY <1>1, <1>2

\* A row that was put stays so when the save writes another mapping.
LEMMA PutStays ==
    ASSUME NEW c \in Saves, NEW i \in DOMAIN batch[c], Put(c, i),
           link' = link, batch' = batch,
           DOMAIN work[c] \subseteq DOMAIN work'[c],
           Mine(c, i) \in DOMAIN work[c] => 
               work'[c][Mine(c, i)].active = work[c][Mine(c, i)].active
    PROVE  Put(c, i)'
<1>1. Mine(c, i)' = Mine(c, i)
  BY DEF Mine
<1> QED
  BY <1>1 DEF Put

LEMMA AtRow ==
    ASSUME TypeOK, NEW c \in Saves, More(c)
    PROVE  /\ at[c] \in DOMAIN batch[c] /\ at[c] \in Nat
           /\ \A i \in DOMAIN batch[c] : i \in Nat
<1>1. at[c] \in DOMAIN batch[c]
  BY RowIsRow
<1>2. \A i \in DOMAIN batch[c] : i \in Nat
  BY BodyIsSequence
<1> QED
  BY <1>1, <1>2

\* What writing a mapping leaves of the others.
LEMMA WorkGrows ==
    ASSUME TypeOK, NEW c \in Saves, NEW m \in Ids, More(c), UpdateMapping(c, m)
    PROVE  /\ \A n \in DOMAIN work[c] : n \in DOMAIN work'[c]
                                        /\ work'[c][n].origin = work[c][n].origin
                                        /\ (n # m => work'[c][n].active = work[c][n].active)
           /\ \A n \in DOMAIN work'[c] : n \in DOMAIN work[c] \/ n \in DOMAIN mapping
           /\ m \in DOMAIN mapping => m \in DOMAIN work'[c] /\ work'[c][m].active = Row(c).active
<1>1. CASE m \in DOMAIN View(c)
  <2> DEFINE new == [View(c)[m] EXCEPT !.active = Row(c).active]
  <2>1. /\ View(c)[m] \in Mappings
        /\ View(c)[m] = IF m \in DOMAIN work[c] THEN work[c][m] ELSE mapping[m]
        /\ m \in DOMAIN mapping \cup DOMAIN work[c]
    BY <1>1 DEF View, Over, TypeOK
  <2>2. new.origin = View(c)[m].origin /\ new.active = Row(c).active
    BY <2>1 DEF Mappings
  <2>3. work'[c] = With(work[c], m, new)
    BY <1>1 DEF TypeOK, UpdateMapping
  <2> HIDE DEF new
  <2> QED
    BY <2>1, <2>2, <2>3 DEF With
<1>2. CASE m \notin DOMAIN View(c)
  <2>1. work' = work /\ m \notin DOMAIN mapping
    BY <1>2 DEF UpdateMapping, View, Over
  <2> QED
    BY <2>1
<1> QED
  BY <1>1, <1>2

LEMMA SoloUpdate ==
    ASSUME TypeOK, StoreInv, SoloInv, ~overlap, NEW c \in Saves, NEW m \in Ids, More(c),
           UpdateMapping(c, m), pc[c] \in {"rows", "found"},
           \/ pc[c] = "rows" /\ Row(c).sug = NoSuggestion /\ m = Row(c).id
           \/ pc[c] = "found" /\ m = target[c]
    PROVE  Solo(c)'
<1>1. /\ Solo(c) /\ Own(c) /\ Progress(c)
  BY DEF SoloInv, StoreInv, Running
<1>2. /\ at[c] \in DOMAIN batch[c] /\ at[c] \in Nat
      /\ \A i \in DOMAIN batch[c] : i \in Nat
  BY AtRow
<1>3. /\ pc'[c] = "rows" /\ at'[c] = at[c] + 1
      /\ batch' = batch /\ relink' = relink /\ mapping' = mapping /\ link' = link
  BY DEF TypeOK, UpdateMapping, NextRow
<1>4. DOMAIN work[c] \subseteq DOMAIN work'[c]
  BY WorkGrows
<1>5. ASSUME NEW i \in DOMAIN batch[c], i < at[c] PROVE Put(c, i)'
  <2>1. Put(c, i)
    BY <1>1, <1>5 DEF Solo
  <2>2. CASE Mine(c, i) # m
    <3>1. Mine(c, i) \in DOMAIN work[c] =>
              work'[c][Mine(c, i)].active = work[c][Mine(c, i)].active
      BY <2>2, WorkGrows
    <3> QED
      BY <2>1, <3>1, <1>3, <1>4, PutStays
  <2>3. CASE Mine(c, i) = m
    <3> SUFFICES ASSUME NamesOnce(batch[c]), batch[c][i].sug \in Suggestions,
                        \A j \in DOMAIN batch[c] :
                            batch[c][j].sug = NoSuggestion => batch[c][j].id # Mine(c, i)
                 PROVE  FALSE
      <4>1. Mine(c, i)' = Mine(c, i)
        BY <1>3 DEF Mine
      <4> QED
        BY <4>1, <1>3 DEF Put
    <3>1. pc[c] = "found" /\ m = target[c] /\ target[c] # NoMapping
      BY <2>3, <1>2, ConstantsAssumption DEF Row
    <3>2. Row(c).sug \in Suggestions /\ m = link[Row(c).sug]
      BY <3>1, <1>1 DEF Solo, Progress
    <3>3. i # at[c] /\ pc[c] # "done"
      BY <1>5, <1>2
    <3> QED
      BY <2>3, <3>1, <3>2, <3>3, <1>2, MineDiffers DEF Row
  <2> QED
    BY <2>2, <2>3
<1>6. ASSUME NEW i \in DOMAIN batch[c], i = at[c] PROVE Put(c, i)'
  <2> SUFFICES ASSUME batch[c][i].sug \in Suggestions
               PROVE  Mine(c, i) \in DOMAIN work'[c]
                      /\ work'[c][Mine(c, i)].active = batch[c][i].active
    <3>1. Mine(c, i)' = Mine(c, i)
      BY <1>3 DEF Mine
    <3> QED
      BY <3>1, <1>3 DEF Put
  <2>1. Row(c) = batch[c][i] /\ pc[c] = "found" /\ m = target[c]
    BY <1>6, ConstantsAssumption DEF Row
  <2>2. m = link[batch[c][i].sug] /\ m # NoMapping
    BY <2>1, <1>1, ConstantsAssumption DEF Solo
  <2>3. Mine(c, i) = m /\ m \in DOMAIN mapping
    BY <2>2, LinkIsOld DEF Mine
  <2> QED
    BY <2>1, <2>3, WorkGrows
<1>7. ASSUME NEW n \in DOMAIN work'[c], n \notin DOMAIN mapping, work'[c][n].origin \in Suggestions
      PROVE  link[work'[c][n].origin] = NoMapping
  <2>1. n \in DOMAIN work[c] /\ work'[c][n].origin = work[c][n].origin
    BY <1>7, WorkGrows
  <2> QED
    BY <2>1, <1>7, <1>1 DEF Solo
<1>8. \A i \in DOMAIN batch[c] : i < at'[c] => Put(c, i)'
  BY <1>2, <1>3, <1>5, <1>6
<1> QED
  BY <1>1, <1>3, <1>7, <1>8 DEF Solo

LEMMA SoloInsert ==
    ASSUME TypeOK, StoreInv, SoloInv, ~overlap, NEW c \in Saves, More(c), InsertMapping(c),
           \/ pc[c] = "found" /\ target[c] = NoMapping
           \/ pc[c] = "rows" /\ Row(c).sug = NoSuggestion
    PROVE  Solo(c)'
<1> DEFINE id == <<c, at[c]>>
           new == [origin |-> Row(c).sug, active |-> Row(c).active]
<1>1. /\ Solo(c) /\ Own(c) /\ Progress(c) /\ pc[c] # "done"
  BY DEF SoloInv, StoreInv, Running
<1>2. /\ at[c] \in DOMAIN batch[c] /\ at[c] \in Nat
      /\ \A i \in DOMAIN batch[c] : i \in Nat
  BY AtRow
<1>3. /\ pc'[c] = "rows" /\ at'[c] = at[c] + 1
      /\ batch' = batch /\ relink' = relink /\ mapping' = mapping /\ link' = link
  BY DEF TypeOK, InsertMapping, NextRow, request
<1>4. /\ DOMAIN work'[c] = DOMAIN work[c] \cup {id}
      /\ work'[c][id].origin = Row(c).sug /\ work'[c][id].active = Row(c).active
      /\ \A n \in DOMAIN work[c] : n # id => work'[c][n] = work[c][n]
  <2>1. work'[c] = With(work[c], id, new)
    BY DEF TypeOK, InsertMapping
  <2>2. new.origin = Row(c).sug /\ new.active = Row(c).active
    OBVIOUS
  <2> HIDE DEF id, new
  <2> QED
    BY <2>1, <2>2 DEF With
<1>5. Row(c).sug \in Suggestions => link[Row(c).sug] = NoMapping
  BY <1>1, ConstantsAssumption DEF Solo
<1>6. ASSUME NEW i \in DOMAIN batch[c], i < at[c] PROVE Put(c, i)'
  <2>1. Put(c, i) /\ i # at[c]
    BY <1>1, <1>2, <1>6 DEF Solo
  <2> HIDE DEF id
  <2>2. CASE Mine(c, i) # id
    <3>1. Mine(c, i) \in DOMAIN work[c] =>
              work'[c][Mine(c, i)].active = work[c][Mine(c, i)].active
      BY <2>2, <1>4
    <3> QED
      BY <2>1, <3>1, <1>3, <1>4, PutStays
  <2>3. CASE Mine(c, i) = id
    <3>1. ~(NamesOnce(batch[c]) /\ batch[c][i].sug \in Suggestions)
      BY <2>1, <2>3, <1>1, <1>2, MineDiffers DEF id
    <3> QED
      BY <3>1, <1>3 DEF Put
  <2> QED
    BY <2>2, <2>3
<1>7. ASSUME NEW i \in DOMAIN batch[c], i = at[c] PROVE Put(c, i)'
  <2>1. batch[c][i].sug \in Suggestions => Mine(c, i) = id
    BY <1>5, <1>7 DEF Mine, Row
  <2>2. Mine(c, i)' = Mine(c, i)
    BY <1>3 DEF Mine
  <2> HIDE DEF id
  <2> QED
    BY <2>1, <2>2, <1>3, <1>4, <1>7 DEF Put, Row
<1>8. ASSUME NEW n \in DOMAIN work'[c], n \notin DOMAIN mapping, work'[c][n].origin \in Suggestions
      PROVE  link[work'[c][n].origin] = NoMapping
  <2> HIDE DEF id
  <2>1. CASE n = id
    BY <2>1, <1>4, <1>5, <1>8
  <2>2. CASE n # id
    BY <2>2, <1>1, <1>4, <1>8 DEF Solo
  <2> QED
    BY <2>1, <2>2
<1>9. \A i \in DOMAIN batch[c] : i < at'[c] => Put(c, i)'
  BY <1>2, <1>3, <1>6, <1>7
<1> QED
  BY <1>1, <1>3, <1>8, <1>9 DEF Solo

LEMMA SoloLink ==
    ASSUME TypeOK, StoreInv, SoloInv, ~overlap, NEW c \in Saves, LinkRow(c)
    PROVE  Solo(c)'
<1>1. Solo(c) /\ pc[c] = "links"
  BY DEF SoloInv, LinkRow, Running
<1>2. /\ pc' = pc /\ batch' = batch /\ work' = work /\ mapping' = mapping /\ link' = link
  BY DEF LinkRow, request
<1>3. \A i \in DOMAIN batch[c] : Put(c, i)'
  BY <1>1, <1>2 DEF Solo, Put, Mine
<1>4. ASSUME NEW s \in DOMAIN relink'[c] PROVE relink'[c][s][1] = c
  <2>1. CASE ToLink(c) /\ Row(c).sug \in Suggestions
    <3> DEFINE id == <<c, at[c]>>
    <3>1. relink'[c] = With(relink[c], Row(c).sug, id) /\ id[1] = c
      BY <2>1 DEF LinkRow, TypeOK
    <3> HIDE DEF id
    <3> QED
      BY <3>1, <1>1, <1>4 DEF With, Solo
  <2>2. CASE ~(ToLink(c) /\ Row(c).sug \in Suggestions)
    BY <2>2, <1>1, <1>4 DEF LinkRow, Solo
  <2> QED
    BY <2>1, <2>2
<1> QED
  BY <1>1, <1>2, <1>3, <1>4 DEF Solo

LEMMA SoloInvStep == TypeOK /\ StoreInv /\ SoloInv /\ [Next]_vars => SoloInv'
<1> SUFFICES ASSUME TypeOK, StoreInv, SoloInv, [Next]_vars PROVE SoloInv'
  OBVIOUS
<1>1. ASSUME NEW c \in Saves, NEW b \in Batches, Begin(c, b) PROVE SoloInv'
  <2>1. /\ pc[c] = "new" /\ pc'[c] = "rows" /\ at'[c] = 1 /\ batch'[c] = b
        /\ UNCHANGED <<overlap, mapping, link, work, relink>>
    BY <1>1 DEF Begin, StoreInv, Progress, TypeOK
  <2>2. DOMAIN work[c] = {} /\ DOMAIN relink[c] = {}
    BY <2>1 DEF StoreInv, Own, Running
  <2>3. \A i \in DOMAIN b : ~(i < 1)
    BY ConstantsAssumption
  <2>4. Solo(c)'
    BY <2>1, <2>2, <2>3 DEF Solo
  <2>5. \A d \in Saves : d # c => Still(d)
    BY <1>1 DEF Begin, Still, TypeOK
  <2>6. ~overlap => \A d \in Saves : ~Running(d)
    BY <1>1 DEF Begin
  <2> QED
    BY <2>1, <2>4, <2>5, <2>6, SoloStep
<1>2. ASSUME NEW c \in Saves, ReadSuggestion(c) PROVE SoloInv'
  <2>1. /\ pc[c] = "rows" /\ pc'[c] = "found"
        /\ UNCHANGED <<overlap, mapping, link, batch, at, work, relink>>
        /\ target'[c] = IF Row(c).sug \in Suggestions THEN link[Row(c).sug] ELSE NoMapping
    BY <1>2 DEF ReadSuggestion, TypeOK, request
  <2>2. ~overlap => Solo(c)'
    <3>1. (\A i : Put(c, i)' = Put(c, i)) /\ Row(c)' = Row(c)
      BY <2>1 DEF Put, Mine, Row
    <3>2. ~overlap => Solo(c)
      BY <2>1 DEF SoloInv, Running
    <3> QED
      BY <2>1, <3>1, <3>2 DEF Solo
  <2>3. \A d \in Saves : d # c => Still(d)
    BY <1>2 DEF ReadSuggestion, Still, TypeOK, request
  <2> QED
    BY <2>1, <2>2, <2>3, SoloStep DEF Running
<1>3. ASSUME NEW c \in Saves, UpdateLinked(c) PROVE SoloInv'
  <2>1. pc[c] = "found" /\ target[c] \in Ids /\ More(c) /\ UpdateMapping(c, target[c])
    BY <1>3 DEF UpdateLinked, TypeOK
  <2>2. ~overlap => Solo(c)'
    BY <2>1, SoloUpdate
  <2>3. (\A d \in Saves : d # c => Still(d)) /\ overlap' = overlap /\ pc'[c] = "rows"
    BY <2>1 DEF UpdateMapping, NextRow, Still, TypeOK
  <2> QED
    BY <2>1, <2>2, <2>3, SoloStep DEF Running
<1>4. ASSUME NEW c \in Saves, UpdateById(c) PROVE SoloInv'
  <2>1. /\ pc[c] = "rows" /\ Row(c).sug = NoSuggestion /\ More(c)
        /\ UpdateMapping(c, Row(c).id) /\ Row(c).id \in Ids
    BY <1>4, RowIsRow DEF UpdateById, Rows
  <2>2. ~overlap => Solo(c)'
    BY <2>1, SoloUpdate
  <2>3. (\A d \in Saves : d # c => Still(d)) /\ overlap' = overlap /\ pc'[c] = "rows"
    BY <2>1 DEF UpdateMapping, NextRow, Still, TypeOK
  <2> QED
    BY <2>1, <2>2, <2>3, SoloStep DEF Running
<1>5. ASSUME NEW c \in Saves, InsertFromSuggestion(c) \/ InsertManual(c) PROVE SoloInv'
  <2>1. /\ More(c) /\ InsertMapping(c)
        /\ \/ pc[c] = "found" /\ target[c] = NoMapping
           \/ pc[c] = "rows" /\ Row(c).sug = NoSuggestion
    BY <1>5 DEF InsertFromSuggestion, InsertManual, TypeOK
  <2>2. ~overlap => Solo(c)'
    BY <2>1, SoloInsert
  <2>3. (\A d \in Saves : d # c => Still(d)) /\ overlap' = overlap /\ pc'[c] = "rows"
    BY <2>1 DEF InsertMapping, NextRow, Still, TypeOK, request
  <2> QED
    BY <2>1, <2>2, <2>3, SoloStep DEF Running
<1>6. ASSUME NEW c \in Saves, Flush(c) PROVE SoloInv'
  <2>1. /\ pc[c] = "rows" /\ pc'[c] = "links" /\ ~More(c)
        /\ UNCHANGED <<overlap, mapping, link, batch, work, relink>>
    BY <1>6 DEF Flush, TypeOK, request
  <2>2. \A i \in DOMAIN batch[c] : i < at[c]
    <3>1. at[c] \in Nat
      BY ConstantsAssumption DEF TypeOK
    <3> QED
      BY <2>1, <3>1, BodyIsSequence DEF More
  <2>3. ~overlap => Solo(c)'
    BY <2>1, <2>2 DEF SoloInv, Running, Solo, Put, Mine
  <2>4. \A d \in Saves : d # c => Still(d)
    BY <1>6 DEF Flush, Still, TypeOK, request
  <2> QED
    BY <2>1, <2>3, <2>4, SoloStep DEF Running
<1>7. ASSUME NEW c \in Saves, LinkRow(c) PROVE SoloInv'
  <2>1. pc[c] = "links" /\ pc' = pc /\ overlap' = overlap
    BY <1>7 DEF LinkRow, request
  <2>2. ~overlap => Solo(c)'
    BY <1>7, SoloLink
  <2>3. \A d \in Saves : d # c => Still(d)
    BY <1>7 DEF LinkRow, Still, TypeOK, request
  <2> QED
    BY <2>1, <2>2, <2>3, SoloStep DEF Running
<1>8. ASSUME NEW c \in Saves, ReadProject(c) PROVE SoloInv'
  <2>1. /\ pc[c] = "links" /\ pc'[c] = "commit"
        /\ UNCHANGED <<overlap, mapping, link, batch, work, relink>>
    BY <1>8 DEF ReadProject, TypeOK
  <2>2. ~overlap => Solo(c)'
    BY <2>1 DEF SoloInv, Running, Solo, Put, Mine
  <2>3. \A d \in Saves : d # c => Still(d)
    BY <1>8 DEF ReadProject, Still, TypeOK
  <2> QED
    BY <2>1, <2>2, <2>3, SoloStep DEF Running
<1>9. ASSUME NEW c \in Saves, Running(c), Rollback(c) \/ Commit(c) PROVE SoloInv'
  <2>1. pc'[c] \in {"done", "failed"} /\ overlap' = overlap
    BY <1>9 DEF Rollback, Commit, TypeOK, request
  <2>2. \A d \in Saves : d # c => Still(d)
    BY <1>9 DEF Rollback, Commit, TypeOK, request, Still
  <2> QED
    BY <1>9, <2>1, <2>2, SoloStep DEF Running
<1>10. ASSUME NEW m \in DOMAIN mapping, DeleteMapping(m) PROVE SoloInv'
  <2>1. /\ DOMAIN mapping' = DOMAIN mapping
        /\ UNCHANGED <<overlap, link, pc, batch, at, target, work, relink>>
    BY <1>10 DEF DeleteMapping, request
  <2> QED
    BY <2>1, SMTT(30) DEF SoloInv, Solo, Put, Mine, Running, Row
<1>11. CASE (\E s \in Statuses : UpdateProject(s)) \/ UNCHANGED vars
  <2>1. UNCHANGED <<overlap, mapping, link, pc, batch, at, target, work, relink>>
    BY <1>11 DEF UpdateProject, vars, request
  <2> QED
    BY <2>1 DEF SoloInv, Solo, Put, Mine, Running, Row
<1>12. ASSUME NEW c \in Saves, RaiseMissing(c) \/ DeadlockVictim(c) \/ SaveFails(c) \/ Commit(c)
       PROVE  Running(c) /\ (Rollback(c) \/ Commit(c))
  BY <1>12 DEF RaiseMissing, DeadlockVictim, SaveFails, Commit, Running
<1> QED
  BY <1>1, <1>2, <1>3, <1>4, <1>5, <1>6, <1>7, <1>8, <1>9, <1>10, <1>11, <1>12
     DEF Next, SaveStep

\* Of one suggestion a save that commits makes one mapping, and none if it has one.
LEMMA CommitOnce ==
    ASSUME TypeOK, StoreInv, SoloInv, ~overlap, NEW c \in Saves, Commit(c),
           NamesOnce(batch[c]), OneMappingEach
    PROVE  OneMappingEach'
<1>1. /\ Solo(c) /\ Own(c) /\ SavedIsLinked /\ \A m \in DOMAIN mapping : m[1] # c
  BY DEF SoloInv, StoreInv, Own, Commit, Running
<1>2. /\ DOMAIN mapping' = DOMAIN mapping \cup DOMAIN work[c]
      /\ \A m \in DOMAIN mapping' :
            mapping'[m] = IF m \in DOMAIN work[c] THEN work[c][m] ELSE mapping[m]
  BY DEF Commit, View, Over
<1>3. ASSUME NEW m \in DOMAIN mapping PROVE mapping'[m].origin = mapping[m].origin
  BY <1>1, <1>2 DEF Own
<1>4. ASSUME NEW m \in DOMAIN mapping', m \notin DOMAIN mapping,
             mapping'[m].origin \in Suggestions
      PROVE  /\ link[mapping'[m].origin] = NoMapping
             /\ m[2] \in DOMAIN batch[c] /\ batch[c][m[2]].sug = mapping'[m].origin
             /\ m = <<c, m[2]>>
  <2>1. m \in DOMAIN work[c] /\ mapping'[m] = work[c][m] /\ m \in Ids
    BY <1>2, <1>4 DEF TypeOK
  <2>2. m[1] = c /\ m = <<m[1], m[2]>>
    BY <2>1, <1>1, <1>4 DEF Own, Ids
  <2> QED
    BY <2>1, <2>2, <1>1, <1>4 DEF Own, Solo
<1>5. ASSUME NEW m \in DOMAIN mapping', NEW n \in DOMAIN mapping',
             mapping'[m].origin = mapping'[n].origin, mapping'[m].origin \in Suggestions
      PROVE  m = n
  <2>1. CASE m \in DOMAIN mapping /\ n \in DOMAIN mapping
    BY <2>1, <1>3, <1>5 DEF OneMappingEach
  <2>2. CASE m \in DOMAIN mapping /\ n \notin DOMAIN mapping
    BY <2>2, <1>1, <1>3, <1>4, <1>5 DEF SavedIsLinked
  <2>3. CASE m \notin DOMAIN mapping /\ n \in DOMAIN mapping
    BY <2>3, <1>1, <1>3, <1>4, <1>5 DEF SavedIsLinked
  <2>4. CASE m \notin DOMAIN mapping /\ n \notin DOMAIN mapping
    <3>1. m[2] = n[2]
      BY <2>4, <1>4, <1>5 DEF NamesOnce
    <3> QED
      BY <2>4, <3>1, <1>4, <1>5
  <2> QED
    BY <2>1, <2>2, <2>3, <2>4
<1> QED
  BY <1>5 DEF OneMappingEach

LEMMA ResendStep == TypeOK /\ StoreInv /\ SoloInv /\ ResendIsSafe /\ [Next]_vars => ResendIsSafe'
<1> SUFFICES ASSUME TypeOK, StoreInv, SoloInv, ResendIsSafe, [Next]_vars,
                    ~overlap', \A c \in Saves : NamesOnce(batch'[c])
             PROVE  OneMappingEach'
  BY DEF ResendIsSafe
<1>1. ASSUME NEW c \in Saves, Commit(c) PROVE OneMappingEach'
  <2>1. overlap' = overlap /\ batch' = batch
    BY <1>1 DEF Commit, request
  <2> QED
    BY <1>1, <2>1, CommitOnce DEF ResendIsSafe
<1>2. ASSUME NEW c \in Saves, NEW b \in Batches, Begin(c, b) PROVE OneMappingEach'
  <2>1. /\ UNCHANGED <<overlap, mapping>> /\ pc[c] = "new"
        /\ \A d \in Saves : d # c => batch'[d] = batch[d]
    BY <1>2 DEF Begin, TypeOK
  <2>2. ~overlap /\ batch[c] = <<>>
    BY <2>1 DEF SoloInv
  <2>3. \A d \in Saves : NamesOnce(batch[d])
    BY <2>1, <2>2 DEF NamesOnce
  <2>4. OneMappingEach
    BY <2>2, <2>3 DEF ResendIsSafe
  <2> QED
    BY <2>1, <2>4 DEF OneMappingEach
<1>3. ASSUME NEW m \in DOMAIN mapping, DeleteMapping(m) PROVE OneMappingEach'
  <2>1. /\ DOMAIN mapping' = DOMAIN mapping /\ UNCHANGED <<overlap, batch>>
        /\ \A n \in DOMAIN mapping : mapping'[n].origin = mapping[n].origin
    BY <1>3 DEF DeleteMapping, request, TypeOK, Mappings
  <2> QED
    BY <2>1 DEF ResendIsSafe, OneMappingEach
<1>4. ASSUME UNCHANGED <<overlap, batch, mapping>> PROVE OneMappingEach'
  BY <1>4 DEF ResendIsSafe, OneMappingEach
<1>5. ASSUME NEW c \in Saves, SaveStep(c), ~Commit(c) PROVE UNCHANGED <<overlap, batch, mapping>>
  BY <1>5 DEF SaveStep, ReadSuggestion, UpdateLinked, UpdateById, UpdateMapping, NextRow,
              InsertFromSuggestion, InsertManual, InsertMapping, Flush, LinkRow, RaiseMissing,
              Rollback, ReadProject, request
<1>6. ASSUME NEW c \in Saves, DeadlockVictim(c) \/ SaveFails(c)
      PROVE  UNCHANGED <<overlap, batch, mapping>>
  BY <1>6 DEF DeadlockVictim, SaveFails, Rollback, request
<1>7. ASSUME UNCHANGED vars \/ \E s \in Statuses : UpdateProject(s)
      PROVE  UNCHANGED <<overlap, batch, mapping>>
  BY <1>7 DEF vars, UpdateProject, request
<1> QED
  BY <1>1, <1>2, <1>3, <1>4, <1>5, <1>6, <1>7 DEF Next

LEMMA SoloInvHolds == Spec => [](TypeOK /\ StoreInv /\ SoloInv /\ ResendIsSafe)
<1>1. Init => ResendIsSafe
  BY DEF Init, ResendIsSafe, OneMappingEach
<1>2. Init => SoloInv
  BY SoloInit
<1> QED
  BY <1>1, <1>2, TypeInit, StoreInit, TypeStep, StoreStep, SoloInvStep, ResendStep, PTL DEF Spec

\* The suggestion of row i is shown by the mapping the save has put for it.
LEMMA CommitShows ==
    ASSUME TypeOK, StoreInv, SoloInv, ~overlap, NEW c \in Saves, Commit(c),
           NamesOnce(batch[c]), NEW i \in DOMAIN batch[c], batch[c][i].sug \in Suggestions,
           \A j \in DOMAIN batch[c] :
               batch[c][j].sug = NoSuggestion => batch[c][j].id # link'[batch[c][i].sug]
    PROVE  Shown(batch[c][i].sug)' = IF batch[c][i].active THEN "confirmed" ELSE "rejected"
<1> DEFINE s == batch[c][i].sug
           m == Mine(c, i)
<1>1. /\ Solo(c) /\ Own(c) /\ Progress(c) /\ pc[c] = "commit"
      /\ \A n \in DOMAIN mapping : n[1] # c
  BY DEF SoloInv, StoreInv, Own, Commit, Running
<1>2. /\ DOMAIN mapping' = DOMAIN mapping \cup DOMAIN work[c]
      /\ \A n \in DOMAIN work[c] : mapping'[n] = work[c][n]
      /\ link'[s] = IF s \in DOMAIN relink[c] THEN relink[c][s] ELSE link[s]
  BY DEF Commit, View, Over, TypeOK
<1>3. Put(c, i) /\ Linked(c, i)
  BY <1>1 DEF Solo, Progress
<1>4. m # NoMapping
  BY BodyRows, ConstantsAssumption DEF Mine
<1>5. link'[s] = m
  <2>1. CASE s \in DOMAIN relink[c]
    <3> DEFINE n == relink[c][s]
    <3>1. n \in DOMAIN work[c] /\ work[c][n].origin = s /\ n[1] = c /\ n \in Ids
      BY <2>1, <1>1 DEF Own, Solo, TypeOK
    <3>2. n \notin DOMAIN mapping
      BY <3>1, <1>1
    <3> HIDE DEF n
    <3>3. link[s] = NoMapping /\ n[2] \in DOMAIN batch[c] /\ batch[c][n[2]].sug = s
      BY <3>1, <3>2, <1>1 DEF Solo, Own
    <3>4. n[2] = i
      BY <3>3 DEF NamesOnce
    <3>5. n = <<c, i>>
      BY <3>1, <3>4 DEF Ids
    <3> QED
      BY <2>1, <3>3, <3>5, <1>2 DEF Mine, n
  <2>2. CASE s \notin DOMAIN relink[c]
    <3>1. <<c, i>> \notin DOMAIN work[c] /\ link'[s] = link[s]
      BY <2>2, <1>2, <1>3 DEF Linked
    <3>2. link[s] # NoMapping
      <4>1. Written(c, i)
        BY <1>1 DEF Progress
      <4> QED
        BY <4>1, <3>1, ConstantsAssumption DEF Written
    <3> QED
      BY <3>1, <3>2 DEF Mine
  <2> QED
    BY <2>1, <2>2
<1>6. m \in DOMAIN work[c] /\ work[c][m].active = batch[c][i].active
  BY <1>3, <1>5 DEF Put
<1>7. mapping'[link'[s]].active = batch[c][i].active /\ link'[s] # NoMapping
  BY <1>2, <1>4, <1>5, <1>6
<1>8. batch' = batch
  BY DEF Commit, request
<1> QED
  BY <1>7, <1>8 DEF Shown

LEMMA VisibleStep ==
    ASSUME TypeOK, StoreInv, SoloInv, [Next]_vars, NEW c \in Saves,
           pc[c] = "commit", pc'[c] = "done"
    PROVE  Commit(c)
<1>1. ASSUME NEW d \in Saves, SaveStep(d) PROVE Commit(c)
  <2>1. CASE d = c
    BY <1>1, <2>1 DEF SaveStep, ReadSuggestion, UpdateLinked, UpdateById, UpdateMapping, NextRow,
                InsertFromSuggestion, InsertManual, InsertMapping, Flush, LinkRow, RaiseMissing,
                ReadProject
  <2>2. CASE d # c
    <3>1. pc'[c] = pc[c]
      BY <1>1, <2>2 DEF SaveStep, ReadSuggestion, UpdateLinked, UpdateById, UpdateMapping, NextRow,
                InsertFromSuggestion, InsertManual, InsertMapping, Flush, LinkRow, RaiseMissing,
                Rollback, ReadProject, Commit, TypeOK
    <3> QED
      BY <3>1
  <2> QED
    BY <2>1, <2>2
<1>2. ASSUME NEW d \in Saves, NEW b \in Batches, Begin(d, b) PROVE FALSE
  BY <1>2 DEF Begin, TypeOK
<1>3. ASSUME NEW d \in Saves, DeadlockVictim(d) \/ SaveFails(d) PROVE FALSE
  BY <1>3 DEF DeadlockVictim, SaveFails, Rollback, TypeOK
<1>4. ASSUME \/ UNCHANGED vars \/ \E s \in Statuses : UpdateProject(s)
             \/ \E m \in DOMAIN mapping : DeleteMapping(m)
      PROVE  FALSE
  BY <1>4 DEF vars, UpdateProject, DeleteMapping
<1> QED
  BY <1>1, <1>2, <1>3, <1>4 DEF Next

-----------------------------------------------------------------------------
\* Mappings and links agree, however many saves overlap and fail.
THEOREM SavedIsLinkedHolds == Spec => []SavedIsLinked
<1>1. StoreInv => SavedIsLinked
  BY DEF StoreInv
<1> QED
  BY <1>1, StoreInvHolds, PTL

\* A bulk save is all or nothing, for any bodies.
THEOREM AllOrNothingHolds == Spec => []AllOrNothing
<1>1. StoreInv => AllOrNothing
  BY DEF StoreInv
<1> QED
  BY <1>1, StoreInvHolds, PTL

\* Saves that follow each other, of bodies that name each suggestion once, make
\* one mapping of a suggestion (bulk_upsert updates what it finds linked).
THEOREM ResendIsSafeHolds == Spec => []ResendIsSafe
  BY SoloInvHolds, PTL

\* A save that others do not overlap shows each suggestion as it says
\* (bulk_upsert, list_by_project_with_mappings).
THEOREM CommitIsVisibleHolds == Spec => CommitIsVisible
<1>1. TypeOK /\ StoreInv /\ SoloInv /\ [Next]_vars =>
        [\A c \in Saves :
           ~overlap /\ NamesOnce(batch[c]) /\ pc[c] = "commit" /\ pc'[c] = "done" =>
             \A i \in DOMAIN batch[c] :
                LET r == batch[c][i] IN
                r.sug \in Suggestions /\ (\A j \in DOMAIN batch[c] :
                        batch[c][j].sug = NoSuggestion => batch[c][j].id # link'[r.sug]) =>
                   Shown(r.sug)' = IF r.active THEN "confirmed" ELSE "rejected"]_vars
  BY VisibleStep, CommitShows
<1> QED
  BY <1>1, SoloInvHolds, PTL DEF Spec, CommitIsVisible
-----------------------------------------------------------------------------
(* Files *)

\* Requests name files that have rows; put objects stay; removals have an author.
StorageInv ==
    /\ ActiveIsReadable /\ OrphansHaveCause /\ FailedReadsHaveCause
    /\ \A d \in Deletes : del[d].pc # "new" => del[d].file \in Files /\ row[del[d].file] # "none"
    /\ \A d \in Deletes : del[d].pc = "removed" => del[d].file \notin objects
    /\ \A g \in Downloads :
          /\ get[g].pc # "new" => get[g].file \in Files /\ row[get[g].file] # "none"
          /\ get[g].pc = "checked" => store
    /\ \A f \in Files : store /\ upload[f] = "put" => f \in objects
    /\ \A f \in Files : store /\ row[f] # "none" /\ f \notin objects =>
          DeletedBy(f, {"removed", "lost", "done"})

LEMMA StorageTypeInit == StorageInit => StorageTypeOK
  BY DEF StorageInit, StorageTypeOK

LEMMA StorageTypeStep == StorageTypeOK /\ StorageInv /\ [StorageNext]_storageVars
    => StorageTypeOK'
<1> SUFFICES ASSUME StorageTypeOK, StorageInv, [StorageNext]_storageVars PROVE StorageTypeOK'
  OBVIOUS
<1> USE DEF StorageTypeOK
<1>1. ASSUME NEW f \in Files, CheckUpload(f) \/ PutObject(f) \/ PutFails(f)
      PROVE  StorageTypeOK'
  BY <1>1 DEF CheckUpload, PutObject, PutFails
<1>2. ASSUME NEW f \in Files, CommitUpload(f) PROVE StorageTypeOK'
  BY <1>2 DEF CommitUpload
<1>3. ASSUME NEW f \in Files, CommitUploadFails(f) PROVE StorageTypeOK'
  BY <1>3 DEF CommitUploadFails
<1>4. ASSUME NEW d \in Deletes, NEW f \in Files, ReadForDelete(d, f) PROVE StorageTypeOK'
  BY <1>4 DEF ReadForDelete
<1>5. ASSUME NEW d \in Deletes, SoftDelete(d) PROVE StorageTypeOK'
  BY <1>5 DEF SoftDelete
<1>6. ASSUME NEW d \in Deletes, RemoveObject(d) PROVE StorageTypeOK'
  BY <1>6 DEF RemoveObject
<1>7. ASSUME NEW d \in Deletes, RemoveRefused(d) PROVE StorageTypeOK'
  BY <1>7 DEF RemoveRefused
<1>8. ASSUME NEW d \in Deletes, RemoveFails(d) PROVE StorageTypeOK'
  BY <1>8 DEF RemoveFails
<1>9. ASSUME NEW d \in Deletes, CommitDelete(d) PROVE StorageTypeOK'
  BY <1>9 DEF CommitDelete, StorageInv
<1>10. ASSUME NEW d \in Deletes, CommitDeleteFails(d) PROVE StorageTypeOK'
  BY <1>10 DEF CommitDeleteFails
<1>11. ASSUME NEW g \in Downloads, NEW f \in Files, ReadForDownload(g, f) PROVE StorageTypeOK'
  BY <1>11 DEF ReadForDownload
<1>12. ASSUME NEW g \in Downloads, GetObject(g) \/ GetFails(g) PROVE StorageTypeOK'
  BY <1>12 DEF GetObject, GetFails
<1>13. CASE Crash
  <2>1. upload' \in [Files -> {"new", "refused", "checked", "put", "ready", "failed"}]
    <3>1. \A f \in Files : upload[f] \in {"new", "refused", "checked", "put", "ready", "failed"}
      OBVIOUS
    <3>2. upload' = [f \in Files |-> IF upload[f] \in {"checked", "put"} THEN "failed" ELSE upload[f]]
      BY <1>13 DEF Crash
    <3> HIDE DEF StorageTypeOK
    <3> QED
      BY <3>1, <3>2
  <2>2. del' \in [Deletes -> [pc : {"new", "refused", "checked", "marked", "removed", "kept",
                                   "done", "leaked", "failed", "lost"},
                             file : Files \cup {NoFile}]]
    <3> SUFFICES ASSUME NEW d \in Deletes
                 PROVE  [del[d] EXCEPT !.pc = CASE @ \in {"checked", "marked", "kept"} -> "failed"
                                                [] @ = "removed" -> "lost"
                                                [] OTHER -> @]
                          \in [pc : {"new", "refused", "checked", "marked", "removed", "kept",
                                     "done", "leaked", "failed", "lost"},
                              file : Files \cup {NoFile}]
      BY <1>13 DEF Crash
    <3>1. CASE del[d].pc \in {"checked", "marked", "kept"}
      BY <3>1
    <3>2. CASE del[d].pc = "removed"
      BY <3>2
    <3>3. CASE del[d].pc \notin {"checked", "marked", "kept", "removed"}
      BY <3>3
    <3> QED
      BY <3>1, <3>2, <3>3
  <2>3. get' \in [Downloads -> [pc : {"new", "refused", "checked", "served", "missing", "error"},
                               file : Files \cup {NoFile}]]
    <3> SUFFICES ASSUME NEW g \in Downloads
                 PROVE  [get[g] EXCEPT !.pc = IF @ = "checked" THEN "refused" ELSE @]
                          \in [pc : {"new", "refused", "checked", "served", "missing", "error"},
                              file : Files \cup {NoFile}]
      BY <1>13 DEF Crash
    <3>1. CASE get[g].pc = "checked"
      BY <3>1
    <3>2. CASE get[g].pc # "checked"
      BY <3>2
    <3> QED
      BY <3>1, <3>2
  <2>4. \A f \in Files : row[f] # "none" <=> upload'[f] = "ready"
    BY <1>13 DEF Crash
  <2> QED
    BY <1>13, <2>1, <2>2, <2>3, <2>4 DEF Crash
<1>14. CASE DeleteProject
  BY <1>14 DEF DeleteProject
<1>15. CASE UNCHANGED storageVars
  BY <1>15 DEF storageVars
<1> QED
  BY <1>1, <1>2, <1>3, <1>4, <1>5, <1>6, <1>7, <1>8, <1>9, <1>10, <1>11, <1>12, <1>13,
     <1>14, <1>15 DEF StorageNext

\* A step that only moves or ends requests, and hides no removal, keeps the invariant.
LEMMA RequestsMove ==
  ASSUME StorageTypeOK, StorageInv, UNCHANGED <<store, objects, row>>,
         \A f \in Files : upload'[f] = upload[f] 
            \/ (upload[f] \in {"checked", "put"} /\ upload'[f] = "failed"),
         \A e \in Deletes :
            /\ del'[e].file = del[e].file
            /\ \/ del'[e].pc = del[e].pc
               \/ del[e].pc \in {"checked", "marked", "kept"} /\ del'[e].pc \in {"marked", "kept", "failed"}
               \/ del[e].pc = "removed" /\ del'[e].pc = "lost",
         \A g \in Downloads :
            /\ get'[g].file = get[g].file
            /\ get'[g].pc = get[g].pc \/ (get[g].pc = "checked" /\ get'[g].pc = "refused")
  PROVE  StorageInv'
<1>1. ASSUME NEW f
      PROVE  /\ DeletedBy(f, {"removed", "lost"}) => DeletedBy(f, {"removed", "lost"})'
             /\ DeletedBy(f, {"removed", "lost", "done"})
                  => DeletedBy(f, {"removed", "lost", "done"})'
             /\ DeletedBy(f, {"leaked"}) => DeletedBy(f, {"leaked"})'
  BY DEF DeletedBy
<1>2. ActiveIsReadable' /\ OrphansHaveCause' /\ FailedReadsHaveCause'
  <2>1. ActiveIsReadable'
    BY <1>1 DEF StorageInv, ActiveIsReadable
  <2>2. OrphansHaveCause'
    <3>1. ASSUME NEW f \in objects, row[f] # "active"
          PROVE  upload'[f] \in {"put", "failed"} \/ DeletedBy(f, {"leaked"})' \/ row[f] = "gone"
      <4>1. upload[f] \in {"put", "failed"} \/ DeletedBy(f, {"leaked"}) \/ row[f] = "gone"
        BY <3>1 DEF StorageInv, OrphansHaveCause
      <4>2. upload[f] \in {"put", "failed"} => upload'[f] \in {"put", "failed"}
        BY <3>1 DEF StorageTypeOK
      <4> QED
        BY <1>1, <4>1, <4>2
    <3> QED
      BY <3>1 DEF OrphansHaveCause
  <2>3. FailedReadsHaveCause'
    <3> SUFFICES ASSUME NEW g \in Downloads, get'[g].pc = "missing"
                 PROVE  DeletedBy(get[g].file, {"removed", "lost", "done"})'
      BY DEF FailedReadsHaveCause
    <3>1. get[g].pc = "missing"
      OBVIOUS
    <3> QED
      BY <1>1, <3>1 DEF StorageInv, FailedReadsHaveCause
  <2> QED
    BY <2>1, <2>2, <2>3
<1>3. \A f \in Files : store /\ row[f] # "none" /\ f \notin objects =>
         DeletedBy(f, {"removed", "lost", "done"})'
  BY <1>1 DEF StorageInv
<1>4. /\ \A d \in Deletes : del'[d].pc # "new" => del'[d].file \in Files /\ row[del'[d].file] # "none"
      /\ \A d \in Deletes : del'[d].pc = "removed" => del'[d].file \notin objects
      /\ \A g \in Downloads :
            /\ get'[g].pc # "new" => get'[g].file \in Files /\ row[get'[g].file] # "none"
            /\ get'[g].pc = "checked" => store
      /\ \A f \in Files : store /\ upload'[f] = "put" => f \in objects
  BY DEF StorageInv
<1> QED
  BY <1>2, <1>3, <1>4 DEF StorageInv

\* delete_object raised although the object is gone.
LEMMA RemovalLost ==
  ASSUME StorageTypeOK, StorageInv, NEW d \in Deletes, del[d].pc = "marked",
         objects' = objects \ {del[d].file}, del' = [del EXCEPT ![d].pc = "lost"],
         UNCHANGED <<store, row, upload, get>>
  PROVE  StorageInv'
<1>1. /\ \A e \in Deletes : del'[e].file = del[e].file
      /\ \A e \in Deletes \ {d} : del'[e].pc = del[e].pc
      /\ del'[d].pc = "lost" /\ del[d].file \in Files /\ row[del[d].file] # "none"
  BY DEF StorageTypeOK, StorageInv
<1>2. ASSUME NEW f
      PROVE  /\ DeletedBy(f, {"removed", "lost"}) => DeletedBy(f, {"removed", "lost"})'
             /\ DeletedBy(f, {"removed", "lost", "done"})
                  => DeletedBy(f, {"removed", "lost", "done"})'
             /\ DeletedBy(f, {"leaked"}) => DeletedBy(f, {"leaked"})'
  BY <1>1 DEF DeletedBy
<1>3. /\ DeletedBy(del[d].file, {"removed", "lost"})'
      /\ DeletedBy(del[d].file, {"removed", "lost", "done"})'
  BY <1>1 DEF DeletedBy
<1>4. ActiveIsReadable'
  BY <1>2, <1>3 DEF StorageInv, ActiveIsReadable
<1>5. OrphansHaveCause'
  BY <1>2 DEF StorageInv, OrphansHaveCause
<1>6. FailedReadsHaveCause'
  BY <1>2 DEF StorageInv, FailedReadsHaveCause
<1>7. \A f \in Files : store /\ row[f] # "none" /\ f \notin objects' =>
         DeletedBy(f, {"removed", "lost", "done"})'
  BY <1>2, <1>3 DEF StorageInv
<1>8. \A f \in Files : store /\ upload[f] = "put" => f \in objects'
  BY <1>1 DEF StorageInv, StorageTypeOK
<1>9. /\ \A e \in Deletes : del'[e].pc # "new" => del'[e].file \in Files /\ row[del'[e].file] # "none"
      /\ \A e \in Deletes : del'[e].pc = "removed" => del'[e].file \notin objects'
  BY <1>1 DEF StorageInv
<1> QED
  BY <1>4, <1>5, <1>6, <1>7, <1>8, <1>9 DEF StorageInv

LEMMA StorageStep == StorageTypeOK /\ StorageInv /\ [StorageNext]_storageVars => StorageInv'
<1> SUFFICES ASSUME StorageTypeOK, StorageInv, [StorageNext]_storageVars PROVE StorageInv'
  OBVIOUS
<1>1. ASSUME NEW f \in Files, CheckUpload(f) \/ PutObject(f) \/ PutFails(f)
      PROVE  StorageInv'
  BY <1>1 DEF CheckUpload, PutObject, PutFails, StorageTypeOK, StorageInv, ActiveIsReadable,
     OrphansHaveCause, FailedReadsHaveCause, DeletedBy
<1>2. ASSUME NEW f \in Files, CommitUpload(f) PROVE StorageInv'
  BY <1>2 DEF CommitUpload, StorageTypeOK, StorageInv, ActiveIsReadable,
     OrphansHaveCause, FailedReadsHaveCause, DeletedBy
<1>3. ASSUME NEW f \in Files, CommitUploadFails(f) PROVE StorageInv'
  BY <1>3 DEF CommitUploadFails, StorageTypeOK, StorageInv, ActiveIsReadable,
     OrphansHaveCause, FailedReadsHaveCause, DeletedBy
<1>4. ASSUME NEW d \in Deletes, NEW f \in Files, ReadForDelete(d, f) PROVE StorageInv'
  BY <1>4 DEF ReadForDelete, StorageTypeOK, StorageInv, ActiveIsReadable,
     OrphansHaveCause, FailedReadsHaveCause, DeletedBy
<1>5. ASSUME NEW d \in Deletes, SoftDelete(d) PROVE StorageInv'
  BY <1>5, RequestsMove DEF SoftDelete, StorageTypeOK
<1>6. ASSUME NEW d \in Deletes, RemoveObject(d) PROVE StorageInv'
  BY <1>6 DEF RemoveObject, StorageTypeOK, StorageInv, ActiveIsReadable,
     OrphansHaveCause, FailedReadsHaveCause, DeletedBy
<1>7. ASSUME NEW d \in Deletes, RemoveRefused(d) PROVE StorageInv'
  BY <1>7, RequestsMove DEF RemoveRefused, StorageTypeOK
<1>8. ASSUME NEW d \in Deletes, RemoveFails(d) PROVE StorageInv'
  <2>1. CASE objects' = objects \ {del[d].file} /\ del' = [del EXCEPT ![d].pc = "lost"]
    BY <1>8, <2>1, RemovalLost DEF RemoveFails
  <2>2. CASE UNCHANGED objects /\ del' = [del EXCEPT ![d].pc = "failed"]
    BY <1>8, <2>2, RequestsMove DEF RemoveFails, StorageTypeOK
  <2> QED
    BY <1>8, <2>1, <2>2 DEF RemoveFails
<1>9. ASSUME NEW d \in Deletes, CommitDelete(d) PROVE StorageInv'
  BY <1>9 DEF CommitDelete, StorageTypeOK, StorageInv, ActiveIsReadable,
     OrphansHaveCause, FailedReadsHaveCause, DeletedBy
<1>10. ASSUME NEW d \in Deletes, CommitDeleteFails(d) PROVE StorageInv'
  BY <1>10, RequestsMove DEF CommitDeleteFails, StorageTypeOK
<1>11. ASSUME NEW g \in Downloads, NEW f \in Files, ReadForDownload(g, f) PROVE StorageInv'
  BY <1>11 DEF ReadForDownload, StorageTypeOK, StorageInv, ActiveIsReadable,
     OrphansHaveCause, FailedReadsHaveCause, DeletedBy
<1>12. ASSUME NEW g \in Downloads, GetObject(g) \/ GetFails(g) PROVE StorageInv'
  BY <1>12, SMTT(30) DEF GetObject, GetFails, StorageTypeOK, StorageInv,
     ActiveIsReadable, OrphansHaveCause, FailedReadsHaveCause, DeletedBy
<1>13. CASE Crash
  BY <1>13, RequestsMove DEF Crash, StorageTypeOK
<1>14. CASE DeleteProject
  BY <1>14 DEF DeleteProject, StorageTypeOK, StorageInv, ActiveIsReadable,
     OrphansHaveCause, FailedReadsHaveCause, DeletedBy
<1>15. CASE UNCHANGED storageVars
  BY <1>15 DEF storageVars, StorageTypeOK, StorageInv, ActiveIsReadable,
     OrphansHaveCause, FailedReadsHaveCause, DeletedBy
<1> QED
  BY <1>1, <1>2, <1>3, <1>4, <1>5, <1>6, <1>7, <1>8, <1>9, <1>10, <1>11, <1>12, <1>13,
     <1>14, <1>15 DEF StorageNext

LEMMA StorageInvHolds == StorageSpec => [](StorageTypeOK /\ StorageInv)
<1>1. StorageInit => StorageTypeOK /\ StorageInv
  BY StorageTypeInit DEF StorageInit, StorageInv, ActiveIsReadable, OrphansHaveCause,
     FailedReadsHaveCause
<1>2. StorageTypeOK /\ StorageInv /\ [StorageNext]_storageVars => (StorageTypeOK /\ StorageInv)'
  BY StorageTypeStep, StorageStep
<1> QED
  BY <1>1, <1>2, PTL DEF StorageSpec

\* A listed file can be read unless a deletion took its object and failed to commit.
THEOREM ActiveIsReadableHolds == StorageSpec => []ActiveIsReadable
<1>1. StorageInv => ActiveIsReadable
  BY DEF StorageInv
<1> QED
  BY <1>1, StorageInvHolds, PTL

\* Every object without an active row is accounted for.
THEOREM OrphansHaveCauseHolds == StorageSpec => []OrphansHaveCause
<1>1. StorageInv => OrphansHaveCause
  BY DEF StorageInv
<1> QED
  BY <1>1, StorageInvHolds, PTL

\* A download fails only for a file that was being deleted.
THEOREM FailedReadsHaveCauseHolds == StorageSpec => []FailedReadsHaveCause
<1>1. StorageInv => FailedReadsHaveCause
  BY DEF StorageInv
<1> QED
  BY <1>1, StorageInvHolds, PTL
=============================================================================
