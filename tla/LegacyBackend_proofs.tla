------------------------ MODULE LegacyBackend_proofs -------------------------
(***************************************************************************)
(* Proofs about LegacyBackend, for any number of requests and any inputs.  *)
(*                                                                         *)
(* Inv says that a running request has a suffix of its program left        *)
(* (OnCourse), so that what it still has to do tells what it has done, and *)
(* for a request on a file what it has done to it (SoFar): an upload has   *)
(* put its object before it inserts the document, a removal has marked the *)
(* document before it deletes the object.  That is what makes              *)
(* ListedHaveObjects and OrphansHaveCause inductive.                       *)
(*                                                                         *)
(* ControlInv adds when requests began and ended, whom they are about, and *)
(* that nothing is served before the seed is in.  On it rest, one per      *)
(* property, what has been done halfway through the other requests:        *)
(*   OpenInv   nobody has access to a project whose creation is not over,  *)
(*             so no request gets past its check before that;              *)
(*   StrayInv  a deletion that has removed all access finds some again     *)
(*             only after a grant that overlaps it;                        *)
(*   ReachInv  who has left a project without access: one still running    *)
(*             counts once it has taken the access away;                   *)
(*   GrantInv  a role is gone only if a revocation or a deletion that was  *)
(*             not over when the grant began has taken it;                 *)
(*   OutInv    access that is back after a removal came from a grant, and  *)
(*             so did that of a request past its check;                    *)
(*   MapsInv   what a project shows comes from its saves, each one's once, *)
(*             and from one alone if no other overlapped or followed it;   *)
(*   ReadInv   what an undisturbed reader has noted still stands.          *)
(* Each has a lemma per action that writes what it speaks of, and lemmas   *)
(* (Steady, StillOn, StillOverlap, Stride) for all the other actions.      *)
(***************************************************************************)
EXTENDS LegacyBackend, FiniteSetTheorems, TLAPS

-----------------------------------------------------------------------------
(* The programs *)

\* What the proofs use of the i-th await of an operation.
Placed(op, i) ==
    LET s == Program[op][i]
        last == Len(Program[op])
    IN  /\ s \in {"findUser", "findCompany", "deleteMappings"} => i < last
        /\ s \in {"createUser", "findUser"} => op \in {"login", "grant"}
        /\ s = "writeAccess" => op \in {"create", "grant"}
        /\ s = "updateProject" => op = "update"
        /\ s = "findOwn" => op \in {"overview", "list"}
        /\ s = "insertProject" => op = "create"
        /\ s \in {"putObject", "insertFile"} => op \in {"upload", "store"}
        /\ s \in {"softDelete", "deleteObject"} => op = "remove"
        /\ s \in {"findUser", "findCompany", "deleteMappings"} => Program[op][i + 1] # "check"
        /\ s \in {"findCompany", "createCompany"} => op = "create"
        /\ s = "findAccess" => op \in {"create", "grant"}
        /\ s \in {"deleteMappings", "insertMappings"} => op = "save"
        /\ s = "revokeAccess" => op = "revoke"
        /\ s \in {"deleteAccess", "deleteProject"} => op = "delete"
        /\ s = "countMappings" => op = "detail"
        /\ s = "findProjects" => op \in {"overview", "list"}
        /\ s = "countProjects" => op = "list"
        /\ s = "check" => op \notin {"login", "create", "overview", "list"}
        /\ op = "save" =>
            last = 5 /\ s = <<"check", "deleteMappings", "insertMappings", "readStatus",
                              "writeStatus">>[i]
        /\ op = "create" =>
            last = 5 /\ s = <<"findCompany", "createCompany", "insertProject", "findAccess",
                              "writeAccess">>[i]
        /\ op = "grant" =>
            last = 6 /\ s = <<"findProject", "check", "findUser", "createUser", "findAccess",
                              "writeAccess">>[i]
        /\ op = "revoke" => last = 3 /\ s = <<"findProject", "check", "revokeAccess">>[i]
        /\ op = "delete" =>
            last = 4 /\ s = <<"check", "findProject", "deleteAccess", "deleteProject">>[i]
        /\ op = "detail" =>
            last = 4 /\ s = <<"findProject", "check", "findMappings", "countMappings">>[i]
        /\ op = "overview" => last = 2 /\ s = <<"findOwn", "findProjects">>[i]
        /\ op = "list" => last = 3 /\ s = <<"findOwn", "countProjects", "findProjects">>[i]
        /\ op \in {"upload", "store"} =>
            /\ last = 3
            /\ i = 1 => s = "check"
            /\ i = 2 => s = "putObject"
            /\ i = 3 => s = "insertFile"
        /\ op = "remove" =>
            /\ last = 6
            /\ i \in {1, 4} => s = "findFile"
            /\ i = 2 => s = "check"
            /\ i = 3 => s = "softDelete"
            /\ i = 5 => s = "recheck"
            /\ i = 6 => s = "deleteObject"

LEMMA ProgramSteps ==
    ASSUME NEW op \in DOMAIN Program
    PROVE  /\ Program[op] \in Seq(Steps) /\ Program[op] # <<>>
           /\ \A i \in 1..Len(Program[op]): Placed(op, i)
<1>1. CASE op = "login"
  <2>1. Program[op] = <<"findUser", "createUser">>
    BY <1>1 DEF Program, LoginSteps
  <2>2. Program[op] \in Seq(Steps) /\ \A i \in 1..Len(Program[op]): i \in {1, 2}
    BY <2>1 DEF Steps
  <2> QED
    BY <1>1, <2>1, <2>2 DEF Placed
<1>2. CASE op = "create"
  <2>1. Program[op] = <<"findCompany", "createCompany", "insertProject", "findAccess", "writeAccess">>
    BY <1>2 DEF Program, CreateSteps
  <2>2. Program[op] \in Seq(Steps) /\ \A i \in 1..Len(Program[op]): i \in {1, 2, 3, 4, 5}
    BY <2>1 DEF Steps
  <2> QED
    BY <1>2, <2>1, <2>2 DEF Placed
<1>3. CASE op = "update"
  <2>1. Program[op] = <<"check", "updateProject", "findProject">>
    BY <1>3 DEF Program, UpdateSteps
  <2>2. Program[op] \in Seq(Steps) /\ \A i \in 1..Len(Program[op]): i \in {1, 2, 3}
    BY <2>1 DEF Steps
  <2> QED
    BY <1>3, <2>1, <2>2 DEF Placed
<1>4. CASE op = "save"
  <2>1. Program[op] = <<"check", "deleteMappings", "insertMappings", "readStatus", "writeStatus">>
    BY <1>4 DEF Program, SaveSteps
  <2>2. Program[op] \in Seq(Steps) /\ \A i \in 1..Len(Program[op]): i \in {1, 2, 3, 4, 5}
    BY <2>1 DEF Steps
  <2> QED
    BY <1>4, <2>1, <2>2 DEF Placed
<1>5. CASE op = "mark"
  <2>1. Program[op] = <<"check", "markMappings">>
    BY <1>5 DEF Program, MarkSteps
  <2>2. Program[op] \in Seq(Steps) /\ \A i \in 1..Len(Program[op]): i \in {1, 2}
    BY <2>1 DEF Steps
  <2> QED
    BY <1>5, <2>1, <2>2 DEF Placed
<1>6. CASE op = "grant"
  <2>1. Program[op] = <<"findProject", "check", "findUser", "createUser", "findAccess", "writeAccess">>
    BY <1>6 DEF Program, GrantSteps
  <2>2. Program[op] \in Seq(Steps) /\ \A i \in 1..Len(Program[op]): i \in {1, 2, 3, 4, 5, 6}
    BY <2>1 DEF Steps
  <2> QED
    BY <1>6, <2>1, <2>2 DEF Placed
<1>7. CASE op = "revoke"
  <2>1. Program[op] = <<"findProject", "check", "revokeAccess">>
    BY <1>7 DEF Program, RevokeSteps
  <2>2. Program[op] \in Seq(Steps) /\ \A i \in 1..Len(Program[op]): i \in {1, 2, 3}
    BY <2>1 DEF Steps
  <2> QED
    BY <1>7, <2>1, <2>2 DEF Placed
<1>8. CASE op = "delete"
  <2>1. Program[op] = <<"check", "findProject", "deleteAccess", "deleteProject">>
    BY <1>8 DEF Program, DeleteSteps
  <2>2. Program[op] \in Seq(Steps) /\ \A i \in 1..Len(Program[op]): i \in {1, 2, 3, 4}
    BY <2>1 DEF Steps
  <2> QED
    BY <1>8, <2>1, <2>2 DEF Placed
<1>9. CASE op = "open"
  <2>1. Program[op] = <<"check", "findProject">>
    BY <1>9 DEF Program, OpenSteps
  <2>2. Program[op] \in Seq(Steps) /\ \A i \in 1..Len(Program[op]): i \in {1, 2}
    BY <2>1 DEF Steps
  <2> QED
    BY <1>9, <2>1, <2>2 DEF Placed
<1>10. CASE op = "show"
  <2>1. Program[op] = <<"check", "findMappings">>
    BY <1>10 DEF Program, ShowSteps
  <2>2. Program[op] \in Seq(Steps) /\ \A i \in 1..Len(Program[op]): i \in {1, 2}
    BY <2>1 DEF Steps
  <2> QED
    BY <1>10, <2>1, <2>2 DEF Placed
<1>11. CASE op = "detail"
  <2>1. Program[op] = <<"findProject", "check", "findMappings", "countMappings">>
    BY <1>11 DEF Program, DetailSteps
  <2>2. Program[op] \in Seq(Steps) /\ \A i \in 1..Len(Program[op]): i \in {1, 2, 3, 4}
    BY <2>1 DEF Steps
  <2> QED
    BY <1>11, <2>1, <2>2 DEF Placed
<1>12. CASE op = "overview"
  <2>1. Program[op] = <<"findOwn", "findProjects">>
    BY <1>12 DEF Program, OverviewSteps
  <2>2. Program[op] \in Seq(Steps) /\ \A i \in 1..Len(Program[op]): i \in {1, 2}
    BY <2>1 DEF Steps
  <2> QED
    BY <1>12, <2>1, <2>2 DEF Placed
<1>13. CASE op = "list"
  <2>1. Program[op] = <<"findOwn", "countProjects", "findProjects">>
    BY <1>13 DEF Program, ListSteps
  <2>2. Program[op] \in Seq(Steps) /\ \A i \in 1..Len(Program[op]): i \in {1, 2, 3}
    BY <2>1 DEF Steps
  <2> QED
    BY <1>13, <2>1, <2>2 DEF Placed
<1>14. CASE op = "upload"
  <2>1. Program[op] = <<"check", "putObject", "insertFile">>
    BY <1>14 DEF Program, UploadSteps
  <2>2. Program[op] \in Seq(Steps) /\ \A i \in 1..Len(Program[op]): i \in {1, 2, 3}
    BY <2>1 DEF Steps
  <2> QED
    BY <1>14, <2>1, <2>2 DEF Placed
<1>15. CASE op = "store"
  <2>1. Program[op] = <<"check", "putObject", "insertFile">>
    BY <1>15 DEF Program, StoreSteps
  <2>2. Program[op] \in Seq(Steps) /\ \A i \in 1..Len(Program[op]): i \in {1, 2, 3}
    BY <2>1 DEF Steps
  <2> QED
    BY <1>15, <2>1, <2>2 DEF Placed
<1>16. CASE op = "files"
  <2>1. Program[op] = <<"check", "findFile">>
    BY <1>16 DEF Program, FilesSteps
  <2>2. Program[op] \in Seq(Steps) /\ \A i \in 1..Len(Program[op]): i \in {1, 2}
    BY <2>1 DEF Steps
  <2> QED
    BY <1>16, <2>1, <2>2 DEF Placed
<1>17. CASE op = "look"
  <2>1. Program[op] = <<"findFile", "check">>
    BY <1>17 DEF Program, LookSteps
  <2>2. Program[op] \in Seq(Steps) /\ \A i \in 1..Len(Program[op]): i \in {1, 2}
    BY <2>1 DEF Steps
  <2> QED
    BY <1>17, <2>1, <2>2 DEF Placed
<1>18. CASE op = "fetch"
  <2>1. Program[op] = <<"findFile", "check", "getObject">>
    BY <1>18 DEF Program, FetchSteps
  <2>2. Program[op] \in Seq(Steps) /\ \A i \in 1..Len(Program[op]): i \in {1, 2, 3}
    BY <2>1 DEF Steps
  <2> QED
    BY <1>18, <2>1, <2>2 DEF Placed
<1>19. CASE op = "parse"
  <2>1. Program[op] = <<"findFile", "check", "getObject">>
    BY <1>19 DEF Program, ParseSteps
  <2>2. Program[op] \in Seq(Steps) /\ \A i \in 1..Len(Program[op]): i \in {1, 2, 3}
    BY <2>1 DEF Steps
  <2> QED
    BY <1>19, <2>1, <2>2 DEF Placed
<1>20. CASE op = "link"
  <2>1. Program[op] = <<"findFile", "check", "signUrl">>
    BY <1>20 DEF Program, LinkSteps
  <2>2. Program[op] \in Seq(Steps) /\ \A i \in 1..Len(Program[op]): i \in {1, 2, 3}
    BY <2>1 DEF Steps
  <2> QED
    BY <1>20, <2>1, <2>2 DEF Placed
<1>21. CASE op = "remove"
  <2>1. Program[op] = <<"findFile", "check", "softDelete", "findFile", "recheck", "deleteObject">>
    BY <1>21 DEF Program, RemoveSteps
  <2>2. Program[op] \in Seq(Steps) /\ \A i \in 1..Len(Program[op]): i \in {1, 2, 3, 4, 5, 6}
    BY <2>1 DEF Steps
  <2> QED
    BY <1>21, <2>1, <2>2 DEF Placed
<1> QED
  BY <1>1, <1>2, <1>3, <1>4, <1>5, <1>6, <1>7, <1>8, <1>9, <1>10, <1>11, <1>12, <1>13, <1>14, <1>15, <1>16, <1>17, <1>18, <1>19, <1>20, <1>21 DEF Program

-----------------------------------------------------------------------------
(* The control of a request *)

Left(r) == Len(todo[r])
Running(r) == outcome[r] = "running"

\* A running request has a rest of its program left.
OnCourse(r) ==
    Running(r) =>
        /\ req[r].op \in DOMAIN Program
        /\ Left(r) \in 1..Len(Program[req[r].op])
        /\ \A i \in 1..Left(r):
            todo[r][i] = Program[req[r].op][Len(Program[req[r].op]) - Left(r) + i]

Sound(r) ==
    /\ "op" \in DOMAIN req[r]
    /\ req[r].op = "create" => {"target", "role"} \subseteq DOMAIN req[r]
    /\ outcome[r] = "idle" => req[r] = NoInput
    /\ req[r].op \in {"login", "create", "grant"} => req[r].target \in Users
    /\ req[r].op \in {"create", "grant"} => req[r].role \in Roles
    /\ req[r].op = "update" => req[r].status \in Statuses

ControlOK ==
    /\ DOMAIN req = Reqs
    /\ todo \in [Reqs -> Seq(Steps)]
    /\ outcome \in [Reqs -> Outcomes]
    /\ \A r \in Reqs: todo[r] # <<>> <=> outcome[r] = "running"
    /\ \A r \in Reqs: Sound(r) /\ OnCourse(r)

DbOK ==
    /\ users \subseteq Users
    /\ company \in BOOLEAN
    /\ project \in [Projects -> Statuses \union {"none", "deleted"}]
    /\ access \in [Projects -> [Users -> Roles \union {"none"}]]
    /\ maps \in [Projects -> SUBSET [by: Reqs \union {"seed"}, confirmed: BOOLEAN]]

\* Where a running request is in its program.
LEMMA Spot ==
    ASSUME ControlOK, NEW r \in Reqs, Running(r)
    PROVE  LET op == req[r].op
               last == Len(Program[op])
               i == last - Left(r) + 1
           IN  /\ op \in DOMAIN Program /\ last \in Nat /\ Left(r) \in 1..last
               /\ i \in 1..last /\ Left(r) = last - i + 1
               /\ Placed(op, i) /\ Head(todo[r]) = Program[op][i]
<1> DEFINE op == req[r].op
           last == Len(Program[op])
           i == last - Left(r) + 1
<1>1. op \in DOMAIN Program /\ Left(r) \in 1..last
  BY DEF ControlOK, OnCourse
<1>2. Program[op] \in Seq(Steps) /\ Placed(op, i) /\ last \in Nat /\ i \in 1..last
  <2>1. Program[op] \in Seq(Steps) /\ \A k \in 1..last: Placed(op, k)
    BY <1>1, ProgramSteps
  <2>2. last \in Nat
    BY <2>1
  <2>3. i \in 1..last
    BY <1>1, <2>2
  <2> QED
    BY <2>1, <2>2, <2>3
<1>3. Head(todo[r]) = Program[op][i]
  <2>1. todo[r][1] = Program[op][last - Left(r) + 1]
    BY <1>1, <1>2 DEF ControlOK, OnCourse
  <2>2. Head(todo[r]) = todo[r][1]
    BY DEF ControlOK, Running
  <2> QED
    BY <2>1, <2>2
<1>4. Left(r) = last - i + 1
  BY <1>1, <1>2
<1> QED
  BY <1>1, <1>2, <1>3, <1>4

\* Where a request at a step is in its program.
LEMMA Here ==
    ASSUME ControlOK, NEW r \in Reqs, Running(r)
    PROVE  LET s == Head(todo[r])
               op == req[r].op
           IN  /\ Left(r) \in Nat /\ Left(r) > 0
               /\ s \in {"findUser", "findCompany", "deleteMappings"} => Left(r) > 1
               /\ s \in {"createUser", "findUser"} => op \in {"login", "grant"}
               /\ s = "writeAccess" => op \in {"create", "grant"}
               /\ s = "updateProject" => op = "update"
               /\ s = "findOwn" => op \in {"overview", "list"}
               /\ s = "insertProject" => op = "create"
               /\ s \in {"putObject", "insertFile"} => op \in {"upload", "store"}
               /\ s \in {"softDelete", "deleteObject"} => op = "remove"
               /\ op \in {"upload", "store"} =>
                    /\ Left(r) \in 1..3
                    /\ Left(r) = 3 => s = "check"
                    /\ Left(r) = 2 => s = "putObject"
                    /\ Left(r) = 1 => s = "insertFile"
               /\ op = "remove" =>
                    /\ Left(r) \in 1..6
                    /\ Left(r) \in {6, 3} => s = "findFile"
                    /\ Left(r) = 5 => s = "check"
                    /\ Left(r) = 4 => s = "softDelete"
                    /\ Left(r) = 2 => s = "recheck"
                    /\ Left(r) = 1 => s = "deleteObject"
<1> DEFINE op == req[r].op
           last == Len(Program[op])
           i == last - Left(r) + 1
<1>1. op \in DOMAIN Program /\ Left(r) \in 1..last
  BY Spot
<1>2. Placed(op, i) /\ last \in Nat /\ i \in 1..last
  BY Spot
<1>3. Head(todo[r]) = Program[op][i]
  BY Spot
<1>4. Left(r) = last - i + 1 /\ Left(r) \in Nat
  BY Spot
<1> DEFINE s == Head(todo[r])
<1>5. /\ s \in {"findUser", "findCompany", "deleteMappings"} => i < last
      /\ s \in {"createUser", "findUser"} => op \in {"login", "grant"}
      /\ s = "writeAccess" => op \in {"create", "grant"}
      /\ s = "updateProject" => op = "update"
      /\ s = "findOwn" => op \in {"overview", "list"}
      /\ s = "insertProject" => op = "create"
      /\ s \in {"putObject", "insertFile"} => op \in {"upload", "store"}
      /\ s \in {"softDelete", "deleteObject"} => op = "remove"
  <2> HIDE DEF op, i
  <2> QED
    BY <1>2, <1>3 DEF Placed
<1>6. op \in {"upload", "store"} =>
        /\ last = 3
        /\ i = 1 => s = "check"
        /\ i = 2 => s = "putObject"
        /\ i = 3 => s = "insertFile"
  <2> HIDE DEF op, i
  <2> QED
    BY <1>2, <1>3 DEF Placed
<1>7. op = "remove" =>
        /\ last = 6
        /\ i \in {1, 4} => s = "findFile"
        /\ i = 2 => s = "check"
        /\ i = 3 => s = "softDelete"
        /\ i = 5 => s = "recheck"
        /\ i = 6 => s = "deleteObject"
  <2> HIDE DEF op, i
  <2> QED
    BY <1>2, <1>3 DEF Placed
<1> HIDE DEF i, last, s
<1>8. /\ Left(r) > 0 /\ (s \in {"findUser", "findCompany", "deleteMappings"} => Left(r) > 1)
      /\ op \in {"upload", "store"} =>
            /\ Left(r) \in 1..3
            /\ Left(r) = 3 => s = "check"
            /\ Left(r) = 2 => s = "putObject"
            /\ Left(r) = 1 => s = "insertFile"
      /\ op = "remove" =>
            /\ Left(r) \in 1..6
            /\ Left(r) \in {6, 3} => s = "findFile"
            /\ Left(r) = 5 => s = "check"
            /\ Left(r) = 4 => s = "softDelete"
            /\ Left(r) = 2 => s = "recheck"
            /\ Left(r) = 1 => s = "deleteObject"
  <2> HIDE DEF op
  <2> QED
    BY <1>1, <1>2, <1>4, <1>5, <1>6, <1>7
<1> QED
  BY <1>4, <1>5, <1>8 DEF s

\* What a step of a running request does to it.
Moves(r) ==
    /\ Running(r)
    /\ \/ req' = req
       \/ req[r].op = "create" /\ \E p: req' = [req EXCEPT ![r].project = p]
    /\ \/ Skip(r, 1)
       \/ /\ Skip(r, 2) /\ Left(r) > 1
          /\ Head(todo[r]) \in {"findUser", "findCompany", "deleteMappings"}
       \/ \E how \in {"ok", "refused", "failed"}: End(r, how)

LEMMA Fields ==
    ASSUME ControlOK, NEW r \in Reqs, Moves(r)
    PROVE  /\ DOMAIN req' = Reqs
           /\ \A q \in Reqs \ {r}: req'[q] = req[q]
           /\ req'[r].op = req[r].op
           /\ \/ req'[r] = req[r]
              \/ /\ req[r].op = "create" /\ DOMAIN req'[r] = DOMAIN req[r]
                 /\ req'[r].target = req[r].target /\ req'[r].role = req[r].role
<1>1. CASE req' = req
  BY <1>1 DEF ControlOK
<1>2. ASSUME req[r].op = "create", NEW p, req' = [req EXCEPT ![r].project = p]
      PROVE  /\ DOMAIN req' = Reqs
             /\ \A q \in Reqs \ {r}: req'[q] = req[q]
             /\ DOMAIN req'[r] = DOMAIN req[r] /\ req'[r].op = req[r].op
             /\ req'[r].target = req[r].target /\ req'[r].role = req[r].role
  <2>1. {"op", "target", "role"} \subseteq DOMAIN req[r] /\ DOMAIN req = Reqs
    BY <1>2 DEF ControlOK, Sound
  <2>2. req'[r] = [req[r] EXCEPT !.project = p]
    BY <1>2, <2>1
  <2> QED
    BY <1>2, <2>1, <2>2
<1> QED
  BY <1>1, <1>2 DEF Moves

LEMMA SkipMoves ==
    ASSUME ControlOK, NEW r \in Reqs, Running(r), NEW n \in {1, 2}, n <= Left(r), Skip(r, n)
    PROVE  /\ \A q \in Reqs \ {r}: todo'[q] = todo[q] /\ outcome'[q] = outcome[q]
           /\ todo' \in [Reqs -> Seq(Steps)] /\ outcome' \in [Reqs -> Outcomes]
           /\ Left(r)' = Left(r) - n
           /\ \A i \in 1..Left(r) - n: todo'[r][i] = todo[r][i + n]
           /\ outcome'[r] = IF Left(r) = n THEN "ok" ELSE "running"
           /\ todo'[r] # <<>> <=> outcome'[r] = "running"
<1>1. Left(r) \in Nat /\ todo[r] \in Seq(Steps) /\ Left(r)' = Len(todo'[r])
  BY DEF ControlOK, Left
<1>2. todo'[r] = SubSeq(todo[r], n + 1, Left(r))
  BY DEF Skip, ControlOK, Left
<1>3. \A k \in n + 1..Left(r): todo[r][k] \in Steps
  BY <1>1 DEF Left
<1>4. /\ todo'[r] \in Seq(Steps)
      /\ Len(todo'[r]) = Left(r) - n
      /\ \A i \in 1..Left(r) - n: todo'[r][i] = todo[r][i + n]
  BY <1>1, <1>2, <1>3 DEF Left
<1>5. todo' = [todo EXCEPT ![r] = todo'[r]] /\ todo' \in [Reqs -> Seq(Steps)]
  BY <1>4 DEF Skip, ControlOK
<1>6. /\ outcome' \in [Reqs -> Outcomes]
      /\ \A q \in Reqs \ {r}: outcome'[q] = outcome[q]
      /\ outcome'[r] = IF Left(r) = n THEN "ok" ELSE "running"
  BY DEF Skip, ControlOK, Outcomes, Running, Left
<1>7. todo'[r] # <<>> <=> outcome'[r] = "running"
  BY <1>1, <1>4, <1>6
<1> QED
  BY <1>1, <1>4, <1>5, <1>6, <1>7

LEMMA MovesKeepControl ==
    ASSUME ControlOK, NEW r \in Reqs, Moves(r)
    PROVE  ControlOK'
<1>1. /\ DOMAIN req' = Reqs
      /\ \A q \in Reqs: Sound(q)'
  <2>1. outcome[r] = "running" /\ outcome'[r] # "idle"
    BY DEF Moves, Running, Skip, End, ControlOK
  <2>2. \A q \in Reqs \ {r}: outcome'[q] = outcome[q]
    BY DEF Moves, Skip, End, ControlOK
  <2> QED
    BY <2>1, <2>2, Fields DEF Sound, ControlOK
<1>2. CASE \E how \in {"ok", "refused", "failed"}: End(r, how)
  <2>1. /\ todo' \in [Reqs -> Seq(Steps)] /\ todo'[r] = <<>>
        /\ outcome' \in [Reqs -> Outcomes] /\ outcome'[r] # "running"
        /\ \A q \in Reqs \ {r}: todo'[q] = todo[q] /\ outcome'[q] = outcome[q]
    BY <1>2 DEF End, ControlOK, Outcomes
  <2>2. ASSUME NEW q \in Reqs \ {r} PROVE OnCourse(q)'
    <3>1. req'[q].op = req[q].op
      BY Fields
    <3>2. OnCourse(q) /\ todo'[q] = todo[q] /\ outcome'[q] = outcome[q]
      BY <2>1 DEF ControlOK
    <3> QED
      BY <3>1, <3>2 DEF OnCourse, Running, Left
  <2>3. OnCourse(r)'
    BY <2>1 DEF OnCourse, Running
  <2> QED
    BY <1>1, <2>1, <2>2, <2>3 DEF ControlOK
<1>3. ASSUME NEW n \in {1, 2}, n <= Left(r), Skip(r, n) PROVE ControlOK'
  <2>1. Running(r)
    BY DEF Moves
  <2>2. /\ \A q \in Reqs \ {r}: todo'[q] = todo[q] /\ outcome'[q] = outcome[q]
        /\ todo' \in [Reqs -> Seq(Steps)] /\ outcome' \in [Reqs -> Outcomes]
        /\ Left(r)' = Left(r) - n
        /\ \A i \in 1..Left(r) - n: todo'[r][i] = todo[r][i + n]
        /\ outcome'[r] = IF Left(r) = n THEN "ok" ELSE "running"
        /\ todo'[r] # <<>> <=> outcome'[r] = "running"
    BY <1>3, <2>1, SkipMoves
  <2>3. ASSUME NEW q \in Reqs \ {r} PROVE OnCourse(q)'
    <3>1. req'[q].op = req[q].op
      BY Fields
    <3>2. OnCourse(q) /\ todo'[q] = todo[q] /\ outcome'[q] = outcome[q]
      BY <2>2 DEF ControlOK
    <3> QED
      BY <3>1, <3>2 DEF OnCourse, Running, Left
  <2>4. ASSUME Running(r)' PROVE OnCourse(r)'
    <3> DEFINE last == Len(Program[req[r].op])
    <3>1. /\ req[r].op \in DOMAIN Program
          /\ Left(r) \in 1..last
          /\ \A i \in 1..Left(r): todo[r][i] = Program[req[r].op][last - Left(r) + i]
      BY <2>1 DEF ControlOK, OnCourse
    <3>2. last \in Nat
      BY <3>1, ProgramSteps
    <3>3. req'[r].op = req[r].op
      BY Fields
    <3>4. Left(r) # n /\ Left(r)' = Left(r) - n
      BY <2>2, <2>4 DEF Running
    <3>5. \A i \in 1..Left(r) - n: todo'[r][i] = Program[req[r].op][last - (Left(r) - n) + i]
      <4> TAKE i \in 1..Left(r) - n
      <4>1. Left(r) \in Nat /\ n \in Nat
        BY <3>1, <3>2
      <4>2. i + n \in 1..Left(r) /\ last - (Left(r) - n) + i = last - Left(r) + (i + n)
        BY <1>3, <3>2, <4>1
      <4> HIDE DEF last
      <4> QED
        BY <2>2, <3>1, <4>2
    <3>6. Left(r) - n \in 1..last
      BY <1>3, <3>1, <3>2, <3>4
    <3> HIDE DEF last
    <3> QED
      BY <2>2, <3>1, <3>3, <3>4, <3>5, <3>6 DEF OnCourse, last
  <2> QED
    BY <1>1, <2>2, <2>3, <2>4 DEF ControlOK, OnCourse
<1>4. 1 <= Left(r)
  BY Here DEF Moves
<1>5. Left(r) > 1 => 2 <= Left(r)
  BY Here DEF Moves
<1> QED
  BY <1>2, <1>3, <1>4, <1>5 DEF Moves

\* What a request that begins carries.
GoodInput(in) ==
    /\ "op" \in DOMAIN in /\ in.op \in DOMAIN Program
    /\ in.op \in {"login", "create", "grant"} => in.target \in Users
    /\ in.op \in {"create", "grant"} => in.role \in Roles
    /\ in.op = "create" => {"target", "role"} \subseteq DOMAIN in
    /\ in.op = "update" => in.status \in Statuses

LEMMA StartKeepsControl ==
    ASSUME ControlOK, NEW r \in Reqs, NEW in, GoodInput(in), Start(r, in)
    PROVE  ControlOK'
<1>1. Program[in.op] \in Seq(Steps) /\ Program[in.op] # <<>>
  BY ProgramSteps DEF GoodInput
<1>2. /\ DOMAIN req' = Reqs /\ todo' \in [Reqs -> Seq(Steps)]
      /\ outcome' \in [Reqs -> Outcomes]
      /\ req'[r] = in /\ todo'[r] = Program[in.op] /\ outcome'[r] = "running"
      /\ \A q \in Reqs \ {r}: req'[q] = req[q] /\ todo'[q] = todo[q] /\ outcome'[q] = outcome[q]
  BY <1>1 DEF Start, ControlOK, Outcomes
<1>3. ASSUME NEW q \in Reqs \ {r} PROVE Sound(q)' /\ OnCourse(q)'
  <2>1. Sound(q) /\ OnCourse(q)
    BY DEF ControlOK
  <2> QED
    BY <1>2, <2>1 DEF Sound, OnCourse, Running, Left
<1>4. Sound(r)'
  BY <1>2 DEF Sound, GoodInput
<1>5. OnCourse(r)'
  BY <1>1, <1>2 DEF OnCourse, GoodInput, Left
<1> QED
  BY <1>1, <1>2, <1>3, <1>4, <1>5 DEF ControlOK

\* A request that is answered without an await.
Instant(r) ==
    /\ outcome[r] = "idle"
    /\ \E in: /\ "op" \in DOMAIN in /\ in.op \in {"session", "mapping", "export", "drop"}
              /\ req' = [req EXCEPT ![r] = in]
    /\ outcome' = [outcome EXCEPT ![r] = "ok"]
    /\ todo' = todo

LEMMA InstantKeepsControl ==
    ASSUME ControlOK, NEW r \in Reqs, Instant(r)
    PROVE  ControlOK'
<1>1. PICK in: /\ "op" \in DOMAIN in /\ in.op \in {"session", "mapping", "export", "drop"}
               /\ req' = [req EXCEPT ![r] = in]
  BY DEF Instant
<1>2. /\ DOMAIN req' = Reqs /\ outcome' \in [Reqs -> Outcomes] /\ todo' = todo
      /\ req'[r] = in /\ outcome'[r] = "ok" /\ outcome[r] = "idle"
      /\ \A q \in Reqs \ {r}: req'[q] = req[q] /\ outcome'[q] = outcome[q]
  BY <1>1 DEF Instant, ControlOK, Outcomes
<1>3. ASSUME NEW q \in Reqs \ {r} PROVE Sound(q)' /\ OnCourse(q)'
  <2>1. Sound(q) /\ OnCourse(q)
    BY DEF ControlOK
  <2> QED
    BY <1>2, <2>1 DEF Sound, OnCourse, Running, Left
<1>4. Sound(r)' /\ OnCourse(r)'
  BY <1>1, <1>2 DEF Sound, OnCourse, Running
<1> QED
  BY <1>2, <1>3, <1>4 DEF ControlOK

LEMMA CrashKeepsControl ==
    ASSUME ControlOK, Crash
    PROVE  ControlOK'
<1>1. /\ req' = req /\ todo' \in [Reqs -> Seq(Steps)] /\ outcome' \in [Reqs -> Outcomes]
      /\ \A q \in Reqs: /\ todo'[q] = <<>> /\ outcome'[q] # "running"
                        /\ outcome'[q] = "idle" => outcome[q] = "idle"
  BY DEF Crash, ControlOK, Outcomes
<1> QED
  BY <1>1 DEF ControlOK, Sound, OnCourse, Running

LEMMA ProjectStepMoves ==
    ASSUME ControlOK, NEW r \in Reqs, ProjectStep(r), ~Begin(r)
    PROVE  Moves(r)
<1>1. Running(r) => Left(r) > 1 \/ Head(todo[r]) \notin {"findUser", "findCompany", "deleteMappings"}
  BY Here
<1>2. Running(r) => req[r].op = "create" \/ Head(todo[r]) # "insertProject"
  BY Here
<1> USE DEF Moves, At, Running, Quiet
<1>3. CASE FindUser(r) BY <1>1, <1>3 DEF FindUser
<1>4. CASE CreateUser(r) BY <1>4 DEF CreateUser
<1>5. CASE FindCompany(r) BY <1>1, <1>5 DEF FindCompany
<1>6. CASE CreateCompany(r) BY <1>6 DEF CreateCompany
<1>7. CASE InsertProject(r) BY <1>2, <1>7 DEF InsertProject
<1>8. CASE CheckAccess(r) BY <1>8 DEF CheckAccess
<1>9. CASE FindProject(r) BY <1>9 DEF FindProject
<1>10. CASE UpdateProject(r) BY <1>10 DEF UpdateProject
<1>11. CASE FindAccess(r) BY <1>11 DEF FindAccess
<1>12. CASE WriteAccess(r) BY <1>12 DEF WriteAccess
<1>13. CASE DeleteMappings(r) BY <1>1, <1>13 DEF DeleteMappings
<1>14. CASE InsertMappingsOf(r) BY <1>14 DEF InsertMappingsOf
<1>15. CASE ReadStatus(r) BY <1>15 DEF ReadStatus
<1>16. CASE WriteStatus(r) BY <1>16 DEF WriteStatus
<1>17. CASE MarkMappings(r) BY <1>17 DEF MarkMappings
<1>18. CASE RevokeAccess(r) BY <1>18 DEF RevokeAccess
<1>19. CASE DeleteAccess(r) BY <1>19 DEF DeleteAccess
<1>20. CASE DeleteProject(r) BY <1>20 DEF DeleteProject
<1>21. CASE FindMappings(r) BY <1>21 DEF FindMappings
<1>22. CASE CountMappings(r) BY <1>22 DEF CountMappings, Answer
<1>23. CASE FindOwn(r) BY <1>23 DEF FindOwn
<1>24. CASE CountProjects(r) BY <1>24 DEF CountProjects
<1>25. CASE FindProjects(r) BY <1>25 DEF FindProjects, Answer
<1>26. CASE Fail(r) BY <1>26 DEF Fail
<1> QED
  BY <1>3, <1>4, <1>5, <1>6, <1>7, <1>8, <1>9, <1>10, <1>11, <1>12, <1>13, <1>14,
     <1>15, <1>16, <1>17, <1>18, <1>19, <1>20, <1>21, <1>22, <1>23, <1>24, <1>25,
     <1>26 DEF ProjectStep

\* A step of a running request on its file or its object.
FileMove(r) ==
    \/ PutObject(r) \/ PutFails(r) \/ InsertFile(r) \/ FindFile(r) \/ GetObject(r)
    \/ SoftDelete(r) \/ Recheck(r) \/ SignUrl(r) \/ DeleteObject(r) \/ DeleteFails(r)

LEMMA FileMoveMoves ==
    ASSUME ControlOK, NEW r \in Reqs, FileMove(r)
    PROVE  Moves(r)
<1> USE DEF Moves, At, Running, Quiet
<1>1. CASE PutObject(r) BY <1>1 DEF PutObject
<1>2. CASE PutFails(r) BY <1>2 DEF PutFails
<1>3. CASE InsertFile(r) BY <1>3 DEF InsertFile
<1>4. CASE FindFile(r) BY <1>4 DEF FindFile
<1>5. CASE GetObject(r) BY <1>5 DEF GetObject
<1>6. CASE SoftDelete(r) BY <1>6 DEF SoftDelete
<1>7. CASE Recheck(r) BY <1>7 DEF Recheck
<1>8. CASE SignUrl(r) BY <1>8 DEF SignUrl
<1>9. CASE DeleteObject(r) BY <1>9 DEF DeleteObject
<1>10. CASE DeleteFails(r) BY <1>10 DEF DeleteFails
<1> QED
  BY <1>1, <1>2, <1>3, <1>4, <1>5, <1>6, <1>7, <1>8, <1>9, <1>10 DEF FileMove

LEMMA MoveShape ==
    ASSUME ControlOK, NEW r \in Reqs, Moves(r)
    PROVE  /\ \A q \in Reqs \ {r}: /\ todo'[q] = todo[q] /\ outcome'[q] = outcome[q]
                                   /\ Left(q)' = Left(q) /\ req'[q] = req[q]
           /\ outcome'[r] \in {"running", "ok", "refused", "failed"}
           /\ req'[r].op = req[r].op /\ (req'[r] = req[r] \/ req[r].op = "create")
           /\ req[r].op \in {"upload", "store", "remove"} =>
                /\ Running(r)' => Left(r) > 1 /\ Left(r)' = Left(r) - 1
           /\ outcome'[r] = "ok" /\ Skip(r, 1) => Left(r) = 1
<1>1. Running(r)
  BY DEF Moves
<1>2. Left(r) \in Nat /\ Left(r) > 0 /\ req[r].op \in DOMAIN Program
  BY <1>1, Here DEF ControlOK, OnCourse
<1>3. /\ \A q \in Reqs \ {r}: req'[q] = req[q]
      /\ req'[r].op = req[r].op /\ (req'[r] = req[r] \/ req[r].op = "create")
  BY Fields
<1>7. outcome'[r] = "ok" /\ Skip(r, 1) => Left(r) = 1
  <2>1. SUFFICES ASSUME Skip(r, 1), Left(r) # 1 PROVE outcome'[r] # "ok"
    OBVIOUS
  <2> QED
    BY <1>1, <2>1 DEF Skip, ControlOK, Running, Left
<1>4. CASE \E how \in {"ok", "refused", "failed"}: End(r, how)
  <2>1. /\ \A q \in Reqs \ {r}: todo'[q] = todo[q] /\ outcome'[q] = outcome[q]
        /\ outcome'[r] \in {"ok", "refused", "failed"}
    BY <1>4 DEF End, ControlOK
  <2> QED
    BY <1>3, <1>7, <2>1 DEF Running, Left
<1>5. CASE Skip(r, 1)
  <2>1. /\ \A q \in Reqs \ {r}: todo'[q] = todo[q] /\ outcome'[q] = outcome[q]
        /\ Left(r)' = Left(r) - 1
        /\ outcome'[r] = IF Left(r) = 1 THEN "ok" ELSE "running"
    <3>1. 1 <= Left(r)
      BY <1>2
    <3> QED
      BY <1>1, <1>5, <3>1, SkipMoves
  <2>2. \A q \in Reqs \ {r}: Left(q)' = Left(q)
    BY <2>1 DEF Left
  <2>3. Running(r)' => Left(r) > 1
    BY <1>2, <2>1 DEF Running
  <2> QED
    BY <1>3, <1>7, <2>1, <2>2, <2>3
<1>6. CASE /\ Skip(r, 2) /\ Left(r) > 1
           /\ Head(todo[r]) \in {"findUser", "findCompany", "deleteMappings"}
  <2>1. /\ \A q \in Reqs \ {r}: todo'[q] = todo[q] /\ outcome'[q] = outcome[q]
        /\ outcome'[r] = IF Left(r) = 2 THEN "ok" ELSE "running"
    <3>1. 2 <= Left(r)
      BY <1>2, <1>6
    <3> QED
      BY <1>1, <1>6, <3>1, SkipMoves
  <2>2. /\ req[r].op \in {"upload", "store"} =>
                    /\ Left(r) \in 1..3
                    /\ Left(r) = 3 => Head(todo[r]) = "check"
                    /\ Left(r) = 2 => Head(todo[r]) = "putObject"
                    /\ Left(r) = 1 => Head(todo[r]) = "insertFile"
        /\ req[r].op = "remove" =>
                    /\ Left(r) \in 1..6
                    /\ Left(r) \in {6, 3} => Head(todo[r]) = "findFile"
                    /\ Left(r) = 5 => Head(todo[r]) = "check"
                    /\ Left(r) = 4 => Head(todo[r]) = "softDelete"
                    /\ Left(r) = 2 => Head(todo[r]) = "recheck"
                    /\ Left(r) = 1 => Head(todo[r]) = "deleteObject"
    BY <1>1, Here
  <2>3. req[r].op \notin {"upload", "store", "remove"}
    BY <1>6, <2>2
  <2> QED
    BY <1>3, <1>7, <2>1, <2>3 DEF Running, Left
<1> QED
  BY <1>4, <1>5, <1>6 DEF Moves

-----------------------------------------------------------------------------
(* Files and their objects *)

FileTypeOK ==
    /\ ready \in BOOLEAN
    /\ file \in [Reqs -> {"none", "active", "deleted"}]
    /\ session \in [Reqs -> {"none", "pending", "mapped", "exported"}]
    /\ pending \union objects \subseteq Reqs
    /\ faults \in Nat

Uploads(r) == req[r].op \in {"upload", "store"}

\* What a request on a file has done so far.
SoFar(r) ==
    /\ file[r] # "none" \/ r \in pending \union objects => Uploads(r)
    /\ Running(r) /\ Uploads(r) =>
        /\ file[r] = "none"
        /\ Left(r) = 1 => r \in objects \union pending
        /\ Left(r) > 1 => r \notin objects
    /\ req[r].op \in FileOps => req[r].file \in Reqs /\ file[req[r].file] # "none"
    /\ Running(r) /\ req[r].op = "remove" /\ Left(r) <= 3 => file[req[r].file] = "deleted"

Removed(f) == \E r \in Reqs: req[r].op = "remove" /\ req[r].file = f /\ outcome[r] # "ok"

\* An object without a listed file has its cause.
Explained(f) ==
    file[f] # "active" =>
        \/ faults > 0 \/ Provider = "emergent" \/ outcome[f] = "running"
        \/ file[f] = "deleted" /\ Removed(f)

FileInv ==
    /\ \A r \in Reqs: SoFar(r)
    /\ ListedHaveObjects
    /\ objects # {} => ready \/ faults > 0
    /\ \A f \in objects: Explained(f)

\* A step that has nothing to do with files, or fails on one.
Aside(r) ==
    /\ Moves(r)
    /\ UNCHANGED <<file, pending, objects>>
    /\ ready => ready'
    /\ faults' \in Nat /\ (faults > 0 => faults' > 0)
    /\ \/ /\ Head(todo[r]) \notin {"putObject", "insertFile", "softDelete", "deleteObject"}
          /\ outcome'[r] = "ok" =>
                \/ Skip(r, 1)
                \/ Head(todo[r]) \in {"findOwn", "findUser", "findCompany", "deleteMappings"}
       \/ faults' > 0 /\ (End(r, "failed") \/ Head(todo[r]) = "deleteObject")

LEMMA AsideKeepsFiles ==
    ASSUME ControlOK, FileTypeOK, FileInv, NEW r \in Reqs, Aside(r)
    PROVE  FileInv'
<1>1. Running(r) /\ Moves(r)
  BY DEF Aside, Moves
<1> DEFINE s == Head(todo[r])
<1>2. /\ s = "findOwn" => req[r].op \in {"overview", "list"}
      /\ s = "deleteObject" => req[r].op = "remove"
      /\ Left(r) \in Nat
      /\ req[r].op \in {"upload", "store"} =>
                    /\ Left(r) \in 1..3
                    /\ Left(r) = 3 => s = "check"
                    /\ Left(r) = 2 => s = "putObject"
                    /\ Left(r) = 1 => s = "insertFile"
      /\ req[r].op = "remove" =>
                    /\ Left(r) \in 1..6
                    /\ Left(r) \in {6, 3} => s = "findFile"
                    /\ Left(r) = 5 => s = "check"
                    /\ Left(r) = 4 => s = "softDelete"
                    /\ Left(r) = 2 => s = "recheck"
                    /\ Left(r) = 1 => s = "deleteObject"
  BY <1>1, Here
<1>3. /\ \A q \in Reqs \ {r}: /\ outcome'[q] = outcome[q]
                              /\ Left(q)' = Left(q) /\ req'[q] = req[q]
      /\ req'[r].op = req[r].op /\ (req'[r] = req[r] \/ req[r].op = "create")
      /\ req[r].op \in {"upload", "store", "remove"} =>
           /\ Running(r)' => Left(r) > 1 /\ Left(r)' = Left(r) - 1
      /\ outcome'[r] = "ok" /\ Skip(r, 1) => Left(r) = 1
  BY <1>1, MoveShape
<1>4. /\ UNCHANGED <<file, pending, objects>>
      /\ ready => ready'
      /\ faults > 0 => faults' > 0
      /\ \/ /\ s \notin {"putObject", "insertFile", "softDelete", "deleteObject"}
            /\ outcome'[r] = "ok" =>
                \/ Skip(r, 1) \/ s \in {"findOwn", "findUser", "findCompany", "deleteMappings"}
         \/ faults' > 0 /\ (End(r, "failed") \/ s = "deleteObject")
  BY DEF Aside
<1>5. End(r, "failed") => ~Running(r)'
  BY DEF End, Running, ControlOK
<1> HIDE DEF s
<1>6. ASSUME NEW q \in Reqs PROVE SoFar(q)'
  <2>1. SoFar(q)
    BY DEF FileInv
  <2>2. CASE q # r
    <3>1. /\ outcome'[q] = outcome[q] /\ Left(q)' = Left(q) /\ req'[q] = req[q]
          /\ file' = file /\ pending' = pending /\ objects' = objects
      BY <1>3, <1>4, <2>2
    <3> QED
      BY <2>1, <3>1 DEF SoFar, Uploads, Running, FileOps
  <2>3. CASE q = r
    <3>1. Running(r)' /\ Uploads(r) => Left(r) = 3 /\ Left(r)' = 2
      BY <1>1, <1>2, <1>3, <1>4, <1>5 DEF Uploads
    <3>2. Running(r)' /\ req[r].op = "remove" /\ Left(r)' <= 3 => Left(r) <= 3
      BY <1>1, <1>2, <1>3, <1>4, <1>5
    <3> QED
      BY <1>1, <1>3, <1>4, <2>1, <2>3, <3>1, <3>2 DEF SoFar, Uploads, FileOps
  <2> QED
    BY <2>2, <2>3
<1>7. ListedHaveObjects' /\ (objects # {} => ready \/ faults > 0)'
  BY <1>4 DEF FileInv, ListedHaveObjects
<1>8. ASSUME NEW f \in objects PROVE Explained(f)'
  <2>1. Explained(f) /\ SoFar(f) /\ f \in Reqs
    BY DEF FileInv, FileTypeOK
  <2>2. CASE outcome[f] = "running" /\ outcome'[f] # "running"
    <3>1. f = r
      BY <1>3, <2>1, <2>2
    <3>2. Uploads(r) /\ Left(r) <= 1
      BY <1>1, <1>2, <2>1, <3>1 DEF SoFar, Uploads
    <3>3. faults' > 0
      BY <1>2, <1>4, <3>2 DEF Uploads
    <3> QED
      BY <3>3 DEF Explained
  <2>3. CASE file[f] = "deleted" /\ Removed(f)
    <3>1. PICK q \in Reqs: req[q].op = "remove" /\ req[q].file = f /\ outcome[q] # "ok"
      BY <2>3 DEF Removed
    <3>2. CASE q # r
      BY <1>3, <1>4, <2>3, <3>1, <3>2 DEF Removed, Explained
    <3>3. CASE q = r
      <4>1. outcome'[r] # "ok" \/ faults' > 0
        BY <1>2, <1>3, <1>4, <3>1, <3>3
      <4> QED
        BY <1>3, <1>4, <2>3, <3>1, <3>3, <4>1 DEF Removed, Explained
    <3> QED
      BY <3>2, <3>3
  <2> QED
    BY <1>4, <2>1, <2>2, <2>3 DEF Explained
<1> QED
  BY <1>4, <1>6, <1>7, <1>8 DEF FileInv

\* The steps of a request on its file: what they need of it and leave of it.
LEMMA PutKeepsFiles ==
    ASSUME ControlOK, FileTypeOK, FileInv, NEW r \in Reqs, PutObject(r) \/ PutFails(r)
    PROVE  FileInv'
<1>1. Running(r) /\ Moves(r) /\ Head(todo[r]) = "putObject"
  <2>1. FileMove(r)
    BY DEF FileMove
  <2> QED
    BY <2>1, FileMoveMoves DEF PutObject, PutFails, At, Running
<1>2. Uploads(r) /\ Left(r) = 2
  BY <1>1, Here DEF Uploads
<1>3. /\ \A q \in Reqs \ {r}: /\ outcome'[q] = outcome[q]
                              /\ Left(q)' = Left(q) /\ req'[q] = req[q]
      /\ req'[r].op = req[r].op /\ req'[r] = req[r]
      /\ Running(r)' => Left(r)' = 1
  BY <1>1, <1>2, MoveShape DEF Uploads
<1>4. /\ file' = file /\ r \in Reqs
      /\ \/ /\ faults' = faults /\ ready' /\ objects' = objects \union {r}
            /\ pending' = pending /\ Running(r)'
         \/ /\ faults' = faults /\ (ready => ready') /\ objects' = objects
            /\ pending' = pending \union {r}
         \/ /\ faults' > 0 /\ ready' /\ pending' = pending /\ ~Running(r)'
            /\ objects' \in {objects, objects \union {r}}
  <2>1. CASE PutObject(r) /\ ready'
    <3>1. Skip(r, 1)
      BY <2>1 DEF PutObject
    <3>2. Running(r)'
      BY <1>1, <1>2, <3>1 DEF Skip, ControlOK, Running, Left
    <3> QED
      BY <2>1, <3>2 DEF PutObject, Quiet
  <2>2. CASE PutObject(r) /\ ~ready'
    BY <2>2 DEF PutObject, Quiet, InitStorage, FileTypeOK
  <2>3. CASE PutFails(r)
    BY <2>3 DEF PutFails, End, ControlOK, Running, FileTypeOK
  <2> QED
    BY <2>1, <2>2, <2>3
<1>5. file[r] = "none" /\ r \notin objects /\ SoFar(r)
  BY <1>1, <1>2 DEF FileInv, SoFar
<1>6. ASSUME NEW q \in Reqs PROVE SoFar(q)'
  <2>1. SoFar(q)
    BY DEF FileInv
  <2>2. CASE q # r
    <3>1. /\ outcome'[q] = outcome[q] /\ Left(q)' = Left(q) /\ req'[q] = req[q]
          /\ file' = file
          /\ q \in objects' <=> q \in objects
          /\ q \in pending' <=> q \in pending
      BY <1>3, <1>4, <2>2
    <3> QED
      BY <2>1, <3>1 DEF SoFar, Uploads, Running
  <2>3. CASE q = r
    <3>1. Running(r)' => r \in objects' \union pending'
      BY <1>4
    <3> QED
      BY <1>2, <1>3, <1>4, <1>5, <2>3, <3>1 DEF SoFar, Uploads, FileOps
  <2> QED
    BY <2>2, <2>3
<1>7. ListedHaveObjects'
  BY <1>4 DEF FileInv, ListedHaveObjects
<1>8. (objects # {} => ready \/ faults > 0)'
  BY <1>4 DEF FileInv
<1>9. ASSUME NEW f \in objects' PROVE Explained(f)'
  <2>1. CASE f = r
    BY <1>1, <1>4, <1>5, <2>1 DEF Explained, Running
  <2>2. CASE f # r
    <3>1. Explained(f) /\ f \in Reqs /\ outcome'[f] = outcome[f] /\ file'[f] = file[f]
      BY <1>3, <1>4, <2>2 DEF FileInv, FileTypeOK
    <3>2. Removed(f) => Removed(f)'
      BY <1>2, <1>3 DEF Removed, Uploads
    <3>3. faults > 0 => faults' > 0
      BY <1>4
    <3> QED
      BY <3>1, <3>2, <3>3 DEF Explained
  <2> QED
    BY <2>1, <2>2
<1> QED
  BY <1>6, <1>7, <1>8, <1>9 DEF FileInv

LEMMA InsertKeepsFiles ==
    ASSUME ControlOK, FileTypeOK, FileInv, NEW r \in Reqs, InsertFile(r)
    PROVE  FileInv'
<1>1. Running(r) /\ Moves(r) /\ Head(todo[r]) = "insertFile"
  <2>1. FileMove(r)
    BY DEF FileMove
  <2> QED
    BY <2>1, FileMoveMoves DEF InsertFile, At, Running
<1>2. Uploads(r) /\ Left(r) = 1
  BY <1>1, Here DEF Uploads
<1>3. /\ \A q \in Reqs \ {r}: /\ outcome'[q] = outcome[q]
                              /\ Left(q)' = Left(q) /\ req'[q] = req[q]
      /\ req'[r].op = req[r].op /\ req'[r] = req[r]
      /\ ~Running(r)'
  BY <1>1, <1>2, MoveShape DEF Uploads
<1>4. /\ file' = [file EXCEPT ![r] = "active"] /\ faults' = faults /\ ready' = ready
      /\ objects' = objects /\ pending' = pending
  BY DEF InsertFile, Quiet
<1>5. /\ file'[r] = "active" /\ file[r] = "none" /\ r \in objects \union pending
      /\ \A f \in Reqs \ {r}: file'[f] = file[f]
  BY <1>1, <1>2, <1>4 DEF FileInv, SoFar, FileTypeOK
<1>6. ASSUME NEW q \in Reqs PROVE SoFar(q)'
  <2>1. SoFar(q)
    BY DEF FileInv
  <2>2. CASE q # r
    <3>1. /\ outcome'[q] = outcome[q] /\ Left(q)' = Left(q) /\ req'[q] = req[q]
          /\ objects' = objects /\ pending' = pending /\ file'[q] = file[q]
          /\ \A f \in Reqs: /\ file[f] # "none" => file'[f] # "none"
                            /\ file[f] = "deleted" => file'[f] = "deleted"
      BY <1>3, <1>4, <1>5, <2>2
    <3> QED
      BY <2>1, <3>1 DEF SoFar, Uploads, Running, FileOps
  <2>3. CASE q = r
    BY <1>2, <1>3, <2>3 DEF SoFar, Uploads, FileOps
  <2> QED
    BY <2>2, <2>3
<1>7. ListedHaveObjects'
  BY <1>4, <1>5 DEF FileInv, ListedHaveObjects
<1>8. (objects # {} => ready \/ faults > 0)'
  BY <1>4 DEF FileInv
<1>9. ASSUME NEW f \in objects' PROVE Explained(f)'
  <2>1. CASE f = r
    BY <1>5, <2>1 DEF Explained
  <2>2. CASE f # r
    <3>1. Explained(f) /\ outcome'[f] = outcome[f] /\ file'[f] = file[f]
      BY <1>3, <1>4, <1>5, <2>2 DEF FileInv, FileTypeOK
    <3>2. Removed(f) => Removed(f)'
      BY <1>2, <1>3 DEF Removed, Uploads
    <3> QED
      BY <1>4, <3>1, <3>2 DEF Explained
  <2> QED
    BY <2>1, <2>2
<1> QED
  BY <1>6, <1>7, <1>8, <1>9 DEF FileInv

LEMMA SoftDeleteKeepsFiles ==
    ASSUME ControlOK, FileTypeOK, FileInv, NEW r \in Reqs, SoftDelete(r)
    PROVE  FileInv'
<1> DEFINE g == req[r].file
<1>1. Running(r) /\ Moves(r) /\ Head(todo[r]) = "softDelete"
  <2>1. FileMove(r)
    BY DEF FileMove
  <2> QED
    BY <2>1, FileMoveMoves DEF SoftDelete, At, Running
<1>2. req[r].op = "remove" /\ Left(r) = 4
  BY <1>1, Here
<1>3. /\ \A q \in Reqs \ {r}: /\ outcome'[q] = outcome[q]
                              /\ Left(q)' = Left(q) /\ req'[q] = req[q]
      /\ req'[r].op = req[r].op /\ req'[r] = req[r]
      /\ outcome'[r] = "ok" => ~Skip(r, 1)
  BY <1>1, <1>2, MoveShape
<1>4. /\ file' = [file EXCEPT ![g] = "deleted"] /\ faults' = faults
      /\ objects' = objects /\ pending' = pending
      /\ ready => ready'
      /\ ready' => Skip(r, 1)
  BY DEF SoftDelete, Quiet, InitStorage
<1>5. /\ g \in Reqs /\ file[g] # "none" /\ file'[g] = "deleted"
      /\ \A f \in Reqs \ {g}: file'[f] = file[f]
  <2>1. g \in Reqs /\ file[g] # "none"
    BY <1>2 DEF FileInv, SoFar, FileOps
  <2> HIDE DEF g
  <2> QED
    BY <1>4, <2>1 DEF FileTypeOK
<1> HIDE DEF g
<1>6. ASSUME NEW q \in Reqs PROVE SoFar(q)'
  <2>1. SoFar(q)
    BY DEF FileInv
  <2>2. /\ file[q] = "none" <=> file'[q] = "none"
        /\ \A f \in Reqs: /\ file[f] # "none" => file'[f] # "none"
                          /\ file[f] = "deleted" => file'[f] = "deleted"
    BY <1>5
  <2>3. CASE q # r
    <3>1. /\ outcome'[q] = outcome[q] /\ Left(q)' = Left(q) /\ req'[q] = req[q]
          /\ objects' = objects /\ pending' = pending
      BY <1>3, <1>4, <2>3
    <3> QED
      BY <2>1, <2>2, <3>1 DEF SoFar, Uploads, Running, FileOps
  <2>4. CASE q = r
    BY <1>2, <1>3, <1>4, <1>5, <2>1, <2>2, <2>4 DEF SoFar, Uploads, g
  <2> QED
    BY <2>3, <2>4
<1>7. ListedHaveObjects'
  BY <1>4, <1>5 DEF FileInv, ListedHaveObjects
<1>8. (objects # {} => ready \/ faults > 0)'
  BY <1>4 DEF FileInv
<1>9. ASSUME NEW f \in objects' PROVE Explained(f)'
  <2>1. f \in objects /\ f \in Reqs /\ Explained(f)
    BY <1>4 DEF FileInv, FileTypeOK
  <2>2. outcome'[r] # "ok" \/ faults' > 0
    BY <1>3, <1>4, <2>1 DEF FileInv
  <2>3. CASE f = g
    BY <1>2, <1>3, <1>5, <2>2, <2>3 DEF Explained, Removed, g
  <2>4. CASE f # g
    <3>1. f # r
      BY <1>1, <1>2, <1>5, <2>4, <2>1 DEF FileInv, SoFar, Uploads
    <3>2. Removed(f) => Removed(f)'
      BY <1>3, <2>4 DEF Removed, g
    <3> QED
      BY <1>3, <1>4, <1>5, <2>1, <2>4, <3>1, <3>2 DEF Explained
  <2> QED
    BY <2>3, <2>4
<1> QED
  BY <1>6, <1>7, <1>8, <1>9 DEF FileInv

LEMMA DeleteObjectKeepsFiles ==
    ASSUME ControlOK, FileTypeOK, FileInv, NEW r \in Reqs, DeleteObject(r)
    PROVE  FileInv'
<1> DEFINE g == req[r].file
<1>1. Running(r) /\ Moves(r) /\ Head(todo[r]) = "deleteObject"
  <2>1. FileMove(r)
    BY DEF FileMove
  <2> QED
    BY <2>1, FileMoveMoves DEF DeleteObject, At, Running
<1>2. req[r].op = "remove" /\ Left(r) = 1
  <2>1. req[r].op = "remove"
    BY <1>1, Here
  <2>2. /\ Left(r) \in 1..6
        /\ Left(r) \in {6, 3} => Head(todo[r]) = "findFile"
        /\ Left(r) = 5 => Head(todo[r]) = "check"
        /\ Left(r) = 4 => Head(todo[r]) = "softDelete"
        /\ Left(r) = 2 => Head(todo[r]) = "recheck"
    BY <1>1, <2>1, Here
  <2> QED
    BY <1>1, <2>1, <2>2
<1>3. /\ \A q \in Reqs \ {r}: /\ outcome'[q] = outcome[q]
                              /\ Left(q)' = Left(q) /\ req'[q] = req[q]
      /\ req'[r].op = req[r].op /\ req'[r] = req[r]
      /\ ~Running(r)'
  BY <1>1, <1>2, MoveShape
<1>4. /\ file' = file /\ faults' = faults /\ pending' = pending /\ ready' = ready
      /\ objects' = IF Provider = "s3" THEN objects \ {g} ELSE objects
  BY DEF DeleteObject, Quiet
<1>5. g \in Reqs /\ file[g] = "deleted"
  BY <1>1, <1>2 DEF FileInv, SoFar, FileOps
<1> HIDE DEF g
<1>6. ASSUME NEW q \in Reqs PROVE SoFar(q)'
  <2>1. SoFar(q) /\ objects' \subseteq objects
    BY <1>4 DEF FileInv
  <2>2. CASE q # r
    <3>1. /\ outcome'[q] = outcome[q] /\ Left(q)' = Left(q) /\ req'[q] = req[q]
          /\ pending' = pending /\ file' = file
          /\ file[q] = "none" => (q \in objects' <=> q \in objects)
      BY <1>3, <1>4, <1>5, <2>2
    <3> QED
      BY <2>1, <3>1 DEF SoFar, Uploads, Running, FileOps
  <2>3. CASE q = r
    BY <1>2, <1>3, <1>4, <2>1, <2>3 DEF SoFar, Uploads
  <2> QED
    BY <2>2, <2>3
<1>7. ListedHaveObjects'
  BY <1>4, <1>5 DEF FileInv, ListedHaveObjects
<1>8. (objects # {} => ready \/ faults > 0)'
  BY <1>4 DEF FileInv
<1>9. ASSUME NEW f \in objects' PROVE Explained(f)'
  <2>1. f \in objects /\ f \in Reqs /\ Explained(f)
    BY <1>4 DEF FileInv, FileTypeOK
  <2>2. CASE Provider = "emergent"
    BY <2>2 DEF Explained
  <2>3. CASE Provider = "s3"
    <3>1. f # g
      BY <1>4, <2>3
    <3>2. Removed(f) => Removed(f)'
      BY <1>3, <3>1 DEF Removed, g
    <3>3. outcome[f] = "running" => outcome'[f] = "running" \/ f = r
      BY <1>3, <2>1
    <3>4. f # r
      BY <1>2, <2>1 DEF FileInv, SoFar, Uploads
    <3> QED
      BY <1>4, <2>1, <3>2, <3>3, <3>4 DEF Explained
  <2> QED
    BY <2>2, <2>3, ProviderAssumption
<1> QED
  BY <1>6, <1>7, <1>8, <1>9 DEF FileInv

LEMMA ProjectStepAside ==
    ASSUME ControlOK, FileTypeOK, NEW r \in Reqs, ProjectStep(r), ~Begin(r), UNCHANGED fileVars
    PROVE  Aside(r)
<1>1. Moves(r)
  BY ProjectStepMoves
<1>2. UNCHANGED <<file, pending, objects, ready>>
  BY DEF fileVars
<1>3. CASE Fail(r)
  BY <1>1, <1>2, <1>3 DEF Fail, Aside, FileTypeOK
<1>4. CASE ~Fail(r)
  <2>1. faults' = faults
    BY <1>4 DEF ProjectStep, FindUser, CreateUser, FindCompany, CreateCompany,
         InsertProject, CheckAccess, FindProject, UpdateProject, FindAccess,
         WriteAccess, DeleteMappings, InsertMappingsOf, ReadStatus, WriteStatus,
         MarkMappings, RevokeAccess, DeleteAccess, DeleteProject, FindMappings,
         CountMappings, FindOwn, CountProjects, FindProjects, Answer, Quiet
  <2>2. Head(todo[r]) \notin {"putObject", "insertFile", "softDelete", "deleteObject"}
    BY <1>4 DEF ProjectStep, FindUser, CreateUser, FindCompany, CreateCompany,
         InsertProject, CheckAccess, FindProject, UpdateProject, FindAccess,
         WriteAccess, DeleteMappings, InsertMappingsOf, ReadStatus, WriteStatus,
         MarkMappings, RevokeAccess, DeleteAccess, DeleteProject, FindMappings,
         CountMappings, FindOwn, CountProjects, FindProjects, At
  <2>3. \/ Skip(r, 1)
        \/ Head(todo[r]) \in {"findOwn", "findUser", "findCompany", "deleteMappings"}
        \/ End(r, "failed") \/ End(r, "refused")
    BY <1>4 DEF ProjectStep, FindUser, CreateUser, FindCompany, CreateCompany,
         InsertProject, CheckAccess, FindProject, UpdateProject, FindAccess,
         WriteAccess, DeleteMappings, InsertMappingsOf, ReadStatus, WriteStatus,
         MarkMappings, RevokeAccess, DeleteAccess, DeleteProject, FindMappings,
         CountMappings, FindOwn, CountProjects, FindProjects, Answer, At
  <2>4. End(r, "failed") \/ End(r, "refused") => outcome'[r] # "ok"
    BY DEF End, ControlOK
  <2> QED
    BY <1>1, <1>2, <2>1, <2>2, <2>3, <2>4 DEF Aside, FileTypeOK
<1> QED
  BY <1>3, <1>4

\* The steps on a file that change neither its document nor its object.
LEMMA FileMoveAside ==
    ASSUME ControlOK, FileTypeOK, NEW r \in Reqs,
           FindFile(r) \/ GetObject(r) \/ Recheck(r) \/ SignUrl(r) \/ DeleteFails(r)
    PROVE  Aside(r)
<1>1. Moves(r)
  BY FileMoveMoves DEF FileMove
<1>2. End(r, "failed") \/ End(r, "refused") => outcome'[r] # "ok"
  BY DEF End, ControlOK
<1>3. CASE FindFile(r)
  BY <1>1, <1>3 DEF FindFile, Aside, At, Quiet, FileTypeOK, fileVars
<1>4. CASE GetObject(r)
  BY <1>1, <1>2, <1>4 DEF GetObject, Aside, At, Quiet, FileTypeOK, InitStorage
<1>5. CASE Recheck(r)
  BY <1>1, <1>2, <1>5 DEF Recheck, Aside, At, Quiet, FileTypeOK, fileVars
<1>6. CASE SignUrl(r)
  BY <1>1, <1>2, <1>6 DEF SignUrl, Aside, At, Quiet, FileTypeOK, InitStorage
<1>7. CASE DeleteFails(r)
  BY <1>1, <1>7 DEF DeleteFails, Aside, At, FileTypeOK, fileVars
<1> QED
  BY <1>3, <1>4, <1>5, <1>6, <1>7

LEMMA FileMoveKeepsFiles ==
    ASSUME ControlOK, FileTypeOK, FileInv, NEW r \in Reqs, FileMove(r)
    PROVE  FileInv'
<1>1. CASE PutObject(r) \/ PutFails(r)
  BY <1>1, PutKeepsFiles
<1>2. CASE InsertFile(r)
  BY <1>2, InsertKeepsFiles
<1>3. CASE SoftDelete(r)
  BY <1>3, SoftDeleteKeepsFiles
<1>4. CASE DeleteObject(r)
  BY <1>4, DeleteObjectKeepsFiles
<1>5. CASE FindFile(r) \/ GetObject(r) \/ Recheck(r) \/ SignUrl(r) \/ DeleteFails(r)
  BY <1>5, FileMoveAside, AsideKeepsFiles
<1> QED
  BY <1>1, <1>2, <1>3, <1>4, <1>5 DEF FileMove

LEMMA Lengths ==
    /\ Len(Program["upload"]) = 3
    /\ Len(Program["store"]) = 3
    /\ Len(Program["remove"]) = 6
<1>1. Program["upload"] = UploadSteps /\ Program["store"] = StoreSteps
  BY DEF Program
<1>2. Program["remove"] = RemoveSteps
  BY DEF Program
<1> QED
  BY <1>1, <1>2 DEF UploadSteps, StoreSteps, RemoveSteps

LEMMA SoFarStays ==
    ASSUME NEW q \in Reqs, SoFar(q), req'[q] = req[q], outcome'[q] = outcome[q],
           todo'[q] = todo[q], UNCHANGED <<file, pending, objects>>
    PROVE  SoFar(q)'
BY DEF SoFar, Uploads, Running, FileOps, Left

\* A request that begins, or is answered at once, has no file yet.
LEMMA FreshKeepsFiles ==
    ASSUME ControlOK, FileTypeOK, FileInv, NEW r \in Reqs,
           outcome[r] = "idle", outcome'[r] \in {"running", "ok"},
           \A q \in Reqs \ {r}: /\ req'[q] = req[q] /\ todo'[q] = todo[q]
                                /\ outcome'[q] = outcome[q],
           Running(r)' => Left(r)' = Len(Program[req'[r].op]) /\ req'[r].op \in DOMAIN Program,
           req'[r].op \in FileOps => req'[r].file \in Reqs /\ file[req'[r].file] # "none",
           UNCHANGED <<ready, file, pending, objects, faults>>
    PROVE  FileInv'
<1>1. file[r] = "none" /\ r \notin pending \union objects /\ req[r].op = "none"
  BY DEF ControlOK, Sound, FileInv, SoFar, Uploads, NoInput
<1>2. ASSUME NEW q \in Reqs PROVE SoFar(q)'
  <2>1. SoFar(q)
    BY DEF FileInv
  <2>2. CASE q # r
    <3>1. /\ req'[q] = req[q] /\ outcome'[q] = outcome[q] /\ todo'[q] = todo[q]
          /\ file' = file /\ pending' = pending /\ objects' = objects
      BY <2>2
    <3> QED
      BY <2>1, <3>1, SoFarStays
  <2>3. CASE q = r
    <3>1. Running(r)' /\ Uploads(r)' => Left(r)' = 3
      <4> SUFFICES ASSUME Running(r)', req'[r].op \in {"upload", "store"} PROVE Left(r)' = 3
        BY DEF Uploads
      <4> QED
        BY Lengths
    <3>2. Running(r)' /\ req'[r].op = "remove" => Left(r)' = 6
      BY Lengths
    <3> QED
      BY <1>1, <2>3, <3>1, <3>2 DEF SoFar, Uploads, FileOps
  <2> QED
    BY <2>2, <2>3
<1>3. ListedHaveObjects' /\ (objects # {} => ready \/ faults > 0)'
  BY DEF FileInv, ListedHaveObjects
<1>4. ASSUME NEW f \in objects' PROVE Explained(f)'
  <2>1. f \in Reqs /\ f # r /\ Explained(f) /\ outcome'[f] = outcome[f]
    BY <1>1 DEF FileInv, FileTypeOK
  <2>2. Removed(f) => Removed(f)'
    BY <1>1 DEF Removed
  <2> QED
    BY <2>1, <2>2 DEF Explained
<1> QED
  BY <1>2, <1>3, <1>4 DEF FileInv

-----------------------------------------------------------------------------
(* The invariant, step by step *)

Inv == DbOK /\ ControlOK /\ FileTypeOK /\ FileInv

LEMMA InvInit == Init => Inv
<1> SUFFICES ASSUME Init PROVE Inv
  OBVIOUS
<1>1. DbOK
  BY DEF Init, ProjectsInit, DbOK
<1>2. ControlOK
  <2>1. /\ req = [r \in Reqs |-> NoInput] /\ todo = [r \in Reqs |-> <<>>]
        /\ outcome = [r \in Reqs |-> "idle"]
    BY DEF Init, ProjectsInit
  <2>2. DOMAIN req = Reqs /\ todo \in [Reqs -> Seq(Steps)] /\ outcome \in [Reqs -> Outcomes]
    BY <2>1 DEF Outcomes
  <2>3. \A r \in Reqs: Sound(r) /\ OnCourse(r)
    BY <2>1 DEF Sound, OnCourse, Running, NoInput
  <2> QED
    BY <2>1, <2>2, <2>3 DEF ControlOK
<1>3. FileTypeOK
  BY DEF Init, ProjectsInit, FileTypeOK
<1>4. FileInv
  <2>1. ASSUME NEW r \in Reqs PROVE SoFar(r)
    BY DEF Init, ProjectsInit, SoFar, Running, Uploads, NoInput, FileOps
  <2> QED
    BY <2>1 DEF Init, ProjectsInit, FileInv, ListedHaveObjects
<1> QED
  BY <1>1, <1>2, <1>3, <1>4 DEF Inv

\* A step of start-up leaves requests and files alone.
LEMMA StartUpStep ==
    ASSUME Inv, StartUp, UNCHANGED fileVars
    PROVE  Inv'
<1>1. UNCHANGED <<req, todo, outcome, faults>>
  BY DEF StartUp, CountUsers, InsertUsers, InsertCompanies, InsertProjects,
       InsertAccess, InsertMappings, Seeding, reqVars
<1>2. UNCHANGED <<ready, file, pending, objects, session>>
  BY DEF fileVars
<1>3. ControlOK'
  BY <1>1 DEF Inv, ControlOK, Sound, OnCourse, Running, Left
<1>4. FileTypeOK'
  BY <1>1, <1>2 DEF Inv, FileTypeOK
<1>5. FileInv'
  <2>1. ASSUME NEW r \in Reqs PROVE SoFar(r)'
    BY <1>1, <1>2, SoFarStays DEF Inv, FileInv
  <2>2. \A f \in objects: Explained(f)'
    BY <1>1, <1>2 DEF Inv, FileInv, Explained, Removed
  <2> QED
    BY <1>1, <1>2, <2>1, <2>2 DEF Inv, FileInv, ListedHaveObjects
<1>6. DbOK'
  <2> USE DEF Inv, DbOK, dbVars
  <2>1. CASE CountUsers
    BY <2>1 DEF CountUsers
  <2>2. CASE InsertUsers
    BY <2>2, LegacyAssumption DEF InsertUsers
  <2>3. CASE InsertCompanies
    BY <2>3 DEF InsertCompanies
  <2>4. CASE InsertProjects
    BY <2>4 DEF InsertProjects, Statuses
  <2>5. CASE InsertAccess
    <3>1. [u \in Users |-> IF u \in SeedUsers THEN SeedRole[u] ELSE "none"]
            \in [Users -> Roles \union {"none"}]
      BY LegacyAssumption
    <3> QED
      BY <2>5, <3>1 DEF InsertAccess
  <2>6. CASE InsertMappings
    <3>1. SeedMapping \in [by: Reqs \union {"seed"}, confirmed: BOOLEAN]
      BY DEF SeedMapping
    <3> QED
      BY <2>6, <3>1 DEF InsertMappings
  <2> QED
    BY <2>1, <2>2, <2>3, <2>4, <2>5, <2>6 DEF StartUp
<1> QED
  BY <1>3, <1>4, <1>5, <1>6 DEF Inv

\* What a request writes to the collections is of their types.
LEMMA ProjectStepDb ==
    ASSUME Inv, NEW r \in Reqs, ProjectStep(r)
    PROVE  DbOK'
<1> USE DEF DbOK, dbVars, Quiet
<1>0. DbOK
  BY DEF Inv
<1>1. /\ Running(r) /\ Head(todo[r]) = "createUser" => req[r].target \in Users
      /\ Running(r) /\ Head(todo[r]) = "writeAccess" => req[r].role \in Roles
      /\ Running(r) /\ Head(todo[r]) = "updateProject" => req[r].status \in Statuses
  <2>1. Sound(r) /\ ControlOK
    BY DEF Inv, ControlOK
  <2>2. ASSUME Running(r)
        PROVE  /\ Head(todo[r]) = "createUser" => req[r].op \in {"login", "grant"}
               /\ Head(todo[r]) = "writeAccess" => req[r].op \in {"create", "grant"}
               /\ Head(todo[r]) = "updateProject" => req[r].op = "update"
    BY <2>1, <2>2, Here
  <2> QED
    BY <2>1, <2>2 DEF Sound
<1>2. CASE CreateUser(r)
  BY <1>0, <1>1, <1>2 DEF CreateUser, At, Running
<1>3. CASE InsertProject(r)
  BY <1>0, <1>3 DEF InsertProject, Statuses
<1>4. CASE UpdateProject(r)
  BY <1>0, <1>1, <1>4 DEF UpdateProject, At, Running
<1>5. CASE WriteAccess(r)
  BY <1>0, <1>1, <1>5 DEF WriteAccess, At, Running
<1>6. CASE DeleteMappings(r)
  <2>1. \A p \in Projects: maps'[p] \subseteq maps[p]
    BY <1>6 DEF DeleteMappings
  <2> QED
    BY <1>0, <1>6, <2>1 DEF DeleteMappings
<1>7. CASE InsertMappingsOf(r)
  <2> DEFINE Row == [by: Reqs \union {"seed"}, confirmed: BOOLEAN]
             new == [by |-> r, confirmed |-> FALSE]
  <2>1. new \in Row
    OBVIOUS
  <2>2. maps' = [maps EXCEPT ![req[r].project] = @ \union {new}]
    BY <1>7 DEF InsertMappingsOf
  <2>3. maps \in [Projects -> SUBSET Row]
    BY <1>0
  <2> HIDE DEF Row, new
  <2>4. maps' \in [Projects -> SUBSET Row]
    BY <2>1, <2>2, <2>3
  <2> QED
    BY <1>0, <1>7, <2>4 DEF InsertMappingsOf, Row
<1>8. CASE MarkMappings(r)
  <2> DEFINE Row == [by: Reqs \union {"seed"}, confirmed: BOOLEAN]
             Marked(m) == [m EXCEPT !.confirmed = TRUE]
  <2>1. \A m \in Row: Marked(m) \in Row
    OBVIOUS
  <2>2. maps' = [maps EXCEPT ![req[r].project] = {Marked(m): m \in @}]
    BY <1>8 DEF MarkMappings
  <2>3. maps \in [Projects -> SUBSET Row]
    BY <1>0
  <2> HIDE DEF Row, Marked
  <2>4. maps' \in [Projects -> SUBSET Row]
    BY <2>1, <2>2, <2>3
  <2> QED
    BY <1>0, <1>8, <2>4 DEF MarkMappings, Row
<1>9. CASE WriteStatus(r)
  BY <1>0, <1>9 DEF WriteStatus, Statuses
<1>10. CASE RevokeAccess(r)
  BY <1>0, <1>10 DEF RevokeAccess
<1>11. CASE DeleteAccess(r)
  BY <1>0, <1>11 DEF DeleteAccess
<1>12. CASE DeleteProject(r)
  BY <1>0, <1>12 DEF DeleteProject
<1>13. CASE CreateCompany(r)
  BY <1>0, <1>13 DEF CreateCompany
<1>14. CASE UNCHANGED dbVars
  BY <1>0, <1>14
<1>15. CASE Begin(r)
  BY <1>14, <1>15 DEF Begin, Start
<1> QED
  BY <1>2, <1>3, <1>4, <1>5, <1>6, <1>7, <1>8, <1>9, <1>10, <1>11, <1>12, <1>13,
     <1>14, <1>15
  DEF ProjectStep, FindUser, FindCompany, CheckAccess, FindProject, FindAccess,
      ReadStatus, FindMappings, CountMappings, Answer, FindOwn, CountProjects,
      FindProjects, Fail

LEMMA FileStepTypes ==
    ASSUME Inv, NEW r \in Reqs, FileStep(r)
    PROVE  FileTypeOK' /\ DbOK'
<1>1. UNCHANGED dbVars
  BY DEF FileStep, BeginWithFile, Start, PutObject, PutFails, InsertFile, FindFile,
       GetObject, SoftDelete, Recheck, SignUrl, DeleteObject, DeleteFails,
       UploadOnly, SaveMapping, ExportMapped, DeleteSession, OnSession
<1>2. DbOK'
  BY <1>1 DEF Inv, DbOK, dbVars
<1>3. FileTypeOK
  BY DEF Inv
<1> USE DEF FileTypeOK, fileVars, Quiet, InitStorage, OpenSession
<1>4. CASE BeginWithFile(r) BY <1>2, <1>3, <1>4 DEF BeginWithFile, Start
<1>5. CASE PutObject(r) BY <1>2, <1>3, <1>5 DEF PutObject
<1>6. CASE PutFails(r) BY <1>2, <1>3, <1>6 DEF PutFails
<1>7. CASE InsertFile(r) BY <1>2, <1>3, <1>7 DEF InsertFile
<1>8. CASE FindFile(r) BY <1>2, <1>3, <1>8 DEF FindFile
<1>9. CASE GetObject(r) BY <1>2, <1>3, <1>9 DEF GetObject
<1>10. CASE SoftDelete(r) BY <1>2, <1>3, <1>10 DEF SoftDelete
<1>11. CASE Recheck(r) BY <1>2, <1>3, <1>11 DEF Recheck
<1>12. CASE SignUrl(r) BY <1>2, <1>3, <1>12 DEF SignUrl
<1>13. CASE DeleteObject(r) BY <1>2, <1>3, <1>13 DEF DeleteObject
<1>14. CASE DeleteFails(r) BY <1>2, <1>3, <1>14 DEF DeleteFails
<1>15. CASE UploadOnly(r) BY <1>2, <1>3, <1>15 DEF UploadOnly
<1>16. CASE SaveMapping(r) \/ ExportMapped(r) \/ DeleteSession(r)
  BY <1>2, <1>3, <1>16 DEF SaveMapping, ExportMapped, DeleteSession, OnSession
<1> QED
  BY <1>2, <1>4, <1>5, <1>6, <1>7, <1>8, <1>9, <1>10, <1>11, <1>12, <1>13, <1>14,
     <1>15, <1>16 DEF FileStep

LEMMA StartKeepsInv ==
    ASSUME Inv, NEW r \in Reqs, NEW in, GoodInput(in), Start(r, in), UNCHANGED fileVars,
           in.op \in FileOps => in.file \in Reqs /\ file[in.file] # "none"
    PROVE  ControlOK' /\ FileInv'
<1>1. ControlOK'
  BY StartKeepsControl DEF Inv
<1>2. /\ outcome[r] = "idle" /\ outcome'[r] = "running"
      /\ req'[r] = in /\ todo'[r] = Program[in.op]
      /\ \A q \in Reqs \ {r}: /\ req'[q] = req[q] /\ todo'[q] = todo[q]
                              /\ outcome'[q] = outcome[q]
  BY DEF Start, Inv, ControlOK
<1>3. UNCHANGED <<ready, file, pending, objects, faults>>
  BY DEF Start, fileVars
<1>4. Left(r)' = Len(Program[req'[r].op]) /\ req'[r].op \in DOMAIN Program
  BY <1>2 DEF Left, GoodInput
<1>5. req'[r].op \in FileOps => req'[r].file \in Reqs /\ file[req'[r].file] # "none"
  BY <1>2
<1>6. FileInv'
  BY <1>2, <1>3, <1>4, <1>5, FreshKeepsFiles DEF Inv
<1> QED
  BY <1>1, <1>6

LEMMA InstantStep ==
    ASSUME Inv, NEW r \in Reqs,
           UploadOnly(r) \/ SaveMapping(r) \/ ExportMapped(r) \/ DeleteSession(r)
    PROVE  ControlOK' /\ FileInv'
<1>1. /\ outcome[r] = "idle"
      /\ \E in: /\ "op" \in DOMAIN in /\ in.op \in {"session", "mapping", "export", "drop"}
                /\ req' = [req EXCEPT ![r] = in]
      /\ outcome' = [outcome EXCEPT ![r] = "ok"]
      /\ UNCHANGED <<todo, ready, file, pending, objects, faults>>
  <2>1. CASE UploadOnly(r)
    BY <2>1 DEF UploadOnly
  <2>2. ASSUME NEW op \in {"mapping", "export", "drop"}, NEW status, OnSession(r, op, status)
        PROVE  <1>1!:
    <3>1. PICK t \in Reqs: req' = [req EXCEPT ![r] = [op |-> op, session |-> t]]
      BY <2>2 DEF OnSession
    <3> QED
      BY <2>2, <3>1 DEF OnSession
  <2> QED
    BY <2>1, <2>2 DEF SaveMapping, ExportMapped, DeleteSession
<1>2. Instant(r)
  BY <1>1 DEF Instant
<1>3. ControlOK'
  BY <1>2, InstantKeepsControl DEF Inv
<1>4. PICK in: /\ "op" \in DOMAIN in /\ in.op \in {"session", "mapping", "export", "drop"}
               /\ req' = [req EXCEPT ![r] = in]
  BY <1>1
<1>5. /\ outcome'[r] = "ok" /\ req'[r] = in
      /\ \A q \in Reqs \ {r}: /\ req'[q] = req[q] /\ todo'[q] = todo[q]
                              /\ outcome'[q] = outcome[q]
  BY <1>1, <1>4 DEF Inv, ControlOK
<1>6. ~Running(r)' /\ req'[r].op \notin FileOps
  BY <1>4, <1>5 DEF Running, FileOps
<1>7. FileInv'
  BY <1>1, <1>5, <1>6, FreshKeepsFiles DEF Inv
<1> QED
  BY <1>3, <1>7

LEMMA CrashStep ==
    ASSUME Inv, CrashAll
    PROVE  Inv'
<1>1. /\ req' = req /\ faults' > 0 /\ faults' \in Nat
      /\ UNCHANGED <<dbVars, file, pending, objects>>
      /\ ready' = FALSE /\ session' = [t \in Reqs |-> "none"]
  BY DEF CrashAll, Crash, Inv, FileTypeOK
<1>2. \A q \in Reqs: outcome'[q] # "running"
  BY DEF CrashAll, Crash, Inv, ControlOK
<1>3. ControlOK'
  BY CrashKeepsControl DEF CrashAll, Inv
<1>4. DbOK' /\ FileTypeOK'
  BY <1>1 DEF Inv, DbOK, FileTypeOK, dbVars
<1>5. FileInv'
  <2>1. ASSUME NEW r \in Reqs PROVE SoFar(r)'
    BY <1>1, <1>2 DEF Inv, FileInv, SoFar, Running, Uploads
  <2> QED
    BY <1>1, <2>1 DEF Inv, FileInv, ListedHaveObjects, Explained
<1> QED
  BY <1>3, <1>4, <1>5 DEF Inv

LEMMA InvStep == Inv /\ [Next]_vars => Inv'
<1> SUFFICES ASSUME Inv, [Next]_vars PROVE Inv'
  OBVIOUS
<1>1. CASE StartUp /\ UNCHANGED fileVars
  BY <1>1, StartUpStep
<1>2. ASSUME NEW r \in Reqs, ProjectStep(r), UNCHANGED fileVars PROVE Inv'
  <2>1. DbOK'
    BY <1>2, ProjectStepDb
  <2>2. CASE Begin(r)
    <3>1. PICK i \in Inputs: i.op \notin FileOps /\ Start(r, i)
      BY <2>2 DEF Begin
    <3>2. GoodInput(i)
      BY InputsAssumption DEF GoodInput
    <3>3. ControlOK' /\ FileInv'
      BY <1>2, <3>1, <3>2, StartKeepsInv
    <3>4. FileTypeOK'
      BY <1>2, <3>1 DEF Start, fileVars, Inv, FileTypeOK
    <3> QED
      BY <2>1, <3>3, <3>4 DEF Inv
  <2>3. CASE ~Begin(r)
    <3>1. ControlOK /\ FileTypeOK /\ FileInv
      BY DEF Inv
    <3>2. Moves(r) /\ Aside(r)
      BY <1>2, <2>3, <3>1, ProjectStepMoves, ProjectStepAside
    <3>3. ControlOK' /\ FileInv'
      BY <3>1, <3>2, MovesKeepControl, AsideKeepsFiles
    <3>4. FileTypeOK'
      BY <1>2, <3>1, <3>2 DEF FileTypeOK, fileVars, Aside
    <3> QED
      BY <2>1, <3>3, <3>4 DEF Inv
  <2> QED
    BY <2>2, <2>3
<1>3. ASSUME NEW r \in Reqs, FileStep(r) PROVE Inv'
  <2>1. FileTypeOK' /\ DbOK'
    BY <1>3, FileStepTypes
  <2>2. CASE BeginWithFile(r)
    <3>1. PICK i \in Inputs, f \in Reqs:
            /\ i.op \in FileOps
            /\ file[f] # "none"
            /\ Start(r, [op |-> i.op, user |-> i.user, file |-> f, project |-> home[f]])
      BY <2>2 DEF BeginWithFile
    <3> DEFINE in == [op |-> i.op, user |-> i.user, file |-> f, project |-> home[f]]
    <3>2. i.op \in DOMAIN Program
      BY InputsAssumption
    <3>3. GoodInput(in)
      BY <3>1, <3>2 DEF GoodInput, FileOps
    <3>4. in.file \in Reqs /\ file[in.file] # "none" /\ Start(r, in)
      BY <3>1
    <3>5. UNCHANGED fileVars
      BY <2>2 DEF BeginWithFile
    <3> HIDE DEF in
    <3>6. ControlOK' /\ FileInv'
      BY <3>3, <3>4, <3>5, StartKeepsInv
    <3> QED
      BY <2>1, <3>6 DEF Inv
  <2>3. CASE FileMove(r)
    <3>1. ControlOK /\ FileTypeOK /\ FileInv
      BY DEF Inv
    <3>2. ControlOK' /\ FileInv'
      BY <2>3, <3>1, FileMoveMoves, MovesKeepControl, FileMoveKeepsFiles
    <3> QED
      BY <2>1, <3>2 DEF Inv
  <2>4. CASE UploadOnly(r) \/ SaveMapping(r) \/ ExportMapped(r) \/ DeleteSession(r)
    BY <2>1, <2>4, InstantStep DEF Inv
  <2> QED
    BY <1>3, <2>2, <2>3, <2>4 DEF FileStep, FileMove
<1>4. CASE CrashAll
  BY <1>4, CrashStep
<1>5. CASE UNCHANGED vars
  <2>1. /\ UNCHANGED <<req, todo, outcome, faults>>
        /\ UNCHANGED <<ready, file, pending, objects, session>>
        /\ UNCHANGED <<users, company, project, access, maps>>
    BY <1>5 DEF vars, projectVars, reqVars, fileVars, dbVars
  <2>2. DbOK' /\ FileTypeOK'
    BY <2>1 DEF Inv, DbOK, FileTypeOK
  <2>3. ControlOK'
    BY <2>1 DEF Inv, ControlOK, Sound, OnCourse, Running, Left
  <2>4. \A r \in Reqs: SoFar(r)'
    BY <2>1, SoFarStays DEF Inv, FileInv
  <2>5. FileInv'
    BY <2>1, <2>4 DEF Inv, FileInv, ListedHaveObjects, Explained, Removed
  <2> QED
    BY <2>2, <2>3, <2>5 DEF Inv
<1> QED
  BY <1>1, <1>2, <1>3, <1>4, <1>5 DEF Next

-----------------------------------------------------------------------------
(* Requests in time, and the projects they are about *)

\* Requests that had ended before another began; a request that runs had not.
TimeOK ==
    /\ before \in [Reqs -> SUBSET Reqs]
    /\ DOMAIN note = Reqs
    /\ torn \subseteq Reqs
    /\ \A r \in Reqs: r \notin before[r]
    /\ \A r \in Reqs: \A q \in before[r]: Ended(q)

\* Who and what a request is about; a creation has a project from its insert on.
Aimed(r) ==
    /\ req[r].op \in DOMAIN Program \ {"login"} => req[r].user \in Users
    /\ req[r].op \in DOMAIN Program \ {"login", "create", "overview", "list"} =>
        req[r].project \in Projects
    /\ req[r].op = "revoke" => req[r].target \in Users
    /\ req[r].op = "save" => req[r].empty \in BOOLEAN
    /\ req[r].op = "create" =>
        /\ "project" \in DOMAIN req[r]
        /\ Running(r) /\ Left(r) > 2 => req[r].project \notin Projects
        /\ (Running(r) /\ Left(r) <= 2) \/ outcome[r] = "ok" => req[r].project \in Projects

Untouched(p) == \A u \in Users: access[p][u] = "none"

SeedRest == <<"companies", "projects", "access", "mappings">>
SeedStages == {<<"down">>, <<>>, SeedPlan, SeedRest, Tail(SeedRest),
               <<"access", "mappings">>, <<"mappings">>}

\* Nothing is served before there are users, and the seed is filled before that.
SeedOK ==
    /\ seed \in SeedStages
    /\ cut \in BOOLEAN
    /\ ~Up => \A r \in Reqs: ~Running(r)
    /\ users = {} \/ seed \notin {<<"down">>, <<>>} => \A r \in Reqs: outcome[r] = "idle"
    /\ seed \notin {<<"down">>, SeedPlan} => users # {}
    /\ seed \in {<<"access", "mappings">>, <<"mappings">>} => Exists(Seeded)
    /\ seed = <<"mappings">> => ~Untouched(Seeded)

ControlInv ==
    /\ TimeOK
    /\ SeedOK
    /\ home \in [Reqs -> Projects]
    /\ \A r \in Reqs: Aimed(r)

-----------------------------------------------------------------------------
(* Access and projects *)

\* The requests that have made p and are not over.
Making(p) == {r \in On(p, {"create"}): outcome[r] # "ok"}
Open(p) == project[p] # "none" /\ Making(p) = {}

\* Past the check of its user's access.
Past(r) ==
    /\ Running(r)
    /\ \/ req[r].op = "grant" /\ Left(r) <= 4
       \/ req[r].op = "delete" /\ Left(r) <= 3

\* A project is closed to all until its creation is over.
OpenInv ==
    /\ \A p \in Projects: ~Untouched(p) => Open(p)
    /\ \A r \in Reqs: Past(r) => Open(req[r].project)
    /\ \A p \in Projects: \A r \in On(p, {"create"}):
        /\ On(p, {"create"}) = {r}
        /\ project[p] # "none"
        /\ outcome[r] # "ok" => Exists(p)
        /\ Running(r) /\ Left(r) = 1 => note[r] = {"none"}

Clash(p, u) == \E d \in On(p, {"delete"}), g \in Of(p, u, {"grant"}): Overlap(d, g)

\* A deletion that has removed all access finds some again only after a grant
\* that overlaps it; a grant that goes on although the project is gone overlaps
\* what deleted it.
StrayInv ==
    /\ StrayAccessHasCause
    /\ \A d \in Reqs: Running(d) /\ req[d].op = "delete" /\ Left(d) = 1 =>
        \A u \in Users: access[req[d].project][u] # "none" =>
            \E g \in Of(req[d].project, u, {"grant"}): Overlap(d, g)
    /\ \A g \in Reqs: Running(g) /\ req[g].op = "grant" /\ Left(g) <= 5
                        /\ ~Exists(req[g].project) =>
        \E d \in On(req[g].project, {"delete"}): Overlap(d, g)

\* What has taken access away, or may have before it stopped.
Stopped(r) == outcome[r] \in {"failed", "lost"}
TookBack(r) ==
    \/ outcome[r] = "ok" \/ Stopped(r)
    \/ Running(r) /\ req[r].op = "delete" /\ Left(r) = 1

ReachInv ==
    \A p \in Projects: Exists(p) /\ Untouched(p) =>
        \/ \E r \in On(p, {"create"}): Halfway(r)
        \/ \E r \in On(p, {"delete"}): Stopped(r) \/ (Running(r) /\ TookBack(r))
        \/ \E r \in On(p, {"revoke"}): TookBack(r)
        \/ p = Seeded /\ (cut \/ seed \notin {<<>>, <<"down">>})

Givers(r) == {q \in Of(req[r].project, req[r].target, {"create", "grant"}): q \notin before[r]}
Takers(r) ==
    {q \in Of(req[r].project, req[r].target, {"revoke"}) \union On(req[r].project, {"delete"}):
        q \notin before[r] /\ TookBack(q)}

GrantInv ==
    \A r \in Reqs: req[r].op \in {"create", "grant"} =>
        LET role == access[req[r].project][req[r].target]
        IN  /\ outcome[r] = "ok" => role \in {req[q].role: q \in Givers(r)} \/ Takers(r) # {}
            /\ Running(r) /\ Left(r) = 1 /\ note[r] # {"none"} /\ role = "none" => Takers(r) # {}

\* Who has been taken off a project is on it again only by a grant.
GaveLater(q, p, u) == \E g \in Of(p, u, {"grant", "create"}): g \notin before[q]
Leavers(p, u) == Of(p, u, {"revoke"}) \union On(p, {"delete"})
Let(r) ==
    \A q \in Leavers(req[r].project, req[r].user): Done(q, r) =>
        GaveLater(q, req[r].project, req[r].user)
Checks(op) == op \in DOMAIN Program /\ "check" \in Range(Program[op])
OutInv ==
    /\ \A p \in Projects, u \in Users: access[p][u] # "none" =>
        \A q \in Leavers(p, u): outcome[q] = "ok" => GaveLater(q, p, u)
    /\ \A r \in Reqs:
        /\ Checks(req[r].op)
        /\ outcome[r] = "ok" \/ (Running(r) /\ \A i \in 1..Left(r): todo[r][i] # "check")
        => Let(r)

-----------------------------------------------------------------------------
(* Mappings and what is read *)

Bys(S) == {m.by: m \in S}
Once(S) == IsFiniteSet(S) /\ \A m, n \in S: m.by = n.by => m = n

Alone(r) == \A q \in On(req[r].project, {"save"}) \ {r}: q \in before[r]

MapsInv ==
    /\ \A p \in Projects: Once(maps[p])
    /\ \A p \in Projects: \A m \in maps[p]: m.by # "seed" =>
        /\ m.by \in On(p, {"save"})
        /\ Running(m.by) => Left(m.by) <= 2
    /\ \A r \in Reqs: req[r].op = "save" /\ Alone(r) =>
        /\ Running(r) /\ Left(r) = 3 => ~req[r].empty /\ maps[req[r].project] = {}
        /\ outcome[r] = "ok" \/ (Running(r) /\ Left(r) <= 2) =>
            Bys(maps[req[r].project]) = IF req[r].empty THEN {} ELSE {r}

Disturbed(r) == \E q \in Reqs: req[q].op \in {"save", "delete"} /\ Overlap(q, r)
Strayed == \E d, g \in Reqs: req[d].op = "delete" /\ req[g].op = "grant" /\ Overlap(d, g)

ReadInv ==
    /\ ReadsAgree
    /\ \A r \in Reqs: Running(r) /\ ~Disturbed(r) /\ ~Strayed =>
        /\ req[r].op = "detail" /\ Left(r) = 1 =>
            Once(note[r]) /\ Bys(note[r]) = Bys(maps[req[r].project])
        /\ (req[r].op = "overview" /\ Left(r) = 1) \/ (req[r].op = "list" /\ Left(r) <= 2) =>
            note[r] \subseteq {p \in Projects: Exists(p)}

-----------------------------------------------------------------------------
(* Where the requests that matter below are *)

LEMMA Turns ==
    ASSUME ControlOK, NEW r \in Reqs, Running(r)
    PROVE  LET op == req[r].op
               s == Head(todo[r])
               n == Left(r)
           IN  /\ op = "save" => n \in 1..5 /\ s = <<"writeStatus", "readStatus",
                        "insertMappings", "deleteMappings", "check">>[n]
               /\ op = "create" => n \in 1..5 /\ s = <<"writeAccess", "findAccess",
                        "insertProject", "createCompany", "findCompany">>[n]
               /\ op = "grant" => n \in 1..6 /\ s = <<"writeAccess", "findAccess",
                        "createUser", "findUser", "check", "findProject">>[n]
               /\ op = "revoke" => n \in 1..3
                        /\ s = <<"revokeAccess", "check", "findProject">>[n]
               /\ op = "delete" => n \in 1..4
                        /\ s = <<"deleteProject", "deleteAccess", "findProject", "check">>[n]
               /\ op = "detail" => n \in 1..4
                        /\ s = <<"countMappings", "findMappings", "check", "findProject">>[n]
               /\ op = "overview" => n \in 1..2 /\ s = <<"findProjects", "findOwn">>[n]
               /\ op = "list" => n \in 1..3
                        /\ s = <<"findProjects", "countProjects", "findOwn">>[n]
<1> DEFINE op == req[r].op
           s == Head(todo[r])
           n == Left(r)
           last == Len(Program[op])
           i == last - n + 1
<1>1. /\ last \in Nat /\ n \in 1..last /\ i \in 1..last /\ n = last - i + 1
      /\ Placed(op, i) /\ s = Program[op][i]
  BY Spot
<1> HIDE DEF op, s, n, last, i
<1>2. ASSUME op = "save"
      PROVE  n \in 1..5 /\ s = <<"writeStatus", "readStatus", "insertMappings",
                                 "deleteMappings", "check">>[n]
  <2>1. last = 5 /\ s = <<"check", "deleteMappings", "insertMappings", "readStatus",
                          "writeStatus">>[i]
    BY <1>1, <1>2 DEF Placed, last
  <2> QED
    BY <1>1, <2>1
<1>3. ASSUME op = "create"
      PROVE  n \in 1..5 /\ s = <<"writeAccess", "findAccess", "insertProject",
                                 "createCompany", "findCompany">>[n]
  <2>1. last = 5 /\ s = <<"findCompany", "createCompany", "insertProject", "findAccess",
                          "writeAccess">>[i]
    BY <1>1, <1>3 DEF Placed, last
  <2> QED
    BY <1>1, <2>1
<1>4. ASSUME op = "grant"
      PROVE  n \in 1..6 /\ s = <<"writeAccess", "findAccess", "createUser", "findUser",
                                 "check", "findProject">>[n]
  <2>1. last = 6 /\ s = <<"findProject", "check", "findUser", "createUser", "findAccess",
                          "writeAccess">>[i]
    BY <1>1, <1>4 DEF Placed, last
  <2> QED
    BY <1>1, <2>1
<1>5. ASSUME op = "revoke"
      PROVE  n \in 1..3 /\ s = <<"revokeAccess", "check", "findProject">>[n]
  <2>1. last = 3 /\ s = <<"findProject", "check", "revokeAccess">>[i]
    BY <1>1, <1>5 DEF Placed, last
  <2> QED
    BY <1>1, <2>1
<1>6. ASSUME op = "delete"
      PROVE  n \in 1..4 /\ s = <<"deleteProject", "deleteAccess", "findProject", "check">>[n]
  <2>1. last = 4 /\ s = <<"check", "findProject", "deleteAccess", "deleteProject">>[i]
    BY <1>1, <1>6 DEF Placed, last
  <2> QED
    BY <1>1, <2>1
<1>7. ASSUME op = "detail"
      PROVE  n \in 1..4 /\ s = <<"countMappings", "findMappings", "check", "findProject">>[n]
  <2>1. last = 4 /\ s = <<"findProject", "check", "findMappings", "countMappings">>[i]
    BY <1>1, <1>7 DEF Placed, last
  <2> QED
    BY <1>1, <2>1
<1>8. ASSUME op = "overview" PROVE n \in 1..2 /\ s = <<"findProjects", "findOwn">>[n]
  <2>1. last = 2 /\ s = <<"findOwn", "findProjects">>[i]
    BY <1>1, <1>8 DEF Placed, last
  <2> QED
    BY <1>1, <2>1
<1>9. ASSUME op = "list" PROVE n \in 1..3 /\ s = <<"findProjects", "countProjects", "findOwn">>[n]
  <2>1. last = 3 /\ s = <<"findOwn", "countProjects", "findProjects">>[i]
    BY <1>1, <1>9 DEF Placed, last
  <2> QED
    BY <1>1, <2>1
<1> QED
  BY <1>2, <1>3, <1>4, <1>5, <1>6, <1>7, <1>8, <1>9 DEF op, s, n

\* Whose step a step is.
LEMMA Owner ==
    ASSUME ControlOK, NEW r \in Reqs, Running(r)
    PROVE  LET op == req[r].op
               s == Head(todo[r])
           IN  /\ op \in DOMAIN Program
               /\ s \in {"findCompany", "createCompany", "insertProject"} => op = "create"
               /\ s \in {"findAccess", "writeAccess"} => op \in {"create", "grant"}
               /\ s = "findUser" => op \in {"login", "grant"}
               /\ s \in {"deleteMappings", "insertMappings"} => op = "save"
               /\ s = "revokeAccess" => op = "revoke"
               /\ s \in {"deleteAccess", "deleteProject"} => op = "delete"
               /\ s = "countMappings" => op = "detail"
               /\ s = "findOwn" => op \in {"overview", "list"}
               /\ s = "findProjects" => op \in {"overview", "list"}
               /\ s = "countProjects" => op = "list"
               /\ s = "check" => op \notin {"login", "create", "overview", "list"}
               /\ s \in {"putObject", "insertFile"} => op \in {"upload", "store"}
               /\ s \in {"softDelete", "deleteObject"} => op = "remove"
<1> DEFINE op == req[r].op
           last == Len(Program[op])
           i == last - Left(r) + 1
<1>1. Placed(op, i) /\ Head(todo[r]) = Program[op][i] /\ op \in DOMAIN Program
  BY Spot
<1> HIDE DEF op, last, i
<1> QED
  BY <1>1 DEF Placed, op

-----------------------------------------------------------------------------
(* What a step does to the requests *)

Same(q) ==
    /\ outcome'[q] = outcome[q] /\ todo'[q] = todo[q] /\ req'[q] = req[q]
    /\ note'[q] = note[q] /\ before'[q] = before[q]

\* A step of a running request.
Acts(r) ==
    \/ ProjectStep(r) /\ ~Begin(r) /\ UNCHANGED fileVars
    \/ FileMove(r)

GoodAim(in) ==
    /\ in.op \in DOMAIN Program \ {"login"} => in.user \in Users
    /\ in.op \in DOMAIN Program \ {"login", "create", "overview", "list"} =>
        in.project \in Projects
    /\ in.op = "revoke" => in.target \in Users
    /\ in.op = "save" => in.empty \in BOOLEAN
    /\ in.op = "create" => "project" \in DOMAIN in /\ in.project \notin Projects

Opens(r) ==
    /\ \E in: GoodInput(in) /\ GoodAim(in) /\ Start(r, in)
    /\ UNCHANGED fileVars

\* A request answered without an await.
Answers(r) ==
    /\ Instant(r)
    /\ Up
    /\ before' = [before EXCEPT ![r] = {q \in Reqs: Ended(q)}]
    /\ UNCHANGED <<seed, dbVars, note, torn, cut, faults, home>>

LEMMA Kinds ==
    ASSUME ControlInv, [Next]_vars
    PROVE  \/ StartUp /\ UNCHANGED fileVars
           \/ \E r \in Reqs: Opens(r) \/ Answers(r) \/ Acts(r)
           \/ CrashAll
           \/ UNCHANGED vars
<1>1. ASSUME NEW r \in Reqs, Begin(r), UNCHANGED fileVars PROVE Opens(r)
  <2>1. PICK i \in Inputs: i.op \notin FileOps /\ Start(r, i)
    BY <1>1 DEF Begin
  <2>2. GoodInput(i) /\ GoodAim(i)
    BY <2>1, InputsAssumption DEF GoodInput, GoodAim
  <2> QED
    BY <1>1, <2>1, <2>2 DEF Opens
<1>2. ASSUME NEW r \in Reqs, BeginWithFile(r) PROVE Opens(r)
  <2>1. PICK i \in Inputs, f \in Reqs:
          /\ i.op \in FileOps
          /\ Start(r, [op |-> i.op, user |-> i.user, file |-> f, project |-> home[f]])
    BY <1>2 DEF BeginWithFile
  <2> DEFINE in == [op |-> i.op, user |-> i.user, file |-> f, project |-> home[f]]
  <2>2. i.op \in DOMAIN Program /\ i.user \in Users
    BY <2>1, InputsAssumption DEF FileOps
  <2>3. GoodInput(in)
    BY <2>1, <2>2 DEF GoodInput, FileOps
  <2>4. home[f] \in Projects
    BY DEF ControlInv
  <2>5. GoodAim(in)
    BY <2>1, <2>2, <2>4 DEF GoodAim, FileOps
  <2>6. Start(r, in) /\ UNCHANGED fileVars
    BY <1>2, <2>1 DEF BeginWithFile
  <2> HIDE DEF in
  <2> QED
    BY <2>3, <2>5, <2>6 DEF Opens
<1>3. ASSUME NEW r \in Reqs,
             UploadOnly(r) \/ SaveMapping(r) \/ ExportMapped(r) \/ DeleteSession(r)
      PROVE  Answers(r)
  <2>1. CASE UploadOnly(r)
    BY <2>1 DEF UploadOnly, Answers, Instant
  <2>2. ASSUME NEW op \in {"mapping", "export", "drop"}, NEW status, OnSession(r, op, status)
        PROVE  Answers(r)
    <3>1. PICK t \in Reqs: req' = [req EXCEPT ![r] = [op |-> op, session |-> t]]
      BY <2>2 DEF OnSession
    <3> DEFINE in == [op |-> op, session |-> t]
    <3>2. "op" \in DOMAIN in /\ in.op \in {"session", "mapping", "export", "drop"}
      OBVIOUS
    <3>3. req' = [req EXCEPT ![r] = in]
      BY <3>1
    <3> HIDE DEF in
    <3>4. Instant(r)
      BY <2>2, <3>2, <3>3 DEF OnSession, Instant
    <3> QED
      BY <2>2, <3>4 DEF OnSession, Answers
  <2> QED
    BY <1>3, <2>1, <2>2 DEF SaveMapping, ExportMapped, DeleteSession
<1> QED
  BY <1>1, <1>2, <1>3 DEF Next, FileStep, FileMove, Acts

\* Of the steps of a running request.
LEMMA ActShape ==
    ASSUME ControlOK, TimeOK, NEW r \in Reqs, Acts(r)
    PROVE  /\ Moves(r) /\ Up
           /\ \A q \in Reqs \ {r}: Same(q)
           /\ before' = before /\ seed' = seed /\ cut' = cut
           /\ DOMAIN note' = Reqs
<1>1. Moves(r)
  BY ProjectStepMoves, FileMoveMoves DEF Acts
<1>2. Up /\ before' = before /\ seed' = seed /\ cut' = cut
  <2>1. CASE ProjectStep(r) /\ ~Begin(r)
    BY <2>1 DEF ProjectStep, FindUser, CreateUser, FindCompany, CreateCompany,
         InsertProject, CheckAccess, FindProject, UpdateProject, FindAccess,
         WriteAccess, DeleteMappings, InsertMappingsOf, ReadStatus, WriteStatus,
         MarkMappings, RevokeAccess, DeleteAccess, DeleteProject, FindMappings,
         CountMappings, FindOwn, CountProjects, FindProjects, Answer, Quiet, At, Fail
  <2>2. CASE FileMove(r)
    BY <2>2 DEF FileMove, PutObject, PutFails, InsertFile, FindFile, GetObject,
         SoftDelete, Recheck, SignUrl, DeleteObject, DeleteFails, Quiet, At
  <2> QED
    BY <2>1, <2>2 DEF Acts
<1>3. DOMAIN note' = Reqs /\ \A q \in Reqs \ {r}: note'[q] = note[q]
  <2>0. DOMAIN note = Reqs
    BY DEF TimeOK
  <2>1. CASE ProjectStep(r) /\ ~Begin(r)
    BY <2>0, <2>1 DEF ProjectStep, FindUser, CreateUser, FindCompany, CreateCompany,
         InsertProject, CheckAccess, FindProject, UpdateProject, FindAccess,
         WriteAccess, DeleteMappings, InsertMappingsOf, ReadStatus, WriteStatus,
         MarkMappings, RevokeAccess, DeleteAccess, DeleteProject, FindMappings,
         CountMappings, FindOwn, CountProjects, FindProjects, Answer, Keep, Fail
  <2>2. CASE FileMove(r)
    BY <2>0, <2>2 DEF FileMove, PutObject, PutFails, InsertFile, FindFile, GetObject,
         SoftDelete, Recheck, SignUrl, DeleteObject, DeleteFails, Keep
  <2> QED
    BY <2>1, <2>2 DEF Acts
<1>4. \A q \in Reqs \ {r}: todo'[q] = todo[q] /\ outcome'[q] = outcome[q] /\ req'[q] = req[q]
  BY <1>1, MoveShape
<1> QED
  BY <1>1, <1>2, <1>3, <1>4 DEF Same

\* The step that a request's place makes it take, unless it fails.
LEMMA Deeds ==
    ASSUME NEW r \in Reqs, Acts(r), ~Fail(r)
    PROVE  LET s == Head(todo[r])
           IN  /\ s = "insertProject" => InsertProject(r)
               /\ s = "findAccess" => FindAccess(r)
               /\ s = "writeAccess" => WriteAccess(r)
               /\ s = "deleteMappings" => DeleteMappings(r)
               /\ s = "insertMappings" => InsertMappingsOf(r)
               /\ s = "revokeAccess" => RevokeAccess(r)
               /\ s = "deleteAccess" => DeleteAccess(r)
               /\ s = "deleteProject" => DeleteProject(r)
               /\ s = "findMappings" => FindMappings(r)
               /\ s = "countMappings" => CountMappings(r)
               /\ s = "findOwn" => FindOwn(r)
               /\ s = "countProjects" => CountProjects(r)
               /\ s = "findProjects" => FindProjects(r)
               /\ s = "check" => CheckAccess(r)
               /\ s = "findProject" => FindProject(r)
               /\ s = "findUser" => FindUser(r)
               /\ s = "createUser" => CreateUser(r)
               /\ s = "findCompany" => FindCompany(r)
               /\ s = "createCompany" => CreateCompany(r)
               /\ s = "readStatus" => ReadStatus(r)
               /\ s = "writeStatus" => WriteStatus(r)
               /\ s = "softDelete" => SoftDelete(r)
<1>1. CASE ProjectStep(r) /\ ~Begin(r)
  BY <1>1 DEF ProjectStep, FindUser, CreateUser, FindCompany, CreateCompany,
       InsertProject, CheckAccess, FindProject, UpdateProject, FindAccess,
       WriteAccess, DeleteMappings, InsertMappingsOf, ReadStatus, WriteStatus,
       MarkMappings, RevokeAccess, DeleteAccess, DeleteProject, FindMappings,
       CountMappings, FindOwn, CountProjects, FindProjects, At
<1>2. CASE FileMove(r)
  BY <1>2 DEF FileMove, PutObject, PutFails, InsertFile, FindFile, GetObject,
       SoftDelete, Recheck, SignUrl, DeleteObject, DeleteFails, At
<1> QED
  BY <1>1, <1>2 DEF Acts

\* What becomes of the request's place: one or two awaits further, or ended.
Further(r) ==
    \/ /\ Left(r)' = Left(r) - 1 /\ outcome'[r] = IF Left(r) = 1 THEN "ok" ELSE "running"
       /\ Skip(r, 1)
    \/ /\ Left(r)' = Left(r) - 2 /\ outcome'[r] = IF Left(r) = 2 THEN "ok" ELSE "running"
       /\ Skip(r, 2)
       /\ Left(r) > 1 /\ Head(todo[r]) \in {"findUser", "findCompany", "deleteMappings"}
    \/ /\ outcome'[r] \in {"refused", "failed"}
    \/ /\ outcome'[r] = "ok" /\ Head(todo[r]) \in {"findOwn", "softDelete"}

LEMMA EndsOk ==
    ASSUME NEW r \in Reqs, ControlOK, Acts(r), End(r, "ok")
    PROVE  \/ Head(todo[r]) \in {"findOwn", "softDelete"} \/ Skip(r, 1)
           \/ Skip(r, 2) /\ Head(todo[r]) \in {"findUser", "findCompany", "deleteMappings"}
<1>1. outcome'[r] = "ok"
  BY DEF End, ControlOK
<1>2. ~End(r, "failed") /\ ~End(r, "refused")
  BY <1>1 DEF End, ControlOK
<1>3. CASE ProjectStep(r) /\ ~Begin(r)
  BY <1>2, <1>3 DEF ProjectStep, FindUser, CreateUser, FindCompany, CreateCompany,
       InsertProject, CheckAccess, FindProject, UpdateProject, FindAccess,
       WriteAccess, DeleteMappings, InsertMappingsOf, ReadStatus, WriteStatus,
       MarkMappings, RevokeAccess, DeleteAccess, DeleteProject, FindMappings,
       CountMappings, FindOwn, CountProjects, FindProjects, At, Answer, Fail
<1>4. CASE FileMove(r)
  BY <1>2, <1>4 DEF FileMove, PutObject, PutFails, InsertFile, FindFile, GetObject,
       SoftDelete, Recheck, SignUrl, DeleteObject, DeleteFails, At
<1> QED
  BY <1>3, <1>4 DEF Acts

LEMMA Gait ==
    ASSUME ControlOK, TimeOK, NEW r \in Reqs, Acts(r)
    PROVE  /\ Further(r)
           /\ Running(r) /\ Left(r) \in Nat /\ Left(r) > 0
           /\ Fail(r) => outcome'[r] = "failed"
<1>1. Moves(r) /\ Running(r)
  BY ActShape DEF Moves
<1>2. Left(r) \in Nat /\ Left(r) > 0
  BY <1>1, Here
<1>3. ASSUME Skip(r, 1) PROVE Further(r)
  <2>1. /\ Left(r)' = Left(r) - 1
        /\ outcome'[r] = IF Left(r) = 1 THEN "ok" ELSE "running"
    <3>1. 1 <= Left(r)
      BY <1>2
    <3> QED
      BY <1>1, <1>3, <3>1, SkipMoves
  <2> QED
    BY <1>3, <2>1 DEF Further
<1>4. ASSUME Skip(r, 2), Left(r) > 1,
             Head(todo[r]) \in {"findUser", "findCompany", "deleteMappings"}
      PROVE  Further(r)
  <2>1. /\ Left(r)' = Left(r) - 2
        /\ outcome'[r] = IF Left(r) = 2 THEN "ok" ELSE "running"
    <3>1. 2 <= Left(r)
      BY <1>2, <1>4
    <3> QED
      BY <1>1, <1>4, <3>1, SkipMoves
  <2> QED
    BY <1>4, <2>1 DEF Further
<1>5. ASSUME NEW how \in {"ok", "refused", "failed"}, End(r, how), ~Skip(r, 1), ~Skip(r, 2)
      PROVE  Further(r)
  <2>1. outcome'[r] = how
    BY <1>5 DEF End, ControlOK
  <2>2. how = "ok" => Head(todo[r]) \in {"findOwn", "softDelete"}
    BY <1>5, EndsOk
  <2> QED
    BY <2>1, <2>2 DEF Further
<1>6. ASSUME Skip(r, 2), ~Skip(r, 1), NEW how \in {"ok", "refused", "failed"}, End(r, how)
      PROVE  Further(r)
  <2>1. outcome'[r] = how /\ todo'[r] = <<>>
    BY <1>6 DEF End, ControlOK
  <2>2. CASE how = "ok"
    <3>1. \/ Head(todo[r]) \in {"findOwn", "softDelete"}
          \/ Head(todo[r]) \in {"findUser", "findCompany", "deleteMappings"}
      BY <1>6, <2>2, EndsOk
    <3>2. Head(todo[r]) \in {"findUser", "findCompany", "deleteMappings"} => Left(r) > 1
      BY <1>1, Here
    <3> QED
      BY <1>4, <1>6, <2>1, <2>2, <3>1, <3>2 DEF Further
  <2> QED
    BY <2>1, <2>2 DEF Further
<1>7. Fail(r) => outcome'[r] = "failed"
  BY DEF Fail, End, ControlOK
<1> QED
  BY <1>1, <1>2, <1>3, <1>4, <1>5, <1>6, <1>7 DEF Moves

\* What a step leaves of the requests that have begun.
Grows ==
    \A q \in Reqs: Began(q) =>
        /\ Began(q)' /\ before'[q] = before[q]
        /\ req'[q] = req[q] \/ (req[q].op = "create" /\ InsertProject(q))
        /\ Ended(q) => outcome'[q] = outcome[q] /\ req'[q] = req[q]

LEMMA OpensShape ==
    ASSUME ControlOK, TimeOK, NEW r \in Reqs, Opens(r)
    PROVE  /\ outcome[r] = "idle" /\ outcome'[r] = "running" /\ Up
           /\ \A q \in Reqs \ {r}: Same(q)
           /\ GoodAim(req'[r]) /\ req'[r].op \in DOMAIN Program
           /\ Left(r)' = Len(Program[req'[r].op]) /\ todo'[r] = Program[req'[r].op]
           /\ before' = [before EXCEPT ![r] = {q \in Reqs: Ended(q)}]
           /\ note' = note
           /\ UNCHANGED <<seed, dbVars, torn, cut, home>>
BY DEF Opens, Start, GoodInput, ControlOK, TimeOK, Same, fileVars, Left

LEMMA AnswersShape ==
    ASSUME ControlOK, TimeOK, NEW r \in Reqs, Answers(r)
    PROVE  /\ outcome[r] = "idle" /\ outcome'[r] = "ok" /\ Up
           /\ \A q \in Reqs \ {r}: Same(q)
           /\ req'[r].op \in {"session", "mapping", "export", "drop"}
           /\ before' = [before EXCEPT ![r] = {q \in Reqs: Ended(q)}]
           /\ note' = note
           /\ UNCHANGED <<seed, dbVars, torn, cut, home>>
<1>1. PICK in: /\ "op" \in DOMAIN in /\ in.op \in {"session", "mapping", "export", "drop"}
               /\ req' = [req EXCEPT ![r] = in]
  BY DEF Answers, Instant
<1> QED
  BY <1>1 DEF Answers, Instant, ControlOK, TimeOK, Same

LEMMA CrashShape ==
    ASSUME ControlOK, TimeOK, CrashAll
    PROVE  /\ req' = req /\ before' = before /\ seed' = <<"down">> /\ torn' = torn
           /\ \A q \in Reqs: outcome'[q] = IF Running(q) THEN "lost" ELSE outcome[q]
           /\ \A q \in Reqs: ~Running(q) => todo'[q] = todo[q]
           /\ cut' = (cut \/ seed # <<>>) /\ ~Down
           /\ UNCHANGED <<dbVars, home>>
           /\ DOMAIN note' = Reqs
<1>1. CrashAll /\ Crash
  BY DEF CrashAll
<1>2. \A q \in Reqs: ~Running(q) => todo[q] = <<>>
  BY DEF ControlOK, Running
<1> QED
  BY <1>1, <1>2 DEF CrashAll, Crash, ControlOK, Running

LEMMA StartUpShape ==
    ASSUME StartUp, UNCHANGED fileVars
    PROVE  UNCHANGED <<reqVars, home, cut, faults>> /\ \A q \in Reqs: Same(q)
<1>1. UNCHANGED <<req, todo, note, torn, outcome, before, cut, faults>>
  BY DEF StartUp, CountUsers, InsertUsers, InsertCompanies, InsertProjects,
       InsertAccess, InsertMappings, Seeding, reqVars
<1> QED
  BY <1>1 DEF reqVars, fileVars, Same

LEMMA StillShape ==
    ASSUME UNCHANGED vars
    PROVE  UNCHANGED <<seed, dbVars, reqVars, home, cut>> /\ \A q \in Reqs: Same(q)
BY DEF vars, projectVars, reqVars, fileVars, Same

LEMMA NextGrows ==
    ASSUME ControlOK, ControlInv, [Next]_vars
    PROVE  Grows
<1> USE DEF Grows, Began, Ended
<1>0. TimeOK /\ outcome \in [Reqs -> Outcomes]
  BY DEF ControlInv, ControlOK
<1>1. CASE (StartUp /\ UNCHANGED fileVars) \/ UNCHANGED vars
  BY <1>1, StartUpShape, StillShape DEF Same
<1>2. ASSUME NEW r \in Reqs, Opens(r) \/ Answers(r) PROVE Grows
  BY <1>0, <1>2, OpensShape, AnswersShape DEF Same
<1>3. ASSUME NEW r \in Reqs, Acts(r) PROVE Grows
  <2>1. Moves(r) /\ before' = before /\ \A q \in Reqs \ {r}: Same(q)
    BY <1>0, <1>3, ActShape
  <2>2. Running(r) /\ outcome'[r] \in {"running", "ok", "refused", "failed"}
    BY <2>1, MoveShape DEF Moves
  <2>3. req'[r] = req[r] \/ (req[r].op = "create" /\ InsertProject(r))
    <3>1. ASSUME ~InsertProject(r) PROVE req' = req
      <4>1. CASE ProjectStep(r) /\ ~Begin(r)
        BY <3>1, <4>1 DEF ProjectStep, FindUser, CreateUser, FindCompany, CreateCompany,
             CheckAccess, FindProject, UpdateProject, FindAccess,
             WriteAccess, DeleteMappings, InsertMappingsOf, ReadStatus, WriteStatus,
             MarkMappings, RevokeAccess, DeleteAccess, DeleteProject, FindMappings,
             CountMappings, FindOwn, CountProjects, FindProjects, Answer, Quiet, Fail
      <4>2. CASE FileMove(r)
        BY <4>2 DEF FileMove, PutObject, PutFails, InsertFile, FindFile, GetObject,
             SoftDelete, Recheck, SignUrl, DeleteObject, DeleteFails, Quiet
      <4> QED
        BY <1>3, <4>1, <4>2 DEF Acts
    <3>2. InsertProject(r) => req[r].op = "create"
      BY <2>2, Owner DEF InsertProject, At
    <3> QED
      BY <3>1, <3>2
  <2> QED
    BY <2>1, <2>2, <2>3 DEF Same, Running
<1>4. CASE CrashAll
  BY <1>0, <1>4, CrashShape DEF Same, Running, Crash, CrashAll
<1> QED
  BY <1>1, <1>2, <1>3, <1>4, Kinds

\* A step by one request leaves the others running or not as they were.
LEMMA Begun ==
    ASSUME ControlOK, ControlInv, NEW q \in Reqs, ~Began(q)
    PROVE  req[q].op \notin DOMAIN Program /\ req[q].op = "none"
BY DEF ControlOK, Sound, Began, NoInput, Program

LEMMA TimeStep ==
    ASSUME ControlOK, ControlInv, [Next]_vars
    PROVE  TimeOK'
<1>0. TimeOK /\ outcome \in [Reqs -> Outcomes] /\ Grows
  BY NextGrows DEF ControlInv, ControlOK
<1>1. ASSUME before' \in [Reqs -> SUBSET Reqs], DOMAIN note' = Reqs, torn' \subseteq Reqs,
             \A r \in Reqs: before'[r] = before[r] \/ (~Began(r) /\ before'[r] = {q \in Reqs: Ended(q)})
      PROVE  TimeOK'
  BY <1>0, <1>1 DEF TimeOK, Grows, Began, Ended
<1>2. CASE (StartUp /\ UNCHANGED fileVars) \/ UNCHANGED vars
  BY <1>0, <1>1, <1>2, StartUpShape, StillShape DEF reqVars, TimeOK
<1>3. ASSUME NEW r \in Reqs, Opens(r) \/ Answers(r) PROVE TimeOK'
  <2>1. /\ outcome[r] = "idle" /\ note' = note /\ torn' = torn
        /\ before' = [before EXCEPT ![r] = {q \in Reqs: Ended(q)}]
    BY <1>0, <1>3, OpensShape, AnswersShape DEF ControlOK
  <2> QED
    BY <1>0, <1>1, <2>1 DEF TimeOK, Began
<1>4. ASSUME NEW r \in Reqs, Acts(r) PROVE TimeOK'
  <2>1. before' = before /\ DOMAIN note' = Reqs
    BY <1>0, <1>4, ActShape
  <2>2. torn' = torn \/ torn' = torn \union {r}
    <3>1. CASE ProjectStep(r) /\ ~Begin(r)
      BY <3>1 DEF ProjectStep, FindUser, CreateUser, FindCompany, CreateCompany,
           InsertProject, CheckAccess, FindProject, UpdateProject, FindAccess,
           WriteAccess, DeleteMappings, InsertMappingsOf, ReadStatus, WriteStatus,
           MarkMappings, RevokeAccess, DeleteAccess, DeleteProject, FindMappings,
           CountMappings, FindOwn, CountProjects, FindProjects, Answer, Quiet, Fail
    <3>2. CASE FileMove(r)
      BY <3>2 DEF FileMove, PutObject, PutFails, InsertFile, FindFile, GetObject,
           SoftDelete, Recheck, SignUrl, DeleteObject, DeleteFails, Quiet
    <3> QED
      BY <1>4, <3>1, <3>2 DEF Acts
  <2> QED
    BY <1>0, <1>1, <2>1, <2>2 DEF TimeOK
<1>5. CASE CrashAll
  BY <1>0, <1>1, <1>5, CrashShape DEF TimeOK
<1> QED
  BY <1>2, <1>3, <1>4, <1>5, Kinds

\* What the requests have left when a creation has gone on.
LEMMA AimedStep ==
    ASSUME ControlOK, ControlInv, [Next]_vars, NEW q \in Reqs
    PROVE  Aimed(q)'
<1>0. TimeOK /\ Aimed(q) /\ outcome \in [Reqs -> Outcomes]
  BY DEF ControlInv, ControlOK
<1>1. ASSUME req'[q] = req[q], outcome'[q] = outcome[q], todo'[q] = todo[q] PROVE Aimed(q)'
  BY <1>0, <1>1 DEF Aimed, Running, Left
<1>2. CASE (StartUp /\ UNCHANGED fileVars) \/ UNCHANGED vars
  BY <1>1, <1>2, StartUpShape, StillShape DEF Same
<1>3. ASSUME NEW r \in Reqs, Opens(r) PROVE Aimed(q)'
  <2>1. CASE q # r
    BY <1>0, <1>1, <1>3, <2>1, OpensShape DEF Same
  <2>2. CASE q = r
    <3>1. GoodAim(req'[q]) /\ outcome'[q] = "running" /\ Left(q)' = Len(Program[req'[q].op])
      BY <1>0, <1>3, <2>2, OpensShape
    <3>2. Len(Program["create"]) = 5
      BY DEF Program, CreateSteps
    <3>3. CASE req'[q].op = "create"
      <4>1. Left(q)' = 5 /\ outcome'[q] # "ok" /\ req'[q].project \notin Projects
            /\ "project" \in DOMAIN req'[q] /\ req'[q].user \in Users
        BY <3>1, <3>2, <3>3 DEF GoodAim, Program
      <4> QED
        BY <3>3, <4>1 DEF Aimed
    <3>4. CASE req'[q].op # "create"
      BY <3>1, <3>4 DEF Aimed, GoodAim
    <3> QED
      BY <3>3, <3>4
  <2> QED
    BY <2>1, <2>2
<1>4. ASSUME NEW r \in Reqs, Answers(r) PROVE Aimed(q)'
  <2>1. CASE q # r
    BY <1>0, <1>1, <1>4, <2>1, AnswersShape DEF Same
  <2>2. CASE q = r
    BY <1>0, <1>4, <2>2, AnswersShape DEF Aimed, Program
  <2> QED
    BY <2>1, <2>2
<1>5. ASSUME NEW r \in Reqs, Acts(r) PROVE Aimed(q)'
  <2>1. CASE q # r
    BY <1>0, <1>1, <1>5, <2>1, ActShape DEF Same
  <2>2. CASE q = r /\ req[q].op # "create"
    <3>1. req'[q] = req[q]
      BY <1>0, <1>5, <2>2, ActShape, MoveShape
    <3> QED
      BY <1>0, <2>2, <3>1 DEF Aimed
  <2>3. CASE q = r /\ req[q].op = "create"
    <3>1. /\ Running(q) /\ Further(q)
          /\ Left(q) \in 1..5 /\ Head(todo[q]) = <<"writeAccess", "findAccess",
                        "insertProject", "createCompany", "findCompany">>[Left(q)]
      BY <1>0, <1>5, <2>3, Gait, Turns
    <3>2. /\ DOMAIN req' = Reqs /\ req'[q].op = "create"
          /\ req'[q] = req[q] \/ InsertProject(q)
      <4>1. Moves(q)
        BY <1>0, <1>5, <2>3, ActShape
      <4>2. DOMAIN req' = Reqs /\ req'[q].op = "create"
        BY <2>3, <4>1, Fields
      <4>3. Grows /\ Began(q)
        BY <3>1, NextGrows DEF Began, Running
      <4> QED
        BY <4>2, <4>3 DEF Grows
    <3>3. CASE ~InsertProject(q)
      <4>1. Left(q) # 3 \/ outcome'[q] = "failed"
        BY <1>5, <2>3, <3>1, <3>3, Deeds, Gait, <1>0
      <4>2. Head(todo[q]) \notin {"findUser", "deleteMappings", "findOwn", "softDelete"}
            /\ (Head(todo[q]) = "findCompany" => Left(q) = 5)
        BY <3>1
      <4>3. (Running(q) /\ Left(q) <= 2) \/ (Left(q) > 2 /\ outcome'[q] # "ok" /\ (Running(q)' => Left(q)' > 2))
        BY <3>1, <4>1, <4>2 DEF Further, Running
      <4>4. Left(q) <= 2 /\ Running(q)' => Left(q)' <= 2
        BY <3>1 DEF Further, Running
      <4>5. Running(q)' => Left(q)' \in Int
        BY <3>1 DEF Further, Running
      <4>6. req'[q] = req[q] /\ Left(q) \in Int
        BY <3>1, <3>2, <3>3
      <4> HIDE DEF Further
      <4>7. CASE Left(q) <= 2
        <5>1. req[q].project \in Projects /\ ~(Running(q)' /\ Left(q)' > 2)
          BY <1>0, <2>3, <3>1, <4>4, <4>5, <4>7 DEF Aimed
        <5> QED
          BY <1>0, <2>3, <4>6, <5>1 DEF Aimed
      <4>8. CASE Left(q) > 2
        <5>1. /\ req[q].project \notin Projects /\ outcome'[q] # "ok"
              /\ ~(Running(q)' /\ Left(q)' <= 2)
          BY <1>0, <2>3, <3>1, <4>3, <4>5, <4>6, <4>8 DEF Aimed
        <5> QED
          BY <1>0, <2>3, <4>6, <5>1 DEF Aimed
      <4> QED
        BY <4>6, <4>7, <4>8
    <3>4. CASE InsertProject(q)
      <4>1. PICK p \in Projects \ {Seeded}: req' = [req EXCEPT ![q].project = p]
        BY <3>4 DEF InsertProject
      <4>2. req'[q] = [req[q] EXCEPT !.project = p] /\ "project" \in DOMAIN req[q]
            /\ {"op", "target", "role", "user"} \subseteq DOMAIN req[q] \union {"user"}
        BY <1>0, <2>3, <4>1 DEF ControlOK, Aimed, Sound
      <4>3. req'[q].project = p /\ "project" \in DOMAIN req'[q] /\ req'[q].user = req[q].user
        BY <4>2
      <4>4. Left(q) = 3 /\ Left(q)' = 2
        <5>1. Skip(q, 1) /\ Head(todo[q]) = "insertProject"
          BY <3>4 DEF InsertProject, At
        <5>2. Left(q) = 3
          BY <3>1, <5>1
        <5> QED
          BY <3>1, <5>1, <5>2, SkipMoves
      <4> QED
        BY <1>0, <2>3, <3>2, <4>3, <4>4 DEF Aimed
    <3> QED
      BY <3>3, <3>4
  <2> QED
    BY <2>1, <2>2, <2>3
<1>6. CASE CrashAll
  <2>1. req'[q] = req[q] /\ outcome'[q] = (IF Running(q) THEN "lost" ELSE outcome[q])
    BY <1>0, <1>6, CrashShape
  <2> QED
    BY <1>0, <2>1 DEF Aimed, Running
<1> QED
  BY <1>2, <1>3, <1>4, <1>5, <1>6, Kinds

\* Which collections a step of a request can change, and how.
LEMMA UsersGrow ==
    ASSUME NEW r \in Reqs, Acts(r)
    PROVE  users \subseteq users'
<1>1. CASE ProjectStep(r) /\ ~Begin(r)
  BY <1>1 DEF ProjectStep, FindUser, CreateUser, FindCompany, CreateCompany,
       InsertProject, CheckAccess, FindProject, UpdateProject, FindAccess,
       WriteAccess, DeleteMappings, InsertMappingsOf, ReadStatus, WriteStatus,
       MarkMappings, RevokeAccess, DeleteAccess, DeleteProject, FindMappings,
       CountMappings, FindOwn, CountProjects, FindProjects, Answer, Fail, dbVars
<1>2. CASE FileMove(r)
  BY <1>2 DEF FileMove, PutObject, PutFails, InsertFile, FindFile, GetObject,
       SoftDelete, Recheck, SignUrl, DeleteObject, DeleteFails, dbVars
<1> QED
  BY <1>1, <1>2 DEF Acts

LEMMA SeedStep ==
    ASSUME ControlOK, ControlInv, [Next]_vars, DbOK
    PROVE  SeedOK'
<1>0. SeedOK /\ TimeOK /\ outcome \in [Reqs -> Outcomes]
  BY DEF ControlInv, ControlOK
<1>1. CASE StartUp /\ UNCHANGED fileVars
  <2>1. /\ UNCHANGED <<outcome, todo, cut>>
        /\ \A r \in Reqs: outcome'[r] = outcome[r]
    BY <1>1, StartUpShape DEF Same, reqVars
  <2>2. CASE CountUsers
    <3>1. users' = users /\ project' = project /\ access' = access
      BY <2>2 DEF CountUsers, dbVars
    <3>2. seed = <<"down">> /\ seed' = IF users = {} THEN SeedPlan ELSE <<>>
      BY <2>2 DEF CountUsers, Down
    <3>3. seed' \in SeedStages /\ seed' \notin {<<"access", "mappings">>, <<"mappings">>}
      BY <3>2 DEF SeedStages, SeedPlan
    <3> QED
      BY <1>0, <2>1, <3>1, <3>2, <3>3 DEF SeedOK, Up, Running
  <2>3. ASSUME NEW c, Seeding(c), c # "down"
        PROVE  /\ seed \in {SeedPlan, SeedRest, Tail(SeedRest), <<"access", "mappings">>,
                            <<"mappings">>}
               /\ \A r \in Reqs: outcome'[r] = "idle"
               /\ c = "users" => seed = SeedPlan /\ seed' = SeedRest
               /\ c = "companies" => seed = SeedRest /\ seed' = Tail(SeedRest)
               /\ c = "projects" =>
                    seed = Tail(SeedRest) /\ seed' = <<"access", "mappings">>
               /\ c = "access" => seed = <<"access", "mappings">> /\ seed' = <<"mappings">>
               /\ c = "mappings" => seed = <<"mappings">> /\ seed' = <<>>
    <3>1. seed # <<>> /\ Head(seed) = c /\ seed' = Tail(seed)
      BY <2>3 DEF Seeding
    <3>2. seed # <<"down">>
      BY <2>3, <3>1
    <3>3. seed \in {SeedPlan, SeedRest, Tail(SeedRest), <<"access", "mappings">>,
                    <<"mappings">>}
      BY <1>0, <3>1, <3>2 DEF SeedOK, SeedStages
    <3>4. CASE seed = SeedPlan
      <4>1. c = "users" /\ seed' = SeedRest
        BY <3>1, <3>4 DEF SeedPlan, SeedRest
      <4> QED
        BY <1>0, <2>1, <3>2, <3>4, <4>1 DEF SeedOK, SeedPlan
    <3>5. CASE seed = SeedRest
      <4>1. c = "companies" /\ seed' = Tail(SeedRest) /\ seed # <<>>
        BY <3>1, <3>5 DEF SeedRest
      <4> QED
        BY <1>0, <2>1, <3>2, <3>5, <4>1 DEF SeedOK
    <3>6. CASE seed = Tail(SeedRest)
      <4>1. c = "projects" /\ seed' = <<"access", "mappings">> /\ seed # <<>>
        BY <3>1, <3>6 DEF SeedRest
      <4> QED
        BY <1>0, <2>1, <3>2, <3>6, <4>1 DEF SeedOK
    <3>7. CASE seed = <<"access", "mappings">>
      <4>1. c = "access" /\ seed' = <<"mappings">> /\ seed # <<>>
        BY <3>1, <3>7
      <4> QED
        BY <1>0, <2>1, <3>2, <3>7, <4>1 DEF SeedOK
    <3>8. CASE seed = <<"mappings">>
      <4>1. c = "mappings" /\ seed' = <<>> /\ seed # <<>>
        BY <3>1, <3>8
      <4> QED
        BY <1>0, <2>1, <3>2, <3>8, <4>1 DEF SeedOK
    <3> QED
      BY <3>3, <3>4, <3>5, <3>6, <3>7, <3>8
  <2>4. ASSUME InsertUsers \/ InsertCompanies PROVE SeedOK'
    <3>1. CASE InsertUsers
      <4>1. seed' = SeedRest /\ users' = SeedUsers
        BY <2>3, <3>1 DEF InsertUsers
      <4> QED
        BY <1>0, <2>1, <2>3, <3>1, <4>1, LegacyAssumption
        DEF InsertUsers, SeedOK, SeedStages, SeedRest, SeedPlan, Up, Running
    <3>2. CASE InsertCompanies
      <4>1. seed' = Tail(SeedRest) /\ users' = users /\ seed = SeedRest
        BY <2>3, <3>2 DEF InsertCompanies
      <4> QED
        BY <1>0, <2>1, <2>3, <3>2, <4>1
        DEF InsertCompanies, SeedOK, SeedStages, SeedRest, SeedPlan, Up, Running
    <3> QED
      BY <2>4, <3>1, <3>2
  <2>5. CASE InsertProjects
    <3>1. seed' = <<"access", "mappings">> /\ users' = users /\ seed = Tail(SeedRest)
      BY <2>3, <2>5 DEF InsertProjects
    <3>2. Exists(Seeded)'
      BY <2>5, LegacyAssumption DEF InsertProjects, Exists, Statuses, DbOK
    <3> QED
      BY <1>0, <2>1, <2>3, <3>1, <3>2 DEF SeedOK, SeedStages, SeedRest, SeedPlan, Up, Running
  <2>6. CASE InsertAccess
    <3>1. seed' = <<"mappings">> /\ users' = users /\ seed = <<"access", "mappings">>
      BY <2>3, <2>6 DEF InsertAccess
    <3>2. PICK u \in SeedUsers: TRUE
      BY LegacyAssumption
    <3>3. u \in Users /\ access'[Seeded][u] = SeedRole[u] /\ SeedRole[u] \in Roles
      BY <2>6, <3>2, LegacyAssumption DEF InsertAccess, DbOK
    <3>4. ~Untouched(Seeded)'
      BY <3>3 DEF Untouched, Roles
    <3>5. Exists(Seeded)'
      BY <1>0, <2>6, <3>1 DEF InsertAccess, SeedOK, Exists
    <3> QED
      BY <1>0, <2>1, <2>3, <3>1, <3>4, <3>5 DEF SeedOK, SeedStages, SeedPlan, Up, Running
  <2>7. CASE InsertMappings
    <3>1. seed' = <<>> /\ users' = users /\ seed = <<"mappings">>
      BY <2>3, <2>7 DEF InsertMappings
    <3> QED
      BY <1>0, <2>1, <2>3, <3>1 DEF SeedOK, SeedStages, SeedPlan, Up, Running
  <2> QED
    BY <1>1, <2>2, <2>4, <2>5, <2>6, <2>7 DEF StartUp
<1>2. CASE UNCHANGED vars
  BY <1>0, <1>2, StillShape DEF SeedOK, Up, Running, dbVars, reqVars, Exists, Untouched
<1>3. ASSUME NEW r \in Reqs, Opens(r) \/ Answers(r) PROVE SeedOK'
  <2>1. Up /\ UNCHANGED <<seed, dbVars, cut>>
    BY <1>0, <1>3, OpensShape, AnswersShape
  <2>2. seed = <<>> /\ seed' = <<>> /\ users' = users
    BY <2>1 DEF Up, dbVars
  <2> QED
    BY <1>0, <2>1, <2>2 DEF SeedOK, Up, SeedPlan
<1>4. ASSUME NEW r \in Reqs, Acts(r) PROVE SeedOK'
  <2>1. seed = <<>> /\ seed' = <<>> /\ cut' = cut /\ users \subseteq users'
    BY <1>0, <1>4, ActShape, UsersGrow DEF Up
  <2> QED
    BY <1>0, <2>1 DEF SeedOK, Up, SeedPlan
<1>5. CASE CrashAll
  <2>1. /\ seed' = <<"down">> /\ cut' \in BOOLEAN /\ users' = users
        /\ \A r \in Reqs: outcome'[r] = IF Running(r) THEN "lost" ELSE outcome[r]
    BY <1>0, <1>5, CrashShape DEF SeedOK, dbVars
  <2> QED
    BY <1>0, <2>1 DEF SeedOK, SeedStages, Up, SeedPlan, Running
<1> QED
  BY <1>1, <1>2, <1>3, <1>4, <1>5, Kinds

LEMMA ControlInvStep ==
    ASSUME ControlOK, ControlInv, [Next]_vars, DbOK
    PROVE  ControlInv'
<1>1. home' \in [Reqs -> Projects]
  <2>0. home \in [Reqs -> Projects] /\ TimeOK
    BY DEF ControlInv
  <2>1. CASE (StartUp /\ UNCHANGED fileVars) \/ CrashAll \/ UNCHANGED vars
    BY <2>0, <2>1, StartUpShape, CrashShape, StillShape
  <2>2. ASSUME NEW r \in Reqs, Opens(r) \/ Answers(r) PROVE home' = home
    BY <2>0, <2>2, OpensShape, AnswersShape
  <2>3. ASSUME NEW r \in Reqs, Acts(r) PROVE home' \in [Reqs -> Projects]
    <3>1. CASE InsertFile(r)
      <4>1. req[r].op \in {"upload", "store"}
        BY <3>1, Owner DEF InsertFile, At, Running
      <4>2. req[r].project \in Projects
        BY <4>1 DEF ControlInv, Aimed, Program
      <4> QED
        BY <2>0, <3>1, <4>2 DEF InsertFile
    <3>2. CASE ~InsertFile(r)
      BY <2>0, <2>3, <3>2 DEF Acts, fileVars, FileMove, PutObject, PutFails, FindFile,
           GetObject, SoftDelete, Recheck, SignUrl, DeleteObject, DeleteFails
    <3> QED
      BY <3>1, <3>2
  <2> QED
    BY <2>0, <2>1, <2>2, <2>3, Kinds
<1> QED
  BY <1>1, TimeStep, SeedStep, AimedStep DEF ControlInv

LEMMA ControlInvInit == Init => ControlInv
<1> SUFFICES ASSUME Init PROVE ControlInv
  OBVIOUS
<1>1. TimeOK
  BY DEF Init, ProjectsInit, TimeOK, Ended
<1>2. SeedOK
  BY DEF Init, ProjectsInit, SeedOK, SeedStages, SeedPlan, Running
<1>3. \A r \in Reqs: Aimed(r)
  BY DEF Init, ProjectsInit, Aimed, NoInput, Program
<1>4. home \in [Reqs -> Projects]
  BY LegacyAssumption DEF Init
<1> QED
  BY <1>1, <1>2, <1>3, <1>4 DEF ControlInv

-----------------------------------------------------------------------------
(* What changes access, projects and mappings *)

LEMMA ActAccess ==
    ASSUME NEW r \in Reqs, Acts(r), access' # access
    PROVE  WriteAccess(r) \/ RevokeAccess(r) \/ DeleteAccess(r)
<1>1. CASE ProjectStep(r) /\ ~Begin(r)
  BY <1>1 DEF ProjectStep, FindUser, CreateUser, FindCompany, CreateCompany,
       InsertProject, CheckAccess, FindProject, UpdateProject, FindAccess,
       DeleteMappings, InsertMappingsOf, ReadStatus, WriteStatus, MarkMappings,
       DeleteProject, FindMappings, CountMappings, FindOwn, CountProjects,
       FindProjects, Answer, Fail, dbVars
<1>2. CASE FileMove(r)
  BY <1>2 DEF FileMove, PutObject, PutFails, InsertFile, FindFile, GetObject,
       SoftDelete, Recheck, SignUrl, DeleteObject, DeleteFails, dbVars
<1> QED
  BY <1>1, <1>2 DEF Acts

LEMMA ActProject ==
    ASSUME NEW r \in Reqs, Acts(r), project' # project
    PROVE  InsertProject(r) \/ UpdateProject(r) \/ WriteStatus(r) \/ DeleteProject(r)
<1>1. CASE ProjectStep(r) /\ ~Begin(r)
  BY <1>1 DEF ProjectStep, FindUser, CreateUser, FindCompany, CreateCompany,
       CheckAccess, FindProject, FindAccess, WriteAccess, RevokeAccess, DeleteAccess,
       DeleteMappings, InsertMappingsOf, ReadStatus, MarkMappings,
       FindMappings, CountMappings, FindOwn, CountProjects,
       FindProjects, Answer, Fail, dbVars
<1>2. CASE FileMove(r)
  BY <1>2 DEF FileMove, PutObject, PutFails, InsertFile, FindFile, GetObject,
       SoftDelete, Recheck, SignUrl, DeleteObject, DeleteFails, dbVars
<1> QED
  BY <1>1, <1>2 DEF Acts

LEMMA ActMaps ==
    ASSUME NEW r \in Reqs, Acts(r), maps' # maps
    PROVE  DeleteMappings(r) \/ InsertMappingsOf(r) \/ MarkMappings(r)
<1>1. CASE ProjectStep(r) /\ ~Begin(r)
  BY <1>1 DEF ProjectStep, FindUser, CreateUser, FindCompany, CreateCompany,
       InsertProject, UpdateProject, WriteStatus, DeleteProject,
       CheckAccess, FindProject, FindAccess, WriteAccess, RevokeAccess, DeleteAccess,
       ReadStatus, FindMappings, CountMappings, FindOwn, CountProjects,
       FindProjects, Answer, Fail, dbVars
<1>2. CASE FileMove(r)
  BY <1>2 DEF FileMove, PutObject, PutFails, InsertFile, FindFile, GetObject,
       SoftDelete, Recheck, SignUrl, DeleteObject, DeleteFails, dbVars
<1> QED
  BY <1>1, <1>2 DEF Acts

\* A step that is no request's changes collections only while seeding, when
\* no request has begun.
LEMMA SeedChange ==
    ASSUME ControlOK, ControlInv, [Next]_vars, dbVars' # dbVars,
           \A r \in Reqs: ~Acts(r)
    PROVE  /\ InsertUsers \/ InsertCompanies \/ InsertProjects \/ InsertAccess \/ InsertMappings
           /\ seed # <<>> /\ seed # <<"down">>
           /\ \A r \in Reqs: ~Began(r)
<1>0. TimeOK /\ SeedOK
  BY DEF ControlInv
<1>1. StartUp
  BY <1>0, Kinds, OpensShape, AnswersShape, CrashShape, StillShape
<1>2. InsertUsers \/ InsertCompanies \/ InsertProjects \/ InsertAccess \/ InsertMappings
  BY <1>1 DEF StartUp, CountUsers
<1>3. seed # <<>> /\ seed # <<"down">>
  <2>1. \E c \in {"users", "companies", "projects", "access", "mappings"}: Seeding(c)
    BY <1>2 DEF InsertUsers, InsertCompanies, InsertProjects, InsertAccess, InsertMappings
  <2> QED
    BY <2>1 DEF Seeding
<1> QED
  BY <1>0, <1>2, <1>3 DEF SeedOK, Began

\* A seeded project or access is put where the seed says.
LEMMA AccessChange ==
    ASSUME ControlOK, ControlInv, DbOK, [Next]_vars,
           NEW p \in Projects, NEW u \in Users, access'[p][u] # access[p][u]
    PROVE  \/ /\ p = Seeded /\ InsertAccess
              /\ seed = <<"access", "mappings">> /\ \A r \in Reqs: ~Began(r)
           \/ \E r \in Of(p, u, {"create", "grant"}):
                /\ Acts(r) /\ WriteAccess(r) /\ Running(r) /\ Left(r) = 1
                /\ access'[p][u] = req[r].role /\ access'[p][u] # "none"
           \/ \E r \in Of(p, u, {"revoke"}):
                /\ Acts(r) /\ RevokeAccess(r) /\ Running(r) /\ Left(r) = 1
                /\ outcome'[r] = "ok" /\ access'[p][u] = "none"
           \/ \E r \in On(p, {"delete"}):
                /\ Acts(r) /\ DeleteAccess(r) /\ Running(r) /\ Left(r) = 2
                /\ Running(r)' /\ Left(r)' = 1 /\ access'[p][u] = "none"
<1>0. TimeOK /\ access \in [Projects -> [Users -> Roles \union {"none"}]]
      /\ outcome \in [Reqs -> Outcomes]
  BY DEF ControlInv, DbOK, ControlOK
<1>1. CASE \A r \in Reqs: ~Acts(r)
  <2>1. /\ InsertUsers \/ InsertCompanies \/ InsertProjects \/ InsertAccess \/ InsertMappings
        /\ seed # <<>> /\ \A r \in Reqs: ~Began(r)
    BY <1>1, SeedChange DEF dbVars
  <2>2. InsertAccess /\ p = Seeded
    BY <1>0, <2>1 DEF InsertUsers, InsertCompanies, InsertProjects, InsertMappings, InsertAccess
  <2>3. seed = <<"access", "mappings">>
    BY <2>2 DEF ControlInv, SeedOK, SeedStages, SeedPlan, SeedRest, InsertAccess, Seeding
  <2> QED
    BY <2>1, <2>2, <2>3
<1>2. ASSUME NEW r \in Reqs, Acts(r)
      PROVE  \/ /\ r \in Of(p, u, {"create", "grant"})
                /\ WriteAccess(r) /\ Running(r) /\ Left(r) = 1
                /\ access'[p][u] = req[r].role /\ access'[p][u] # "none"
             \/ /\ r \in Of(p, u, {"revoke"})
                /\ RevokeAccess(r) /\ Running(r) /\ Left(r) = 1
                /\ outcome'[r] = "ok" /\ access'[p][u] = "none"
             \/ /\ r \in On(p, {"delete"})
                /\ DeleteAccess(r) /\ Running(r) /\ Left(r) = 2
                /\ Running(r)' /\ Left(r)' = 1 /\ access'[p][u] = "none"
  <2>1. WriteAccess(r) \/ RevokeAccess(r) \/ DeleteAccess(r)
    BY <1>2, ActAccess
  <2>2. Running(r) /\ Further(r) /\ Left(r) \in Nat
    BY <1>0, <1>2, Gait
  <2>3. CASE WriteAccess(r)
    <3>1. Head(todo[r]) = "writeAccess" /\ req[r].op \in {"create", "grant"}
      BY <2>2, <2>3, Owner DEF WriteAccess, At
    <3>2. Left(r) = 1
      BY <2>2, <3>1, Turns
    <3>3. /\ p = req[r].project /\ u = req[r].target
          /\ access'[p][u] = req[r].role
      BY <1>0, <2>3 DEF WriteAccess
    <3>4. req[r].role # "none"
      BY <3>1 DEF ControlOK, Sound, Roles
    <3> QED
      BY <2>2, <2>3, <3>1, <3>2, <3>3, <3>4 DEF Of, On
  <2>4. CASE RevokeAccess(r)
    <3>1. Head(todo[r]) = "revokeAccess" /\ req[r].op = "revoke"
      BY <2>2, <2>4, Owner DEF RevokeAccess, At
    <3>2. Left(r) = 1 /\ Skip(r, 1)
      BY <2>2, <2>4, <3>1, Turns DEF RevokeAccess
    <3>3. outcome'[r] = "ok"
      BY <3>2, <1>0 DEF Skip, Left
    <3>4. p = req[r].project /\ u = req[r].target /\ access'[p][u] = "none"
      BY <1>0, <2>4 DEF RevokeAccess
    <3> QED
      BY <2>2, <2>4, <3>1, <3>2, <3>3, <3>4 DEF Of, On
  <2>5. CASE DeleteAccess(r)
    <3>1. Head(todo[r]) = "deleteAccess" /\ req[r].op = "delete"
      BY <2>2, <2>5, Owner DEF DeleteAccess, At
    <3>2. Left(r) = 2 /\ Skip(r, 1)
      BY <2>2, <2>5, <3>1, Turns DEF DeleteAccess
    <3>3. Running(r)' /\ Left(r)' = 1
      <4>1. 1 <= Left(r)
        BY <3>2
      <4> QED
        BY <2>2, <3>2, <4>1, SkipMoves DEF Running
    <3>4. p = req[r].project /\ access'[p][u] = "none"
      BY <1>0, <2>5 DEF DeleteAccess
    <3> QED
      BY <2>2, <2>5, <3>1, <3>2, <3>3, <3>4 DEF On
  <2> QED
    BY <2>1, <2>3, <2>4, <2>5
<1> QED
  BY <1>1, <1>2 DEF Of, On

LEMMA ProjectChange ==
    ASSUME ControlOK, ControlInv, DbOK, [Next]_vars,
           NEW p \in Projects, project'[p] # project[p]
    PROVE  \/ /\ p = Seeded /\ project'[p] = "draft" /\ seed' = <<"access", "mappings">>
              /\ \A r \in Reqs: ~Began(r)
           \/ \E r \in Reqs:
                /\ Acts(r) /\ InsertProject(r) /\ req[r].op = "create"
                /\ Running(r) /\ Left(r) = 3 /\ Running(r)' /\ Left(r)' = 2
                /\ p # Seeded /\ project[p] = "none" /\ project'[p] = "draft"
                /\ req'[r].project = p
           \/ /\ Exists(p) /\ Exists(p)'
              /\ \E r \in Reqs: Acts(r) /\ (UpdateProject(r) \/ WriteStatus(r))
           \/ \E r \in On(p, {"delete"}):
                /\ Acts(r) /\ DeleteProject(r) /\ Running(r) /\ Left(r) = 1
                /\ outcome'[r] = "ok" /\ project'[p] = "deleted"
<1>0. TimeOK /\ project \in [Projects -> Statuses \union {"none", "deleted"}]
      /\ outcome \in [Reqs -> Outcomes]
  BY DEF ControlInv, DbOK, ControlOK
<1>1. CASE \A r \in Reqs: ~Acts(r)
  <2>1. /\ InsertUsers \/ InsertCompanies \/ InsertProjects \/ InsertAccess \/ InsertMappings
        /\ seed # <<>> /\ \A r \in Reqs: ~Began(r)
    BY <1>1, SeedChange DEF dbVars
  <2>2. InsertProjects /\ p = Seeded
    BY <1>0, <2>1 DEF InsertUsers, InsertCompanies, InsertProjects, InsertMappings, InsertAccess
  <2>3. seed' = <<"access", "mappings">>
    <3>1. seed \in SeedStages /\ Head(seed) = "projects" /\ seed' = Tail(seed)
      BY <2>2 DEF ControlInv, SeedOK, InsertProjects, Seeding
    <3>2. Tail(SeedRest) = <<"projects", "access", "mappings">> /\ SeedRest[1] = "companies"
      BY DEF SeedRest
    <3>3. seed = Tail(SeedRest)
      BY <2>1, <3>1, <3>2 DEF SeedStages, SeedPlan, SeedRest
    <3>4. seed = <<"projects", "access", "mappings">> /\ Tail(seed) = seed'
      BY <3>1, <3>2, <3>3
    <3>5. Tail(<<"projects", "access", "mappings">>) = <<"access", "mappings">>
      OBVIOUS
    <3> QED
      BY <3>4, <3>5
  <2> QED
    BY <1>0, <2>1, <2>2, <2>3 DEF InsertProjects
<1>2. ASSUME NEW r \in Reqs, Acts(r)
      PROVE  \/ /\ InsertProject(r) /\ req[r].op = "create"
                /\ Running(r) /\ Left(r) = 3 /\ Running(r)' /\ Left(r)' = 2
                /\ p # Seeded /\ project[p] = "none" /\ project'[p] = "draft"
                /\ req'[r].project = p
             \/ Exists(p) /\ Exists(p)' /\ (UpdateProject(r) \/ WriteStatus(r))
             \/ /\ r \in On(p, {"delete"})
                /\ DeleteProject(r) /\ Running(r) /\ Left(r) = 1
                /\ outcome'[r] = "ok" /\ project'[p] = "deleted"
  <2>1. InsertProject(r) \/ UpdateProject(r) \/ WriteStatus(r) \/ DeleteProject(r)
    BY <1>2, ActProject
  <2>2. Running(r) /\ Further(r) /\ Left(r) \in Nat
    BY <1>0, <1>2, Gait
  <2>3. CASE InsertProject(r)
    <3>1. Head(todo[r]) = "insertProject" /\ req[r].op = "create" /\ Skip(r, 1)
      BY <2>2, <2>3, Owner DEF InsertProject, At
    <3>2. Left(r) = 3
      BY <2>2, <3>1, Turns
    <3>3. Running(r)' /\ Left(r)' = 2
      <4>1. 1 <= Left(r)
        BY <3>2
      <4> QED
        BY <2>2, <3>1, <3>2, <4>1, SkipMoves DEF Running
    <3>4. PICK x \in Projects \ {Seeded}:
            /\ project[x] = "none" /\ project' = [project EXCEPT ![x] = "draft"]
            /\ req' = [req EXCEPT ![r].project = x]
      BY <2>3 DEF InsertProject
    <3>5. x = p
      BY <1>0, <3>4
    <3>6. req'[r].project = p
      <4>1. req'[r] = [req[r] EXCEPT !.project = x] /\ "project" \in DOMAIN req[r]
        BY <3>1, <3>4 DEF ControlOK, ControlInv, Aimed
      <4> QED
        BY <3>5, <4>1
    <3> QED
      BY <1>0, <2>2, <2>3, <3>1, <3>2, <3>3, <3>4, <3>5, <3>6
  <2>4. CASE UpdateProject(r)
    <3>1. req[r].status \in Statuses
      <4>1. ControlOK /\ Sound(r)
        BY DEF ControlOK
      <4>2. req[r].op = "update"
        BY <2>2, <2>4, Here DEF UpdateProject, At
      <4> QED
        BY <4>1, <4>2 DEF Sound
    <3> QED
      BY <1>0, <2>4, <3>1 DEF UpdateProject, Exists
  <2>5. CASE WriteStatus(r)
    BY <1>0, <2>5 DEF WriteStatus, Exists, Statuses
  <2>6. CASE DeleteProject(r)
    <3>1. Head(todo[r]) = "deleteProject" /\ req[r].op = "delete"
      BY <2>2, <2>6, Owner DEF DeleteProject, At
    <3>2. Left(r) = 1 /\ Skip(r, 1)
      BY <2>2, <2>6, <3>1, Turns DEF DeleteProject
    <3>3. outcome'[r] = "ok"
      BY <3>2, <1>0 DEF Skip, Left
    <3>4. p = req[r].project /\ project'[p] = "deleted"
      BY <1>0, <2>6 DEF DeleteProject
    <3> QED
      BY <2>2, <2>6, <3>1, <3>2, <3>3, <3>4 DEF On
  <2> QED
    BY <2>1, <2>3, <2>4, <2>5, <2>6
<1> QED
  BY <1>1, <1>2 DEF On

-----------------------------------------------------------------------------
(* Requests over a step *)

\* A request opens, is answered at once, acts, is cut off by a crash, or stays.
LEMMA Courses ==
    ASSUME ControlOK, ControlInv, [Next]_vars, NEW q \in Reqs
    PROVE  \/ Opens(q)
           \/ Answers(q)
           \/ Acts(q)
           \/ /\ CrashAll /\ req'[q] = req[q] /\ before'[q] = before[q]
              /\ outcome'[q] = (IF Running(q) THEN "lost" ELSE outcome[q])
           \/ Same(q)
<1>0. TimeOK
  BY DEF ControlInv
<1>1. CASE (StartUp /\ UNCHANGED fileVars) \/ UNCHANGED vars
  BY <1>1, StartUpShape, StillShape
<1>2. ASSUME NEW r \in Reqs, Opens(r) \/ Answers(r) \/ Acts(r), r # q
      PROVE  Same(q)
  BY <1>0, <1>2, OpensShape, AnswersShape, ActShape
<1>3. CASE CrashAll
  BY <1>0, <1>3, CrashShape
<1> QED
  BY <1>1, <1>2, <1>3, Kinds

\* A request keeps its project once it has one.
LEMMA Steady ==
    ASSUME ControlOK, ControlInv, [Next]_vars, NEW q \in Reqs,
           req[q].op \in DOMAIN Program, req[q].project \in Projects
    PROVE  req'[q] = req[q] /\ Began(q) /\ Began(q)' /\ before'[q] = before[q]
<1>1. Began(q) /\ Grows
  BY Begun, NextGrows
<1>2. ASSUME req[q].op = "create", InsertProject(q) PROVE FALSE
  <2>1. Running(q) /\ Head(todo[q]) = "insertProject"
    BY <1>2 DEF InsertProject, At, Running
  <2>2. Left(q) = 3
    BY <1>2, <2>1, Turns
  <2> QED
    BY <1>2, <2>1, <2>2 DEF ControlInv, Aimed
<1> QED
  BY <1>1, <1>2 DEF Grows

\* A project gains a request only as it opens, or as it inserts the project.
LEMMA Joins ==
    ASSUME ControlOK, ControlInv, DbOK, [Next]_vars, NEW p \in Projects, NEW q \in Reqs,
           req'[q].op \in DOMAIN Program, req'[q].project = p
    PROVE  \/ req'[q] = req[q] /\ req[q].project = p
           \/ /\ Opens(q) /\ ~Began(q) /\ req'[q].op # "create"
              /\ Running(q)' /\ Left(q)' = Len(Program[req'[q].op])
           \/ /\ Acts(q) /\ InsertProject(q) /\ req[q].op = "create"
              /\ project[p] = "none" /\ project'[p] = "draft" /\ Running(q)' /\ Left(q)' = 2
<1>0. TimeOK /\ Grows
  BY NextGrows DEF ControlInv
<1>1. CASE Opens(q)
  <2>1. outcome[q] = "idle" /\ GoodAim(req'[q]) /\ outcome'[q] = "running"
        /\ Left(q)' = Len(Program[req'[q].op])
    BY <1>0, <1>1, OpensShape
  <2> QED
    BY <1>1, <2>1 DEF GoodAim, Began, Running
<1>2. CASE Answers(q)
  BY <1>0, <1>2, AnswersShape DEF Program
<1>3. ASSUME Acts(q), req'[q] # req[q] PROVE
             /\ Acts(q) /\ InsertProject(q) /\ req[q].op = "create"
             /\ project[p] = "none" /\ project'[p] = "draft" /\ Running(q)' /\ Left(q)' = 2
  <2>1. Running(q)
    BY <1>0, <1>3, Gait
  <2>2. InsertProject(q) /\ req[q].op = "create"
    BY <1>0, <1>3, <2>1 DEF Grows, Began, Running
  <2>3. PICK x \in Projects \ {Seeded}:
            /\ project[x] = "none" /\ project' = [project EXCEPT ![x] = "draft"]
            /\ req' = [req EXCEPT ![q].project = x]
    BY <2>2 DEF InsertProject
  <2>4. req'[q].project = x
    <3>1. req'[q] = [req[q] EXCEPT !.project = x] /\ "project" \in DOMAIN req[q]
      BY <2>2, <2>3 DEF ControlOK, ControlInv, Aimed
    <3> QED
      BY <3>1
  <2>5. Left(q) = 3 /\ Skip(q, 1)
    BY <2>1, <2>2, Turns DEF InsertProject, At
  <2>6. Running(q)' /\ Left(q)' = 2
    <3>1. 1 <= Left(q)
      BY <2>5
    <3> QED
      BY <2>1, <2>5, <3>1, SkipMoves DEF Running
  <2>7. project[p] = "none" /\ project'[p] = "draft"
    BY <2>3, <2>4 DEF DbOK
  <2> QED
    BY <1>3, <2>2, <2>6, <2>7
<1> QED
  BY <1>1, <1>2, <1>3, Courses DEF Same

\* On(p, ops) and Of(p, u, ops) keep what they have.
LEMMA StillOn ==
    ASSUME ControlOK, ControlInv, [Next]_vars, NEW p \in Projects,
           NEW ops \in SUBSET DOMAIN Program
    PROVE  /\ On(p, ops) \subseteq On(p, ops)'
           /\ \A u: Of(p, u, ops) \subseteq Of(p, u, ops)'
           /\ \A q \in On(p, ops): req'[q] = req[q] /\ before'[q] = before[q] /\ Began(q)
<1>1. \A q \in On(p, ops): /\ q \in Reqs /\ req'[q] = req[q] /\ before'[q] = before[q]
                           /\ Began(q)
  BY Steady DEF On
<1>2. On(p, ops) \subseteq On(p, ops)'
  BY <1>1 DEF On
<1> QED
  BY <1>1, <1>2 DEF Of, On

LEMMA StillOverlap ==
    ASSUME ControlOK, ControlInv, [Next]_vars, NEW q \in Reqs, NEW r \in Reqs, Overlap(q, r)
    PROVE  Overlap(q, r)'
BY NextGrows DEF Grows, Overlap

\* Requests that run overlap, and overlap what ends after they began.
LEMMA RunningOverlap ==
    ASSUME ControlInv, NEW q \in Reqs, NEW r \in Reqs, Running(q), Running(r)
    PROVE  Overlap(q, r)
BY DEF ControlInv, TimeOK, Overlap, Began, Ended, Running

\* How far an act goes that does not end the request, and that it was not a failure.
LEMMA Stride ==
    ASSUME ControlOK, TimeOK, NEW q \in Reqs, Acts(q), outcome'[q] \in {"running", "ok"}
    PROVE  /\ Running(q) /\ ~Fail(q) /\ Left(q) \in Nat /\ Left(q) > 0
           /\ Running(q)' =>
                \/ Left(q)' = Left(q) - 1
                \/ /\ Left(q)' = Left(q) - 2
                   /\ Head(todo[q]) \in {"findUser", "findCompany", "deleteMappings"}
           /\ outcome'[q] = "ok" =>
                \/ Left(q) = 1
                \/ /\ Left(q) = 2
                   /\ Head(todo[q]) \in {"findUser", "findCompany", "deleteMappings"}
                \/ Head(todo[q]) \in {"findOwn", "softDelete"}
BY Gait DEF Further, Running

-----------------------------------------------------------------------------
(* A project is closed until its creation is over *)

LEMMA Admitted ==
    ASSUME DbOK, NEW p \in Projects, NEW u \in Users, access[p][u] \in Roles
    PROVE  ~Untouched(p)
BY DEF Untouched, Roles, DbOK

LEMMA NeedsRoles ==
    ASSUME NEW op
    PROVE  Needs(op) \subseteq Roles
BY DEF Needs, Roles

\* Who passes the check has access to the project.
LEMMA Checked ==
    ASSUME ControlOK, ControlInv, DbOK, NEW r \in Reqs, Acts(r), Head(todo[r]) = "check",
           outcome'[r] \in {"running", "ok"}
    PROVE  /\ req[r].project \in Projects /\ req[r].user \in Users
           /\ access[req[r].project][req[r].user] \in Needs(req[r].op)
           /\ access[req[r].project][req[r].user] # "none"
           /\ access' = access
<1>0. TimeOK
  BY DEF ControlInv
<1>1. Running(r) /\ ~Fail(r)
  BY <1>0, Stride
<1>2. CheckAccess(r)
  BY <1>1, Deeds
<1>3. Role(r) \in Needs(req[r].op)
  <2>1. End(r, "refused") => outcome'[r] = "refused"
    BY DEF End, ControlOK
  <2> QED
    BY <1>2, <2>1 DEF CheckAccess
<1>4. req[r].op \in DOMAIN Program /\ req[r].op \notin {"login", "create", "overview", "list"}
  BY <1>1, Owner
<1>5. req[r].project \in Projects /\ req[r].user \in Users
  BY <1>4 DEF ControlInv, Aimed
<1> QED
  BY <1>2, <1>3, <1>5, NeedsRoles DEF Role, Roles, CheckAccess, dbVars

LEMMA OpenStays ==
    ASSUME ControlOK, ControlInv, DbOK, [Next]_vars, NEW p \in Projects, Open(p)
    PROVE  Open(p)'
<1>1. project'[p] # "none"
  BY ProjectChange DEF Open, Exists, Statuses
<1>2. ASSUME NEW q \in Making(p)' PROVE FALSE
  <2>1. q \in Reqs /\ req'[q].op = "create" /\ req'[q].project = p /\ outcome'[q] # "ok"
    BY <1>2 DEF Making, On
  <2>2. req'[q] = req[q] /\ req[q].project = p
    BY <2>1, Joins DEF Program, Open
  <2>3. outcome[q] = "ok"
    BY <2>1, <2>2 DEF Open, Making, On
  <2>4. outcome'[q] = "ok"
    BY <2>1, <2>2, <2>3, NextGrows DEF Grows, Began, Ended
  <2> QED
    BY <2>1, <2>4
<1> QED
  BY <1>1, <1>2 DEF Open

\* What a creation finds of the project it has made.
MadeOK(p, r) ==
    /\ On(p, {"create"}) = {r}
    /\ project[p] # "none"
    /\ outcome[r] # "ok" => Exists(p)
    /\ Running(r) /\ Left(r) = 1 => note[r] = {"none"}

LEMMA MadeStep ==
    ASSUME ControlOK, ControlInv, DbOK, [Next]_vars, OpenInv, NEW p \in Projects,
           NEW r \in On(p, {"create"})'
    PROVE  MadeOK(p, r)'
<1>0. TimeOK /\ r \in Reqs /\ req'[r].op = "create" /\ req'[r].project = p
  BY DEF ControlInv, On
<1>1. CASE ~(req'[r] = req[r])
  <2>1. /\ Acts(r) /\ InsertProject(r) /\ project[p] = "none" /\ project'[p] = "draft"
        /\ Running(r)' /\ Left(r)' = 2
    BY <1>0, <1>1, Joins DEF Program
  <2>2. \A q \in Reqs \ {r}: req'[q] = req[q]
    BY <1>0, <2>1, ActShape DEF Same
  <2>3. On(p, {"create"}) = {}
    BY <2>1 DEF OpenInv
  <2>4. On(p, {"create"})' = {r}
    BY <1>0, <2>2, <2>3 DEF On
  <2> QED
    BY <2>1, <2>4 DEF MadeOK, Exists, Statuses
<1>2. CASE req'[r] = req[r]
  <2>1. r \in On(p, {"create"}) /\ MadeOK(p, r)
    BY <1>0, <1>2 DEF On, OpenInv, MadeOK
  <2>2. On(p, {"create"})' = {r}
    <3>1. ASSUME NEW q \in On(p, {"create"})' PROVE q = r
      <4>1. q \in Reqs /\ req'[q].op = "create" /\ req'[q].project = p
        BY <3>1 DEF On
      <4>2. req'[q] = req[q]
        BY <2>1, <4>1, Joins DEF Program, MadeOK
      <4> QED
        BY <2>1, <4>1, <4>2 DEF On, MadeOK
    <3> QED
      BY <3>1
  <2>3. project'[p] # "none"
    BY <2>1, ProjectChange DEF MadeOK, Exists, Statuses
  <2>4. ASSUME outcome'[r] # "ok" PROVE Exists(p)'
    <3>1. outcome[r] # "ok"
      BY <2>4, <1>0, <2>1, Begun, NextGrows DEF Grows, Ended, Began, On, Program
    <3>2. Exists(p) /\ r \in Making(p)
      BY <2>1, <3>1 DEF MadeOK, Making
    <3>3. ASSUME NEW d \in On(p, {"delete"}), Running(d), Left(d) = 1 PROVE FALSE
      <4>1. Past(d)
        BY <3>3 DEF Past, On
      <4> QED
        BY <3>2, <3>3, <4>1 DEF OpenInv, Open, On
    <3> QED
      BY <3>2, <3>3, ProjectChange DEF Exists, Statuses
  <2>5. ASSUME Running(r)', Left(r)' = 1 PROVE note'[r] = {"none"}
    <3>1. CASE Same(r)
      BY <2>1, <2>5, <3>1 DEF Same, Running, Left, MadeOK
    <3>2. CASE Acts(r)
      <4>1. /\ Running(r) /\ ~Fail(r) /\ Left(r) \in Nat /\ Left(r) > 0
            /\ Left(r) \in {2, 3} /\ (Left(r) = 3 =>
                Head(todo[r]) \in {"findUser", "findCompany", "deleteMappings"})
        BY <1>0, <2>5, <3>2, Stride DEF Running
      <4>2. Left(r) = 2 /\ Head(todo[r]) = "findAccess"
        BY <1>0, <1>2, <4>1, Turns
      <4>3. FindAccess(r)
        BY <1>0, <3>2, <4>1, <4>2, Deeds
      <4>4. note'[r] = {access[p][req[r].target]}
        BY <1>0, <1>2, <4>3 DEF FindAccess, TimeOK
      <4>5. Untouched(p)
        BY <2>1, <4>1 DEF OpenInv, Open, Making, Running
      <4>6. req[r].target \in Users
        BY <1>0, <1>2 DEF ControlOK, Sound
      <4> QED
        BY <4>4, <4>5, <4>6 DEF Untouched
    <3>3. ~Opens(r) /\ ~Answers(r)
      <4>1. Began(r)
        BY <1>0, <1>2, Begun DEF Program
      <4> QED
        BY <1>0, <4>1, OpensShape, AnswersShape DEF Began
    <3> QED
      BY <1>0, <2>5, <3>1, <3>2, <3>3, Courses DEF Running
  <2> QED
    BY <2>2, <2>3, <2>4, <2>5 DEF MadeOK
<1> QED
  BY <1>1, <1>2

LEMMA PastStep ==
    ASSUME ControlOK, ControlInv, DbOK, [Next]_vars, OpenInv, NEW r \in Reqs, Past(r)'
    PROVE  Open(req[r].project)' /\ req'[r] = req[r]
<1>0. TimeOK /\ Running(r)' /\ req'[r].op \in {"grant", "delete"}
  BY DEF ControlInv, Past
<1>1. ~Opens(r) /\ ~Answers(r)
  <2>1. Len(Program["grant"]) = 6 /\ Len(Program["delete"]) = 4
    BY DEF Program, GrantSteps, DeleteSteps
  <2>2. ~Answers(r)
    BY <1>0, AnswersShape
  <2>3. ASSUME Opens(r) PROVE FALSE
    <3>1. Left(r)' = Len(Program[req'[r].op])
      BY <1>0, <2>3, OpensShape
    <3>2. \/ req'[r].op = "grant" /\ Left(r)' <= 4
          \/ req'[r].op = "delete" /\ Left(r)' <= 3
      BY DEF Past
    <3>3. Left(r)' = 6 \/ req'[r].op = "delete"
      BY <1>0, <2>1, <3>1
    <3>4. Left(r)' = 4 \/ req'[r].op = "grant"
      BY <1>0, <2>1, <3>1
    <3> QED
      BY <3>2, <3>3, <3>4
  <2> QED
    BY <2>2, <2>3
<1>2. CASE Same(r)
  <2>1. Past(r) /\ req'[r] = req[r]
    BY <1>2 DEF Past, Same, Running, Left
  <2>2. Open(req[r].project) /\ req[r].project \in Projects
    BY <2>1 DEF OpenInv, ControlInv, Aimed, Past, Program
  <2> QED
    BY <2>1, <2>2, OpenStays
<1>3. CASE Acts(r)
  <2>1. /\ Running(r) /\ Left(r) \in Nat
        /\ \/ Left(r)' = Left(r) - 1
           \/ /\ Left(r)' = Left(r) - 2
              /\ Head(todo[r]) \in {"findUser", "findCompany", "deleteMappings"}
    BY <1>0, <1>3, Stride DEF Running
  <2>2. req'[r] = req[r]
    <3>1. req'[r].op = req[r].op /\ (req'[r] = req[r] \/ req[r].op = "create")
      BY <1>0, <1>3, ActShape, MoveShape
    <3> QED
      BY <1>0, <3>1
  <2>3. req[r].project \in Projects
    BY <1>0, <2>2 DEF ControlInv, Aimed, Program
  <2>4. CASE Past(r)
    BY <2>2, <2>3, <2>4, OpenStays DEF OpenInv
  <2>5. CASE ~Past(r)
    <3>1. \/ req[r].op = "grant" /\ Left(r)' <= 4 /\ ~(Left(r) <= 4)
          \/ req[r].op = "delete" /\ Left(r)' <= 3 /\ ~(Left(r) <= 3)
      BY <2>1, <2>2, <2>5 DEF Past
    <3>2. Head(todo[r]) = "check"
      <4>1. CASE req[r].op = "grant"
        <5>1. Left(r) \in 1..6 /\ Head(todo[r]) = <<"writeAccess", "findAccess",
                        "createUser", "findUser", "check", "findProject">>[Left(r)]
          BY <2>1, <4>1, Turns
        <5>2. Left(r) \in {5, 6}
          BY <3>1, <4>1, <5>1
        <5> QED
          BY <2>1, <3>1, <4>1, <5>1, <5>2
      <4>2. CASE req[r].op = "delete"
        <5>1. Left(r) \in 1..4 /\ Head(todo[r]) = <<"deleteProject", "deleteAccess",
                        "findProject", "check">>[Left(r)]
          BY <2>1, <4>2, Turns
        <5>2. Left(r) = 4
          BY <3>1, <4>2, <5>1
        <5> QED
          BY <5>1, <5>2
      <4> QED
        BY <1>0, <2>2, <4>1, <4>2
    <3>3. access[req[r].project][req[r].user] # "none" /\ req[r].user \in Users
      BY <1>0, <1>3, <3>2, Checked DEF Running
    <3>4. Open(req[r].project)
      BY <2>3, <3>3 DEF OpenInv, Untouched
    <3> QED
      BY <2>2, <2>3, <3>4, OpenStays
  <2> QED
    BY <2>4, <2>5
<1> QED
  BY <1>0, <1>1, <1>2, <1>3, Courses DEF Running

LEMMA OpenInvStep ==
    ASSUME ControlOK, ControlInv, DbOK, [Next]_vars, OpenInv
    PROVE  OpenInv'
<1>0. TimeOK
  BY DEF ControlInv
<1>1. ASSUME NEW p \in Projects, ~Untouched(p)' PROVE Open(p)'
  <2>1. CASE ~Untouched(p)
    BY <2>1, OpenStays DEF OpenInv
  <2>2. CASE Untouched(p)
    <3>1. PICK u \in Users: access'[p][u] # "none" /\ access'[p][u] # access[p][u]
      BY <1>1, <2>2 DEF Untouched
    <3>2. CASE p = Seeded /\ seed = <<"access", "mappings">> /\ \A r \in Reqs: ~Began(r)
      <4>1. Exists(p)
        BY <3>2 DEF ControlInv, SeedOK
      <4>2. Making(p) = {}
        BY <3>2, Begun DEF Making, On, Program
      <4> QED
        BY <4>1, <4>2, OpenStays DEF Open, Exists, Statuses
    <3>3. ASSUME NEW r \in Of(p, u, {"create", "grant"}),
                 Acts(r), WriteAccess(r), Running(r), Left(r) = 1
          PROVE  Open(p)'
      <4>1. r \in Reqs /\ req[r].project = p /\ req[r].op \in {"create", "grant"}
        BY <3>3 DEF Of, On
      <4>2. CASE req[r].op = "grant"
        BY <3>3, <4>1, <4>2, OpenStays DEF OpenInv, Past
      <4>3. CASE req[r].op = "create"
        <5>1. r \in On(p, {"create"}) /\ note[r] = {"none"}
          BY <3>3, <4>1, <4>3 DEF OpenInv, On
        <5>2. access[p][req[r].target] = "none"
          BY <2>2, <4>1, <4>3 DEF Untouched, ControlOK, Sound
        <5>3. Skip(r, 1)
          BY <3>3, <4>1, <5>1, <5>2 DEF WriteAccess
        <5>4. outcome'[r] = "ok"
          BY <3>3, <4>1, <5>3 DEF Skip, ControlOK, Left
        <5>5. r \in On(p, {"create"})'
          BY <5>1, StillOn DEF Program
        <5>6. MadeOK(p, r)'
          BY <5>5, MadeStep
        <5> QED
          BY <5>4, <5>6 DEF MadeOK, Open, Making
      <4> QED
        BY <4>1, <4>2, <4>3
    <3> QED
      BY <3>1, <3>2, <3>3, AccessChange
  <2> QED
    BY <2>1, <2>2
<1>2. \A r \in Reqs: Past(r)' => Open(req[r].project)'
  BY PastStep
<1>3. \A p \in Projects: \A r \in On(p, {"create"})': MadeOK(p, r)'
  BY MadeStep
<1> QED
  BY <1>1, <1>2, <1>3 DEF OpenInv, MadeOK

LEMMA OpenInvInit == Init => OpenInv
BY DEF Init, ProjectsInit, OpenInv, Untouched, Past, Running, On, NoInput

-----------------------------------------------------------------------------
(* Access to a project that is gone *)

\* The three parts of StrayInv, each at its place.
Settled(p, u) == access[p][u] # "none" /\ ~Exists(p) => Clash(p, u)
LeftLast(d) ==
    Running(d) /\ req[d].op = "delete" /\ Left(d) = 1 =>
        \A u \in Users: access[req[d].project][u] # "none" =>
            \E g \in Of(req[d].project, u, {"grant"}): Overlap(d, g)
LateGrant(g) ==
    Running(g) /\ req[g].op = "grant" /\ Left(g) <= 5 /\ ~Exists(req[g].project) =>
        \E d \in On(req[g].project, {"delete"}): Overlap(d, g)

LEMMA StrayParts ==
    StrayInv <=>
        /\ \A p \in Projects, u \in Users: Settled(p, u)
        /\ \A r \in Reqs: LeftLast(r) /\ LateGrant(r)
BY DEF StrayInv, StrayAccessHasCause, Settled, LeftLast, LateGrant, Clash

LEMMA ClashStays ==
    ASSUME ControlOK, ControlInv, [Next]_vars, NEW p \in Projects
    PROVE  /\ \A u: Clash(p, u) => Clash(p, u)'
           /\ \A u: \A d \in Reqs: (\E g \in Of(p, u, {"grant"}): Overlap(d, g)) =>
                (\E g \in Of(p, u, {"grant"})': Overlap(d, g)')
           /\ \A g \in Reqs: (\E d \in On(p, {"delete"}): Overlap(d, g)) =>
                (\E d \in On(p, {"delete"})': Overlap(d, g)')
<1>1. /\ On(p, {"delete"}) \subseteq On(p, {"delete"})'
      /\ \A u: Of(p, u, {"grant"}) \subseteq Of(p, u, {"grant"})'
  BY StillOn DEF Program
<1>2. On(p, {"delete"}) \subseteq Reqs /\ \A u: Of(p, u, {"grant"}) \subseteq Reqs
  BY DEF On, Of
<1>3. \A q, r \in Reqs: Overlap(q, r) => Overlap(q, r)'
  BY StillOverlap
<1> QED
  BY <1>1, <1>2, <1>3 DEF Clash

\* A grant goes on without the project only if a deletion ended meanwhile.
LEMMA LateGrantStep ==
    ASSUME ControlOK, ControlInv, DbOK, [Next]_vars, NEW g \in Reqs, LateGrant(g),
           Running(g)', req'[g].op = "grant", Left(g)' <= 5, ~Exists(req[g].project)'
    PROVE  \E d \in On(req[g].project, {"delete"})': Overlap(d, g)'
<1>0. TimeOK
  BY DEF ControlInv
<1>1. ~Opens(g) /\ ~Answers(g)
  <2>1. Len(Program["grant"]) = 6
    BY DEF Program, GrantSteps
  <2>2. Opens(g) => Left(g)' = Len(Program[req'[g].op])
    BY <1>0, OpensShape
  <2> QED
    BY <1>0, <2>1, <2>2, AnswersShape
<1>2. CASE Running(g) /\ req[g].op = "grant" /\ Left(g) <= 5 /\ req'[g] = req[g]
  <2>1. PICK p \in Projects: p = req[g].project /\ p = req'[g].project
    BY <1>2 DEF ControlInv, Aimed, Program
  <2>2. CASE ~Exists(p)
    <3>1. \E d \in On(p, {"delete"}): Overlap(d, g)
      BY <1>2, <2>1, <2>2 DEF LateGrant
    <3>2. \E d \in On(p, {"delete"})': Overlap(d, g)'
      BY <3>1, ClashStays
    <3> QED
      BY <2>1, <3>2
  <2>3. CASE Exists(p)
    <3>1. PICK d \in On(p, {"delete"}): Running(d)
      <4>1. ~(project'[p] \in Statuses) /\ project[p] \in Statuses
        BY <2>1, <2>3 DEF Exists
      <4> QED
        BY <4>1, ProjectChange DEF Statuses, Exists
    <3>2. d \in Reqs /\ Overlap(d, g)
      BY <1>2, <3>1, RunningOverlap DEF On
    <3>3. \E x \in On(p, {"delete"})': Overlap(x, g)'
      BY <3>1, <3>2, ClashStays
    <3> QED
      BY <2>1, <3>3
  <2> QED
    BY <2>2, <2>3
<1>3. CASE Same(g)
  BY <1>2, <1>3 DEF Same, Running, Left
<1>4. CASE Acts(g)
  <2>1. /\ Running(g) /\ ~Fail(g) /\ Left(g) \in Nat
        /\ req'[g].op = req[g].op /\ (req'[g] = req[g] \/ req[g].op = "create")
    BY <1>0, <1>4, Stride, ActShape, MoveShape DEF Running
  <2>2. Left(g) <= 5
    <3>1. ASSUME Left(g) > 5 PROVE FALSE
      <4>1. Left(g) \in 1..6 /\ Head(todo[g]) = <<"writeAccess", "findAccess",
                        "createUser", "findUser", "check", "findProject">>[Left(g)]
        BY <2>1, Turns
      <4>2. FindProject(g)
        BY <1>4, <2>1, <3>1, <4>1, Deeds
      <4>3. Exists(req[g].project)
        <5>1. End(g, "refused") => ~Running(g)'
          BY DEF End, Running, ControlOK
        <5> QED
          BY <4>2, <5>1 DEF FindProject
      <4>4. project' = project /\ req' = req
        BY <4>2 DEF FindProject, dbVars, Quiet
      <4> QED
        BY <4>3, <4>4 DEF Exists
    <3> QED
      BY <2>1, <3>1
  <2> QED
    BY <1>2, <2>1, <2>2
<1> QED
  BY <1>1, <1>3, <1>4, Courses DEF Running

\* A grant that ends in access overlaps a deletion that has cleared all access.
LEMMA LeftLastStep ==
    ASSUME ControlOK, ControlInv, DbOK, [Next]_vars, OpenInv, NEW d \in Reqs, LeftLast(d),
           Running(d)', req'[d].op = "delete", Left(d)' = 1,
           NEW u \in Users, access'[req'[d].project][u] # "none"
    PROVE  \E g \in Of(req[d].project, u, {"grant"})': Overlap(d, g)'
<1> DEFINE p == req[d].project
<1>0. TimeOK /\ ~Opens(d) /\ ~Answers(d)
  <2>1. TimeOK /\ Len(Program["delete"]) = 4
    BY DEF Program, DeleteSteps, ControlInv
  <2>2. Opens(d) => Left(d)' = Len(Program[req'[d].op])
    BY <2>1, OpensShape
  <2> QED
    BY <2>1, <2>2, AnswersShape
<1>1. req'[d] = req[d] /\ Running(d) /\ p \in Projects
  <2>1. Same(d) \/ Acts(d)
    BY <1>0, Courses DEF Running
  <2>2. req'[d].op = req[d].op /\ (req'[d] = req[d] \/ req[d].op = "create")
    BY <1>0, <2>1, ActShape, MoveShape DEF Same
  <2>3. Running(d)
    BY <1>0, <2>1, Stride DEF Same, Running
  <2> QED
    BY <2>2, <2>3 DEF ControlInv, Aimed, Program
<1>2. CASE Left(d) = 1
  <2>1. CASE access[p][u] # "none"
    <3>1. \E g \in Of(p, u, {"grant"}): Overlap(d, g)
      BY <1>1, <1>2, <2>1 DEF LeftLast
    <3>2. \E g \in Of(p, u, {"grant"})': Overlap(d, g)'
      BY <1>1, <3>1, ClashStays
    <3> QED
      BY <1>1, <3>2
  <2>2. CASE access[p][u] = "none"
    <3>1. PICK r \in Of(p, u, {"create", "grant"}): Running(r)
      BY <1>1, <2>2, AccessChange DEF Began, Running
    <3>2. r \in Reqs /\ Overlap(d, r)
      BY <1>1, <3>1, RunningOverlap DEF Of, On
    <3>3. req[r].op # "create"
      <4>1. Past(d)
        BY <1>1, <1>2 DEF Past
      <4>2. Making(p) = {}
        BY <4>1 DEF OpenInv, Open
      <4> QED
        BY <3>1, <4>2 DEF Making, Of, On, Running
    <3>4. r \in Of(p, u, {"grant"})
      BY <3>1, <3>3 DEF Of, On
    <3>5. \E g \in Of(p, u, {"grant"})': Overlap(d, g)'
      BY <1>1, <3>2, <3>4, ClashStays
    <3> QED
      BY <1>1, <3>5
  <2> QED
    BY <2>1, <2>2
<1>3. CASE Left(d) # 1
  <2>1. Acts(d)
    BY <1>0, <1>3, Courses DEF Same, Left, Running
  <2>2. /\ ~Fail(d) /\ Left(d) \in Nat
        /\ \/ Left(d)' = Left(d) - 1
           \/ /\ Left(d)' = Left(d) - 2
              /\ Head(todo[d]) \in {"findUser", "findCompany", "deleteMappings"}
    BY <1>0, <2>1, Stride DEF Running
  <2>3. Left(d) \in 1..4 /\ Head(todo[d]) = <<"deleteProject", "deleteAccess",
                        "findProject", "check">>[Left(d)]
    BY <1>1, Turns
  <2>4. Left(d) = 2 /\ Head(todo[d]) = "deleteAccess"
    BY <2>2, <2>3
  <2>5. DeleteAccess(d)
    BY <2>1, <2>2, <2>4, Deeds
  <2>6. access'[p][u] = "none"
    BY <1>1, <2>5 DEF DeleteAccess, DbOK
  <2> QED
    BY <1>1, <2>6
<1> QED
  BY <1>2, <1>3

LEMMA SettledStep ==
    ASSUME ControlOK, ControlInv, DbOK, [Next]_vars, OpenInv, StrayInv,
           NEW p \in Projects, NEW u \in Users, access'[p][u] # "none", ~Exists(p)'
    PROVE  Clash(p, u)'
<1>1. Settled(p, u) /\ \A r \in Reqs: LeftLast(r) /\ LateGrant(r)
  BY StrayParts
<1>2. Clash(p, u) => Clash(p, u)'
  BY ClashStays
<1>3. CASE access[p][u] # "none" /\ ~Exists(p)
  BY <1>1, <1>2, <1>3 DEF Settled
<1>4. CASE access[p][u] # "none" /\ Exists(p)
  <2>1. PICK d \in On(p, {"delete"}): Running(d) /\ Left(d) = 1
    BY <1>4, ProjectChange DEF Exists, Statuses
  <2>2. d \in Reqs /\ req[d].op = "delete" /\ req[d].project = p
    BY <2>1 DEF On
  <2>3. \E g \in Of(p, u, {"grant"}): Overlap(d, g)
    BY <1>1, <1>4, <2>1, <2>2 DEF LeftLast
  <2>4. Clash(p, u)
    BY <2>1, <2>3 DEF Clash
  <2> QED
    BY <1>2, <2>4
<1>5. CASE access[p][u] = "none"
  <2>1. CASE p = Seeded /\ InsertAccess /\ seed = <<"access", "mappings">>
    BY <2>1 DEF ControlInv, SeedOK, InsertAccess, Exists
  <2>2. ASSUME NEW r \in Of(p, u, {"create", "grant"}), WriteAccess(r), Running(r), Left(r) = 1
        PROVE  Clash(p, u)'
    <3>1. ~Exists(p)
      BY <2>2 DEF WriteAccess, Exists
    <3>2. r \in Reqs /\ req[r].project = p /\ req[r].op # "create"
      BY <2>2, <3>1 DEF Of, On, OpenInv, Running
    <3>3. r \in Of(p, u, {"grant"}) /\ req[r].op = "grant"
      BY <2>2, <3>2 DEF Of, On
    <3>4. \E d \in On(p, {"delete"}): Overlap(d, r)
      BY <1>1, <2>2, <3>1, <3>2, <3>3 DEF LateGrant
    <3>5. Clash(p, u)
      BY <3>3, <3>4 DEF Clash
    <3> QED
      BY <1>2, <3>5
  <2> QED
    BY <1>5, <2>1, <2>2, AccessChange
<1> QED
  BY <1>3, <1>4, <1>5

LEMMA StrayInvStep ==
    ASSUME ControlOK, ControlInv, DbOK, [Next]_vars, OpenInv, StrayInv
    PROVE  StrayInv'
<1>0. \A r \in Reqs: LeftLast(r) /\ LateGrant(r)
  BY StrayParts
<1>1. ASSUME NEW p \in Projects, NEW u \in Users PROVE Settled(p, u)'
  BY SettledStep DEF Settled
<1>2. ASSUME NEW r \in Reqs PROVE LeftLast(r)' /\ LateGrant(r)'
  <2>1. LeftLast(r)'
    BY <1>0, LeftLastStep DEF LeftLast
  <2>2. LateGrant(r)'
    BY <1>0, LateGrantStep DEF LateGrant
  <2> QED
    BY <2>1, <2>2
<1>3. (\A p \in Projects, u \in Users: Settled(p, u)') /\ (\A r \in Reqs: LeftLast(r)' /\ LateGrant(r)')
        => StrayInv'
  BY DEF StrayInv, StrayAccessHasCause, Settled, LeftLast, LateGrant, Clash
<1> QED
  BY <1>1, <1>2, <1>3

LEMMA StrayInvInit == Init => StrayInv
BY DEF Init, ProjectsInit, StrayInv, StrayAccessHasCause, Running

-----------------------------------------------------------------------------
(* Projects that nobody can reach *)

\* What leaves p without anybody: its creation, its deletion, a revocation, the seed.
LeftAlone(p) ==
    \/ \E r \in On(p, {"create"}): Halfway(r)
    \/ \E r \in On(p, {"delete"}): Stopped(r) \/ (Running(r) /\ TookBack(r))
    \/ \E r \in On(p, {"revoke"}): TookBack(r)
    \/ p = Seeded /\ (cut \/ seed \notin {<<>>, <<"down">>})

LEMMA SeedTurns ==
    ASSUME ControlOK, ControlInv, DbOK, [Next]_vars, Untouched(Seeded),
           cut \/ seed \notin {<<>>, <<"down">>}
    PROVE  cut' \/ seed' \notin {<<>>, <<"down">>}
<1>0. TimeOK /\ SeedOK
  BY DEF ControlInv
<1>1. CASE StartUp /\ UNCHANGED fileVars
  <2>1. cut' = cut
    BY <1>1, StartUpShape
  <2>2. CASE CountUsers
    BY <1>0, <2>1, <2>2 DEF CountUsers, Down
  <2>3. ASSUME NEW c, Seeding(c) PROVE cut' \/ seed' \notin {<<>>, <<"down">>}
    <3>1. seed # <<>> /\ seed' = Tail(seed) /\ seed # <<"mappings">>
      BY <1>0, <2>3 DEF Seeding, SeedOK
    <3>2. CASE seed = <<"down">>
      BY <2>1, <3>2
    <3>3. CASE seed = SeedPlan
      BY <3>1, <3>3 DEF SeedPlan
    <3>4. CASE seed = SeedRest
      BY <3>1, <3>4 DEF SeedRest
    <3>5. CASE seed = Tail(SeedRest)
      <4>1. Tail(SeedRest) = <<"projects", "access", "mappings">>
        BY DEF SeedRest
      <4>2. Tail(<<"projects", "access", "mappings">>) = <<"access", "mappings">>
        OBVIOUS
      <4>3. seed' = <<"access", "mappings">>
        BY <3>1, <3>5, <4>1, <4>2
      <4> QED
        BY <4>3
    <3>6. CASE seed = <<"access", "mappings">>
      BY <3>1, <3>6
    <3> QED
      BY <1>0, <3>1, <3>2, <3>3, <3>4, <3>5, <3>6 DEF SeedOK, SeedStages
  <2> QED
    BY <1>1, <2>2, <2>3 DEF StartUp, InsertUsers, InsertCompanies, InsertProjects,
       InsertAccess, InsertMappings
<1>2. CASE CrashAll
  BY <1>0, <1>2, CrashShape
<1>3. ASSUME NEW r \in Reqs, Opens(r) \/ Answers(r) \/ Acts(r)
      PROVE  seed' = seed /\ cut' = cut
  BY <1>0, <1>3, OpensShape, AnswersShape, ActShape
<1> QED
  BY <1>1, <1>2, <1>3, Kinds, StillShape

\* A creation that has its project and is not over stays so, or gives access.
LEMMA CreationStays ==
    ASSUME ControlOK, ControlInv, DbOK, [Next]_vars, OpenInv, NEW p \in Projects,
           Untouched(p), Untouched(p)', NEW r \in On(p, {"create"}), Halfway(r)
    PROVE  Halfway(r)'
<1>0. TimeOK /\ r \in Reqs /\ req[r].op = "create" /\ req[r].project = p /\ Began(r)
  BY DEF ControlInv, On, Halfway, Began
<1>1. CASE Acts(r)
  <2>1. Running(r) /\ Left(r) \in Nat
    BY <1>0, <1>1, Gait
  <2>2. Left(r) \in {1, 2}
    <3>1. Left(r) \in 1..5
      BY <1>0, <2>1, Turns
    <3> QED
      BY <1>0, <2>1, <3>1 DEF ControlInv, Aimed
  <2>3. CASE Fail(r)
    BY <1>0, <1>1, <2>3, Gait DEF Halfway
  <2>4. CASE ~Fail(r) /\ Left(r) = 2
    <3>1. FindAccess(r)
      <4>1. Head(todo[r]) = "findAccess"
        BY <1>0, <2>1, <2>4, Turns
      <4> QED
        BY <1>0, <1>1, <2>4, <4>1, Deeds
    <3>2. 1 <= Left(r) /\ Skip(r, 1)
      BY <2>4, <3>1 DEF FindAccess
    <3>3. outcome'[r] = "running"
      BY <1>0, <2>1, <2>4, <3>2, SkipMoves
    <3> QED
      BY <3>3 DEF Halfway
  <2>5. CASE ~Fail(r) /\ Left(r) = 1
    <3>1. WriteAccess(r)
      <4>1. Head(todo[r]) = "writeAccess"
        BY <1>0, <2>1, <2>5, Turns
      <4> QED
        BY <1>0, <1>1, <2>5, <4>1, Deeds
    <3>2. note[r] = {"none"} /\ req[r].target \in Users /\ req[r].role \in Roles
      BY <1>0, <2>1, <2>5 DEF OpenInv, ControlOK, Sound
    <3>3. access[p][req[r].target] = "none"
      BY <3>2 DEF Untouched
    <3>4. access'[p][req[r].target] = req[r].role
      BY <1>0, <3>1, <3>2, <3>3 DEF WriteAccess, DbOK
    <3> QED
      BY <3>2, <3>4 DEF Untouched, Roles
  <2> QED
    BY <2>2, <2>3, <2>4, <2>5
<1>2. CASE ~Acts(r)
  BY <1>0, <1>2, Courses, OpensShape, AnswersShape DEF Halfway, Same, Running, Began
<1> QED
  BY <1>1, <1>2

\* A deletion that has stopped, or has only the project left to remove.
LEMMA DeletionStays ==
    ASSUME ControlOK, ControlInv, DbOK, [Next]_vars, NEW p \in Projects, Exists(p)',
           NEW r \in On(p, {"delete"}), Stopped(r) \/ (Running(r) /\ TookBack(r))
    PROVE  Stopped(r)' \/ (Running(r) /\ TookBack(r))'
<1>0. TimeOK /\ r \in Reqs /\ req[r].op = "delete" /\ req[r].project = p /\ Began(r)
      /\ req'[r] = req[r]
  <2>1. r \in Reqs /\ req[r].op = "delete" /\ req[r].project = p
    BY DEF On
  <2>2. req[r].op \in DOMAIN Program
    BY <2>1 DEF Program
  <2> QED
    BY <2>1, <2>2, Steady DEF ControlInv
<1>1. CASE Acts(r)
  <2>1. Running(r) /\ Left(r) = 1
    <3>1. Running(r)
      BY <1>0, <1>1, Gait
    <3> QED
      BY <3>1 DEF Stopped, Running, TookBack
  <2>2. CASE Fail(r)
    BY <1>0, <1>1, <2>2, Gait DEF Stopped
  <2>3. CASE ~Fail(r)
    <3>1. Head(todo[r]) = "deleteProject"
      BY <1>0, <2>1, Turns
    <3>2. DeleteProject(r)
      BY <1>0, <1>1, <2>3, <3>1, Deeds
    <3>3. project'[p] = "deleted"
      BY <1>0, <3>2 DEF DeleteProject, DbOK
    <3> QED
      BY <3>3 DEF Exists, Statuses
  <2> QED
    BY <2>2, <2>3
<1>2. CASE Same(r)
  BY <1>2 DEF Same, Stopped, Running, TookBack, Left
<1>3. CASE ~Acts(r) /\ ~Same(r)
  <2>1. outcome'[r] = IF Running(r) THEN "lost" ELSE outcome[r]
    BY <1>0, <1>3, Courses, OpensShape, AnswersShape DEF Began
  <2> QED
    BY <2>1 DEF Stopped, Running
<1> QED
  BY <1>1, <1>2, <1>3

LEMMA TookBackStays ==
    ASSUME ControlOK, ControlInv, DbOK, [Next]_vars, NEW r \in Reqs, TookBack(r),
           req[r].op \in {"revoke", "delete"}
    PROVE  TookBack(r)'
<1>0. TimeOK /\ req[r].op \in DOMAIN Program /\ Began(r) /\ req'[r] = req[r]
  BY Steady DEF ControlInv, Program, Aimed
<1>1. CASE Ended(r)
  BY <1>0, <1>1, NextGrows DEF Grows, TookBack, Stopped, Ended, Running
<1>2. CASE Running(r) /\ req[r].op = "delete" /\ Left(r) = 1
  <2>1. CASE Acts(r)
    <3>1. Head(todo[r]) = "deleteProject"
      BY <1>2, Turns
    <3>2. Fail(r) => outcome'[r] = "failed"
      BY <1>0, <2>1, Gait
    <3>3. ~Fail(r) => DeleteProject(r)
      BY <2>1, <3>1, Deeds
    <3>4. DeleteProject(r) => outcome'[r] = "ok"
      BY <1>2 DEF DeleteProject, Skip, ControlOK, Left
    <3> QED
      BY <3>2, <3>3, <3>4 DEF TookBack, Stopped
  <2>2. CASE Same(r)
    BY <1>2, <2>2 DEF Same, TookBack, Running, Left
  <2>3. CASE ~Acts(r) /\ ~Same(r)
    <3>1. outcome'[r] = "lost"
      BY <1>0, <1>2, <2>3, Courses, OpensShape, AnswersShape DEF Began
    <3> QED
      BY <3>1 DEF TookBack, Stopped
  <2> QED
    BY <2>1, <2>2, <2>3
<1> QED
  BY <1>1, <1>2 DEF TookBack, Stopped, Ended

LEMMA ReachInvStep ==
    ASSUME ControlOK, ControlInv, DbOK, [Next]_vars, OpenInv, ReachInv
    PROVE  ReachInv'
<1> SUFFICES ASSUME NEW p \in Projects, Exists(p)', Untouched(p)' PROVE LeftAlone(p)'
  BY DEF ReachInv, LeftAlone
<1>1. CASE Exists(p) /\ Untouched(p)
  <2>1. LeftAlone(p)
    BY <1>1 DEF ReachInv, LeftAlone
  <2>2. /\ On(p, {"create"}) \subseteq On(p, {"create"})'
        /\ On(p, {"delete"}) \subseteq On(p, {"delete"})'
        /\ On(p, {"revoke"}) \subseteq On(p, {"revoke"})'
    BY StillOn DEF Program
  <2>3. ASSUME NEW r \in On(p, {"create"}), Halfway(r) PROVE LeftAlone(p)'
    BY <1>1, <2>2, <2>3, CreationStays DEF LeftAlone
  <2>4. ASSUME NEW r \in On(p, {"delete"}), Stopped(r) \/ (Running(r) /\ TookBack(r))
        PROVE  LeftAlone(p)'
    BY <2>2, <2>4, DeletionStays DEF LeftAlone
  <2>5. ASSUME NEW r \in On(p, {"revoke"}), TookBack(r) PROVE LeftAlone(p)'
    <3>1. r \in Reqs /\ req[r].op = "revoke"
      BY <2>5 DEF On
    <3> QED
      BY <2>2, <2>5, <3>1, TookBackStays DEF LeftAlone
  <2>6. CASE p = Seeded /\ (cut \/ seed \notin {<<>>, <<"down">>})
    BY <1>1, <2>6, SeedTurns DEF LeftAlone
  <2> QED
    BY <2>1, <2>3, <2>4, <2>5, <2>6 DEF LeftAlone
<1>2. CASE ~Exists(p)
  <2>1. \/ p = Seeded /\ seed' = <<"access", "mappings">>
        \/ \E r \in Reqs: /\ Acts(r) /\ req[r].op = "create"
                          /\ Running(r)' /\ req'[r].project = p
    BY <1>2, ProjectChange DEF Exists, Statuses
  <2>2. CASE p = Seeded /\ seed' = <<"access", "mappings">>
    BY <2>2 DEF LeftAlone
  <2>3. ASSUME NEW r \in Reqs, Acts(r), req[r].op = "create", Running(r)', req'[r].project = p
        PROVE  LeftAlone(p)'
    <3>1. req'[r].op = "create"
      BY <2>3, ActShape, MoveShape DEF ControlInv
    <3>2. r \in On(p, {"create"})' /\ Halfway(r)'
      BY <2>3, <3>1 DEF On, Halfway, Running
    <3> QED
      BY <3>2 DEF LeftAlone
  <2> QED
    BY <2>1, <2>2, <2>3
<1>3. CASE ~Untouched(p)
  <2>1. PICK u \in Users: access[p][u] # "none" /\ access'[p][u] = "none"
    BY <1>3 DEF Untouched
  <2>2. CASE p = Seeded /\ InsertAccess /\ seed = <<"access", "mappings">>
    <3>1. seed' = <<"mappings">>
      <4>1. seed' = Tail(seed)
        BY <2>2 DEF InsertAccess, Seeding
      <4> QED
        BY <2>2, <4>1
    <3> QED
      BY <2>2, <3>1 DEF LeftAlone
  <2>3. ASSUME NEW r \in Of(p, u, {"revoke"}), outcome'[r] = "ok" PROVE LeftAlone(p)'
    <3>1. r \in On(p, {"revoke"})'
      BY <2>3, StillOn DEF Of, Program
    <3> QED
      BY <2>3, <3>1 DEF LeftAlone, TookBack
  <2>4. ASSUME NEW r \in On(p, {"delete"}), Running(r)', Left(r)' = 1 PROVE LeftAlone(p)'
    <3>1. r \in On(p, {"delete"})'
      BY StillOn DEF Program
    <3>2. req'[r].op = "delete"
      BY <3>1 DEF On
    <3> QED
      BY <2>4, <3>1, <3>2 DEF LeftAlone, TookBack
  <2> QED
    BY <2>1, <2>2, <2>3, <2>4, AccessChange
<1> QED
  BY <1>1, <1>2, <1>3

LEMMA ReachInvInit == Init => ReachInv
BY DEF Init, ProjectsInit, ReachInv, Exists, Statuses

LEMMA ReachHolds == ReachInv => ProjectsAreReachable
BY DEF ReachInv, ProjectsAreReachable, Untouched, Halfway, Stopped, TookBack, Running, On, Up

-----------------------------------------------------------------------------
(* What a grant was answered *)

\* A request that gives access, from when it knows its project.
Gives(r) == r \in Reqs /\ req[r].op \in {"create", "grant"} /\ req[r].project \in Projects

LEMMA GiverIs ==
    ASSUME ControlOK, ControlInv, NEW r \in Reqs, req[r].op \in {"create", "grant"},
           outcome[r] = "ok" \/ (Running(r) /\ Left(r) = 1)
    PROVE  Gives(r) /\ req[r].target \in Users /\ req[r].role \in Roles
BY DEF Gives, ControlInv, Aimed, ControlOK, Sound, Program

LEMMA GiversStay ==
    ASSUME ControlOK, ControlInv, DbOK, [Next]_vars, NEW r, Gives(r)
    PROVE  /\ req'[r] = req[r] /\ before'[r] = before[r]
           /\ Givers(r) \subseteq Givers(r)' /\ \A q \in Givers(r): req'[q] = req[q]
           /\ Takers(r) \subseteq Takers(r)'
<1>1. r \in Reqs /\ req'[r] = req[r] /\ before'[r] = before[r] /\ req[r].project \in Projects
  BY Steady DEF Gives, Program
<1>2. ASSUME NEW q \in Givers(r) PROVE req'[q] = req[q] /\ q \in Givers(r)'
  <2>1. /\ q \in Reqs /\ req[q].op \in {"create", "grant"} /\ q \notin before[r]
        /\ req[q].project = req[r].project /\ req[q].target = req[r].target
    BY <1>2 DEF Givers, Of, On
  <2>2. req'[q] = req[q]
    BY <1>1, <2>1, Steady DEF Program
  <2> QED
    BY <1>1, <2>1, <2>2 DEF Givers, Of, On
<1>3. ASSUME NEW q \in Takers(r) PROVE q \in Takers(r)'
  <2>1. /\ q \in Reqs /\ req[q].op \in {"revoke", "delete"} /\ q \notin before[r]
        /\ req[q].project = req[r].project /\ TookBack(q)
        /\ req[q].op = "revoke" => req[q].target = req[r].target
    BY <1>3 DEF Takers, Of, On
  <2>2. req'[q] = req[q]
    BY <1>1, <2>1, Steady DEF Program
  <2>3. TookBack(q)'
    BY <2>1, TookBackStays
  <2> QED
    BY <1>1, <2>1, <2>2, <2>3 DEF Takers, Of, On
<1> QED
  BY <1>1, <1>2, <1>3

\* If a role changes after a request gave it, a later grant or a taker did it.
LEMMA RoleTurns ==
    ASSUME ControlOK, ControlInv, DbOK, [Next]_vars, NEW r, Gives(r),
           NEW p, NEW u \in Users, p = req[r].project, u = req[r].target,
           access'[p][u] # access[p][u]
    PROVE  \/ \E q \in Givers(r): access'[p][u] = req[q].role /\ access'[p][u] # "none"
           \/ Takers(r)' # {}
<1>1. r \in Reqs /\ p \in Projects /\ Began(r) /\ req'[r] = req[r] /\ before'[r] = before[r]
  BY Steady DEF Gives, Program
<1>2. \A q \in Reqs: Running(q) => q \notin before[r]
  BY <1>1 DEF ControlInv, TimeOK, Ended, Running
<1>3. ASSUME NEW q \in Of(p, u, {"create", "grant"}), Running(q), access'[p][u] = req[q].role,
             access'[p][u] # "none"
      PROVE  \E g \in Givers(r): access'[p][u] = req[g].role /\ access'[p][u] # "none"
  BY <1>2, <1>3 DEF Givers, Of, On
<1>4. ASSUME NEW q \in Reqs, Running(q), req[q].op \in {"revoke", "delete"},
             req[q].project = p, req[q].op = "revoke" => req[q].target = u, TookBack(q)'
      PROVE  q \in Takers(r)'
  <2>1. req'[q] = req[q]
    BY <1>1, <1>4, Steady DEF Program
  <2> QED
    BY <1>1, <1>2, <1>4, <2>1 DEF Takers, Of, On
<1>5. ASSUME NEW q \in Of(p, u, {"revoke"}), Running(q), outcome'[q] = "ok"
      PROVE  Takers(r)' # {}
  BY <1>4, <1>5 DEF Of, On, TookBack
<1>6. ASSUME NEW q \in On(p, {"delete"}), Running(q), Running(q)', Left(q)' = 1
      PROVE  Takers(r)' # {}
  <2>1. q \in Reqs /\ req[q].op = "delete" /\ req[q].project = p
    BY <1>6 DEF On
  <2>2. req'[q] = req[q]
    BY <1>1, <2>1, Steady DEF Program
  <2>3. TookBack(q)'
    BY <1>6, <2>1, <2>2 DEF TookBack
  <2> QED
    BY <1>4, <1>6, <2>1, <2>3
<1> QED
  BY <1>1, <1>3, <1>5, <1>6, AccessChange

LEMMA GrantKept ==
    ASSUME ControlOK, ControlInv, DbOK, [Next]_vars, OpenInv, GrantInv, NEW r \in Reqs,
           req'[r].op \in {"create", "grant"}, outcome'[r] = "ok",
           NEW p, NEW u, p = req'[r].project, u = req'[r].target
    PROVE  access'[p][u] \in {req'[q].role: q \in Givers(r)'} \/ Takers(r)' # {}
<1>0. TimeOK
  BY DEF ControlInv
<1>1. outcome[r] = "ok" \/ Acts(r)
  BY <1>0, Courses, OpensShape, AnswersShape DEF Same, Running
<1>2. req[r].op \in {"create", "grant"}
  <2>1. CASE outcome[r] = "ok"
    BY <2>1, NextGrows DEF Grows, Began, Ended
  <2>2. CASE Acts(r)
    BY <1>0, <2>2, ActShape, MoveShape
  <2> QED
    BY <1>1, <2>1, <2>2
<1>3. CASE outcome[r] = "ok"
  <2>1. Gives(r) /\ req[r].target \in Users
    BY <1>2, <1>3, GiverIs
  <2>2. /\ req'[r] = req[r] /\ Givers(r) \subseteq Givers(r)'
        /\ \A q \in Givers(r): req'[q] = req[q]
        /\ Takers(r) \subseteq Takers(r)'
    BY <2>1, GiversStay
  <2>3. u \in Users /\ p = req[r].project /\ u = req[r].target
    BY <2>1, <2>2
  <2>4. CASE access'[p][u] = access[p][u]
    <3>1. access[p][u] \in {req[q].role: q \in Givers(r)} \/ Takers(r) # {}
      BY <1>2, <1>3, <2>3 DEF GrantInv
    <3> QED
      BY <2>2, <2>4, <3>1
  <2>5. CASE access'[p][u] # access[p][u]
    BY <2>1, <2>2, <2>3, <2>5, RoleTurns
  <2> QED
    BY <2>4, <2>5
<1>4. CASE outcome[r] # "ok"
  <2>1. /\ Acts(r) /\ Running(r) /\ ~Fail(r) /\ Left(r) \in Nat /\ Left(r) > 0
        /\ \/ Left(r) = 1
           \/ Left(r) = 2 /\ Head(todo[r]) \in {"findUser", "findCompany", "deleteMappings"}
           \/ Head(todo[r]) \in {"findOwn", "softDelete"}
    BY <1>0, <1>1, <1>4, Stride
  <2>2. Left(r) = 1 /\ Head(todo[r]) = "writeAccess"
    <3>1. Head(todo[r]) \notin {"findOwn", "softDelete"}
      BY <1>2, <2>1, Owner
    <3>2. Left(r) = 2 => Head(todo[r]) = "findAccess"
      BY <1>2, <2>1, Turns
    <3>3. Left(r) = 1 => Head(todo[r]) = "writeAccess"
      BY <1>2, <2>1, Turns
    <3> QED
      BY <2>1, <3>1, <3>2, <3>3
  <2>3. WriteAccess(r)
    BY <2>1, <2>2, Deeds
  <2>4. Gives(r) /\ req[r].target \in Users /\ req[r].role \in Roles
    BY <1>2, <2>1, <2>2, GiverIs
  <2>5. /\ req'[r] = req[r] /\ Givers(r) \subseteq Givers(r)'
        /\ \A q \in Givers(r): req'[q] = req[q]
        /\ Takers(r) \subseteq Takers(r)'
    BY <2>4, GiversStay
  <2>6. p \in Projects /\ u \in Users /\ p = req[r].project /\ u = req[r].target
    BY <2>4, <2>5 DEF Gives
  <2>7. CASE (note[r] # {"none"}) = (access[p][u] # "none")
    <3>1. access'[p][u] = req[r].role
      BY <2>3, <2>6, <2>7 DEF WriteAccess, DbOK
    <3>2. r \in Givers(r)
      BY <1>0, <2>4 DEF Gives, Givers, Of, On, TimeOK
    <3> QED
      BY <2>5, <3>1, <3>2
  <2>8. CASE note[r] # {"none"} /\ access[p][u] = "none"
    <3>1. Takers(r) # {}
      BY <1>2, <2>1, <2>2, <2>6, <2>8 DEF GrantInv
    <3> QED
      BY <2>5, <3>1
  <2>9. CASE note[r] = {"none"} /\ access[p][u] # "none"
    <3>1. End(r, "failed")
      BY <2>3, <2>6, <2>9 DEF WriteAccess
    <3> QED
      BY <3>1 DEF End, ControlOK
  <2> QED
    BY <2>7, <2>8, <2>9
<1> QED
  BY <1>3, <1>4

\* A grant that found a role which is gone when it writes was overtaken.
LEMMA GrantOvertaken ==
    ASSUME ControlOK, ControlInv, DbOK, [Next]_vars, GrantInv, NEW r \in Reqs,
           req'[r].op \in {"create", "grant"}, Running(r)', Left(r)' = 1, note'[r] # {"none"},
           NEW p, NEW u, p = req'[r].project, u = req'[r].target, access'[p][u] = "none"
    PROVE  Takers(r)' # {}
<1>0. TimeOK
  BY DEF ControlInv
<1>1. ~Opens(r) /\ ~Answers(r)
  <2>1. Len(Program["create"]) = 5 /\ Len(Program["grant"]) = 6
    BY DEF Program, GrantSteps, CreateSteps
  <2>2. Opens(r) => Left(r)' = Len(Program[req'[r].op])
    BY <1>0, OpensShape
  <2> QED
    BY <1>0, <2>1, <2>2, AnswersShape
<1>2. CASE Same(r)
  <2>1. /\ Running(r) /\ Left(r) = 1 /\ note[r] # {"none"} /\ req[r].op \in {"create", "grant"}
        /\ p = req[r].project /\ u = req[r].target
    BY <1>2 DEF Same, Running, Left
  <2>2. Gives(r) /\ u \in Users
    BY <2>1, GiverIs
  <2>3. Takers(r) \subseteq Takers(r)' /\ Givers(r) \subseteq Givers(r)'
    BY <2>2, GiversStay
  <2>4. CASE access[p][u] = "none"
    BY <2>1, <2>3, <2>4 DEF GrantInv
  <2>5. CASE access[p][u] # "none"
    BY <2>1, <2>2, <2>5, RoleTurns
  <2> QED
    BY <2>4, <2>5
<1>3. CASE Acts(r)
  <2>1. /\ Running(r) /\ ~Fail(r) /\ Left(r) \in Nat /\ req[r].op \in {"create", "grant"}
        /\ \/ Left(r)' = Left(r) - 1
           \/ /\ Left(r)' = Left(r) - 2
              /\ Head(todo[r]) \in {"findUser", "findCompany", "deleteMappings"}
    BY <1>0, <1>3, Stride, ActShape, MoveShape DEF Running
  <2>2. Head(todo[r]) = "findAccess"
    <3>1. Left(r) = 2 => Head(todo[r]) = "findAccess"
      BY <2>1, Turns
    <3>2. Left(r) = 3 => Head(todo[r]) \in {"insertProject", "createUser"}
      BY <2>1, Turns
    <3> QED
      BY <2>1, <3>1, <3>2
  <2>3. FindAccess(r)
    BY <1>3, <2>1, <2>2, Deeds
  <2>4. req'[r] = req[r] /\ access' = access /\ note'[r] = {access[p][u]}
    BY <1>0, <2>3 DEF FindAccess, Quiet, dbVars, TimeOK
  <2> QED
    BY <2>4
<1> QED
  BY <1>0, <1>1, <1>2, <1>3, Courses DEF Running

LEMMA GrantInvStep ==
    ASSUME ControlOK, ControlInv, DbOK, [Next]_vars, OpenInv, GrantInv
    PROVE  GrantInv'
BY GrantKept, GrantOvertaken DEF GrantInv

LEMMA GrantInvInit == Init => GrantInv
BY DEF Init, ProjectsInit, GrantInv, NoInput

LEMMA GrantHolds == GrantInv => GrantsAreKept
<1> SUFFICES ASSUME GrantInv, NEW r \in Reqs, outcome[r] = "ok", req[r].op \in {"create", "grant"},
                    NEW p, NEW u, p = req[r].project, u = req[r].target
             PROVE  \/ access[p][u] \in {req[q].role: q \in Givers(r)}
                    \/ \E q \in {x \in Of(p, u, {"revoke"}) \union On(p, {"delete"}): x \notin before[r]}:
                            outcome[q] # "refused"
  BY DEF GrantsAreKept, Givers
<1>1. access[p][u] \in {req[q].role: q \in Givers(r)} \/ Takers(r) # {}
  BY DEF GrantInv
<1> QED
  BY <1>1 DEF Takers, TookBack, Stopped, Running

-----------------------------------------------------------------------------
(* Who has lost access *)

LEMMA NoCheck ==
    ASSUME NEW op, Checks(op)
    PROVE  op \in DOMAIN Program \ {"login", "create", "overview", "list"}
<1>1. "check" \notin Range(LoginSteps) /\ "check" \notin Range(CreateSteps)
      /\ "check" \notin Range(OverviewSteps) /\ "check" \notin Range(ListSteps)
  BY DEF Range, LoginSteps, CreateSteps, OverviewSteps, ListSteps
<1>2. /\ Program["login"] = LoginSteps /\ Program["create"] = CreateSteps
      /\ Program["overview"] = OverviewSteps /\ Program["list"] = ListSteps
  BY DEF Program
<1> QED
  BY <1>1, <1>2 DEF Checks

\* A request that has its check behind it, and had not before, is at it.
LEMMA LastCheck ==
    ASSUME ControlOK, TimeOK, NEW r \in Reqs, Acts(r), Checks(req[r].op),
           \/ outcome'[r] = "ok"
           \/ Running(r)' /\ \A i \in 1..Left(r)': todo'[r][i] # "check",
           Head(todo[r]) # "check"
    PROVE  Running(r) /\ \A i \in 1..Left(r): todo[r][i] # "check"
<1>0. Running(r) /\ Left(r) \in Nat /\ Left(r) > 0 /\ Further(r)
  BY Gait
<1>1. todo[r][1] # "check"
  BY <1>0 DEF ControlOK, Running
<1>2. ASSUME Skip(r, 1), NEW i \in 1..Left(r) PROVE todo[r][i] # "check"
  <2>1. 1 <= Left(r)
    BY <1>0
  <2>2. /\ \A k \in 1..Left(r) - 1: todo'[r][k] = todo[r][k + 1]
        /\ Left(r)' = Left(r) - 1
        /\ outcome'[r] = IF Left(r) = 1 THEN "ok" ELSE "running"
    BY <1>0, <1>2, <2>1, SkipMoves
  <2>3. CASE i = 1
    BY <1>1, <2>3
  <2>4. CASE i > 1
    <3>1. i - 1 \in 1..Left(r) - 1 /\ Left(r) # 1 /\ (i - 1) + 1 = i
      BY <1>0, <2>4
    <3>2. todo'[r][i - 1] = todo[r][i] /\ todo'[r][i - 1] # "check"
      BY <2>2, <3>1
    <3> QED
      BY <3>2
  <2> QED
    BY <1>2, <2>3, <2>4
<1>3. ASSUME Skip(r, 2), Left(r) > 1, NEW i \in 1..Left(r),
             Head(todo[r]) \in {"findUser", "findCompany", "deleteMappings"}
      PROVE  todo[r][i] # "check"
  <2>1. 2 <= Left(r)
    BY <1>0, <1>3
  <2>2. /\ \A k \in 1..Left(r) - 2: todo'[r][k] = todo[r][k + 2]
        /\ Left(r)' = Left(r) - 2
        /\ outcome'[r] = IF Left(r) = 2 THEN "ok" ELSE "running"
    BY <1>0, <1>3, <2>1, SkipMoves
  <2>3. CASE i = 1
    BY <1>1, <2>3
  <2>4. CASE i = 2
    <3> DEFINE op == req[r].op
               last == Len(Program[op])
               k == last - Left(r) + 1
    <3>1. Placed(op, k) /\ Head(todo[r]) = Program[op][k] /\ last \in Nat
      BY <1>0, Spot
    <3>2. todo[r][2] = Program[op][last - Left(r) + 2]
      BY <1>0, <2>1 DEF ControlOK, OnCourse
    <3>3. last - Left(r) + 2 = k + 1
      <4>1. last \in Nat /\ Left(r) \in Nat
        BY <1>0, <3>1
      <4> HIDE DEF last
      <4> QED
        BY <4>1
    <3>4. Program[op][k + 1] # "check"
      <4> HIDE DEF op, k
      <4> QED
        BY <1>3, <3>1 DEF Placed
    <3> QED
      BY <2>4, <3>2, <3>3, <3>4
  <2>5. CASE i > 2
    <3>1. i - 2 \in 1..Left(r) - 2 /\ Left(r) # 2 /\ (i - 2) + 2 = i
      BY <1>0, <2>5
    <3>2. todo'[r][i - 2] = todo[r][i] /\ todo'[r][i - 2] # "check"
      BY <2>2, <3>1
    <3> QED
      BY <3>2
  <2> QED
    BY <1>3, <2>3, <2>4, <2>5
<1>4. ASSUME Head(todo[r]) = "softDelete", NEW i \in 1..Left(r) PROVE todo[r][i] # "check"
  <2>1. req[r].op = "remove"
    BY <1>0, <1>4, Owner
  <2>2. Left(r) = 4
    BY <1>0, <1>4, <2>1, Here
  <2>3. todo[r][i] = Program["remove"][Len(Program["remove"]) - 4 + i]
    BY <1>0, <2>1, <2>2 DEF ControlOK, OnCourse
  <2>4. Program["remove"] = RemoveSteps /\ Len(RemoveSteps) = 6
    BY DEF Program, RemoveSteps
  <2>5. i \in {1, 2, 3, 4}
    BY <1>4, <2>2
  <2>6. \A k \in {3, 4, 5, 6}: RemoveSteps[k] # "check"
    BY DEF RemoveSteps
  <2>7. 6 - 4 + i \in {3, 4, 5, 6}
    BY <2>5
  <2> QED
    BY <2>3, <2>4, <2>6, <2>7
<1>5. Head(todo[r]) # "findOwn"
  BY <1>0, NoCheck, Owner
<1> QED
  BY <1>0, <1>2, <1>3, <1>4, <1>5 DEF Further, Running

LEMMA GaveLaterStays ==
    ASSUME ControlOK, ControlInv, [Next]_vars, NEW p \in Projects, NEW u, NEW q \in Reqs,
           Began(q), GaveLater(q, p, u)
    PROVE  GaveLater(q, p, u)'
<1>1. PICK g \in Of(p, u, {"grant", "create"}): g \notin before[q]
  BY DEF GaveLater
<1>2. Of(p, u, {"grant", "create"}) \subseteq Of(p, u, {"grant", "create"})'
  BY StillOn DEF Program
<1>3. before'[q] = before[q]
  BY NextGrows DEF Grows
<1> QED
  BY <1>1, <1>2, <1>3 DEF GaveLater

\* Those that have taken u off p, and done it, stay those.
LEMMA LeftAlready ==
    ASSUME ControlOK, ControlInv, [Next]_vars, NEW p, NEW u, NEW q \in Leavers(p, u)',
           Ended(q)
    PROVE  q \in Reqs /\ q \in Leavers(p, u) /\ outcome'[q] = outcome[q] /\ Began(q)
<1>1. q \in Reqs /\ Began(q) /\ outcome'[q] = outcome[q] /\ req'[q] = req[q]
  BY NextGrows DEF Grows, Ended, Began, Leavers, Of, On
<1> QED
  BY <1>1 DEF Leavers, Of, On

LEMMA OutStays ==
    ASSUME ControlOK, ControlInv, DbOK, [Next]_vars, OutInv, StrayInv,
           NEW p \in Projects, NEW u \in Users, access'[p][u] # "none",
           NEW q \in Leavers(p, u)', outcome'[q] = "ok"
    PROVE  GaveLater(q, p, u)'
<1>0. TimeOK /\ q \in Reqs /\ req'[q].op \in {"revoke", "delete"} /\ req'[q].project = p
      /\ (req'[q].op = "revoke" => req'[q].target = u)
  BY DEF ControlInv, Leavers, Of, On
<1>1. CASE outcome[q] = "ok"
  <2>1. q \in Leavers(p, u) /\ Began(q)
    BY <1>1, LeftAlready DEF Ended
  <2>2. GaveLater(q, p, u)
    <3>1. CASE access[p][u] # "none"
      BY <1>1, <2>1, <3>1 DEF OutInv
    <3>2. CASE access[p][u] = "none"
      <4>1. PICK r \in Of(p, u, {"create", "grant"}): Running(r)
        BY <1>0, <2>1, <3>2, AccessChange
      <4>2. r \notin before[q]
        BY <1>0, <4>1 DEF TimeOK, Ended, Running, Of, On
      <4> QED
        BY <4>1, <4>2 DEF GaveLater, Of, On
    <3> QED
      BY <3>1, <3>2
  <2> QED
    BY <1>0, <2>1, <2>2, GaveLaterStays
<1>2. CASE outcome[q] # "ok"
  <2>1. Acts(q)
    BY <1>0, <1>2, Courses, OpensShape, AnswersShape DEF Same, Running
  <2>2. req'[q] = req[q]
    BY <1>0, <2>1, ActShape, MoveShape
  <2>3. /\ Running(q) /\ ~Fail(q) /\ Left(q) \in Nat /\ Left(q) > 0
        /\ \/ Left(q) = 1
           \/ Left(q) = 2 /\ Head(todo[q]) \in {"findUser", "findCompany", "deleteMappings"}
           \/ Head(todo[q]) \in {"findOwn", "softDelete"}
    BY <1>0, <2>1, Stride
  <2>4. Left(q) = 1
    <3>1. Head(todo[q]) \notin {"findUser", "findCompany", "deleteMappings", "findOwn", "softDelete"}
      BY <1>0, <2>2, <2>3, Owner
    <3> QED
      BY <2>3, <3>1
  <2>5. CASE req[q].op = "revoke"
    <3>1. Head(todo[q]) = "revokeAccess"
      BY <1>0, <2>3, <2>4, <2>5, Turns
    <3>2. RevokeAccess(q)
      BY <1>0, <2>1, <2>3, <3>1, Deeds
    <3> QED
      BY <1>0, <2>2, <2>5, <3>2 DEF RevokeAccess, DbOK
  <2>6. CASE req[q].op = "delete"
    <3>1. Head(todo[q]) = "deleteProject"
      BY <1>0, <2>3, <2>4, <2>6, Turns
    <3>2. DeleteProject(q)
      BY <1>0, <2>1, <2>3, <3>1, Deeds
    <3>3. access[p][u] # "none"
      BY <3>2 DEF DeleteProject
    <3>4. LeftLast(q)
      BY <1>0, StrayParts
    <3>5. PICK g \in Of(p, u, {"grant"}): Overlap(q, g)
      BY <1>0, <2>2, <2>3, <2>4, <2>6, <3>3, <3>4 DEF LeftLast
    <3>6. GaveLater(q, p, u)
      BY <3>5 DEF GaveLater, Overlap, Of, On
    <3> QED
      BY <1>0, <2>3, <3>6, GaveLaterStays DEF Began, Running
  <2> QED
    BY <1>0, <2>2, <2>5, <2>6
<1> QED
  BY <1>1, <1>2

LEMMA LetStep ==
    ASSUME ControlOK, ControlInv, DbOK, [Next]_vars, OutInv, NEW r \in Reqs,
           Checks(req'[r].op),
           \/ outcome'[r] = "ok"
           \/ Running(r)' /\ \A i \in 1..Left(r)': todo'[r][i] # "check",
           NEW p, NEW u, p = req'[r].project, u = req'[r].user,
           NEW q \in Leavers(p, u)', Done(q, r)'
    PROVE  GaveLater(q, p, u)'
<1>0. TimeOK /\ req'[r].op \in DOMAIN Program \ {"login", "create", "overview", "list"}
  BY NoCheck DEF ControlInv
<1>1. ~Answers(r) /\ ~Opens(r)
  <2>1. ~Answers(r)
    BY <1>0, AnswersShape DEF Program
  <2>2. ASSUME Opens(r) PROVE FALSE
    <3>1. todo'[r] = Program[req'[r].op] /\ outcome'[r] = "running"
      BY <1>0, <2>2, OpensShape
    <3>2. Program[req'[r].op] \in Seq(Steps)
      BY <1>0, ProgramSteps
    <3>3. PICK i \in DOMAIN Program[req'[r].op]: Program[req'[r].op][i] = "check"
      BY DEF Checks, Range
    <3>4. i \in 1..Left(r)' /\ todo'[r][i] = "check"
      BY <3>1, <3>2, <3>3 DEF Left
    <3> QED
      BY <3>1, <3>4
  <2> QED
    BY <2>1, <2>2
<1>2. Same(r) \/ Acts(r) \/ (req'[r] = req[r] /\ before'[r] = before[r] /\ outcome'[r] = outcome[r]
                               /\ outcome[r] = "ok")
  BY <1>0, <1>1, Courses DEF Running
<1>3. req'[r] = req[r] /\ before'[r] = before[r]
  BY <1>0, <1>2, ActShape, MoveShape DEF Same
<1>4. p \in Projects /\ u \in Users /\ p = req[r].project /\ u = req[r].user
  BY <1>0, <1>3 DEF ControlInv, Aimed
<1>5. /\ q \in Reqs /\ q \in Leavers(p, u) /\ outcome[q] = "ok" /\ Began(q) /\ q \in before[r]
  <2>1. q \in before[r] /\ outcome'[q] = "ok"
    BY <1>3 DEF Done
  <2>2. Ended(q) /\ q \in Reqs
    BY <1>0, <2>1 DEF TimeOK
  <2> QED
    BY <2>1, <2>2, LeftAlready
<1>6. ASSUME GaveLater(q, p, u) PROVE GaveLater(q, p, u)'
  BY <1>4, <1>5, <1>6, GaveLaterStays
<1>7. ASSUME outcome[r] = "ok" \/ (Running(r) /\ \A i \in 1..Left(r): todo[r][i] # "check")
      PROVE  GaveLater(q, p, u)
  <2>1. Let(r)
    BY <1>3, <1>7 DEF OutInv
  <2> QED
    BY <1>4, <1>5, <2>1 DEF Let, Done
<1>8. CASE ~Acts(r)
  BY <1>2, <1>6, <1>7, <1>8 DEF Same, Running, Left
<1>9. CASE Acts(r) /\ Head(todo[r]) # "check"
  BY <1>0, <1>3, <1>6, <1>7, <1>9, LastCheck
<1>10. CASE Acts(r) /\ Head(todo[r]) = "check"
  <2>1. access[p][u] # "none"
    BY <1>4, <1>10, Checked DEF Running
  <2>2. GaveLater(q, p, u)
    BY <1>4, <1>5, <2>1 DEF OutInv
  <2> QED
    BY <1>6, <2>2
<1> QED
  BY <1>8, <1>9, <1>10

LEMMA OutInvStep ==
    ASSUME ControlOK, ControlInv, DbOK, [Next]_vars, StrayInv, OutInv
    PROVE  OutInv'
<1>1. \A p \in Projects, u \in Users: access'[p][u] # "none" =>
        \A q \in Leavers(p, u)': outcome'[q] = "ok" => GaveLater(q, p, u)'
  BY OutStays
<1>2. ASSUME NEW r \in Reqs, Checks(req'[r].op),
             \/ outcome'[r] = "ok"
             \/ Running(r)' /\ \A i \in 1..Left(r)': todo'[r][i] # "check"
      PROVE  Let(r)'
  BY <1>2, LetStep DEF Let
<1> QED
  BY <1>1, <1>2 DEF OutInv

LEMMA OutInvInit == Init => OutInv
BY DEF Init, ProjectsInit, OutInv, Checks, NoInput, Program

LEMMA OutHolds == OutInv => RevokedStayOut
BY DEF OutInv, RevokedStayOut, Checks, Let, Leavers, GaveLater

-----------------------------------------------------------------------------
(* Mappings *)

Row == [by: Reqs \union {"seed"}, confirmed: BOOLEAN]
Marked(S) == {[m EXCEPT !.confirmed = TRUE]: m \in S}

LEMMA OnceCount ==
    ASSUME NEW S, NEW T, Once(S), Once(T), Bys(S) = Bys(T)
    PROVE  Cardinality(S) = Cardinality(T)
<1>1. ASSUME NEW U, Once(U) PROVE Cardinality(U) = Cardinality(Bys(U))
  <2> DEFINE f == [m \in U |-> m.by]
  <2>1. f \in Surjection(U, Bys(U))
    BY DEF Surjection, Bys
  <2>2. f \in Injection(U, Bys(U))
    BY <1>1 DEF Injection, IsInjective, Bys, Once
  <2>3. IsFiniteSet(U)
    BY <1>1 DEF Once
  <2> HIDE DEF f
  <2> QED
    BY <2>1, <2>2, <2>3, FS_Surjection
<1> QED
  BY <1>1

LEMMA OnceMarked ==
    ASSUME NEW S \in SUBSET Row
    PROVE  /\ Bys(Marked(S)) = Bys(S)
           /\ Once(S) => Once(Marked(S))
           /\ S = {} => Marked(S) = {}
<1> DEFINE Mark(m) == [m EXCEPT !.confirmed = TRUE]
<1>1. \A m \in S: Mark(m).by = m.by
  BY DEF Row
<1>2. Marked(S) = {Mark(m): m \in S}
  BY DEF Marked
<1> HIDE DEF Mark
<1>3. Bys(Marked(S)) = Bys(S)
  BY <1>1, <1>2 DEF Bys
<1>4. ASSUME Once(S) PROVE Once(Marked(S))
  <2> DEFINE f == [m \in S |-> Mark(m)]
  <2>1. f \in Surjection(S, Marked(S)) /\ IsFiniteSet(S)
    BY <1>2, <1>4 DEF Surjection, Once
  <2> HIDE DEF f
  <2>2. IsFiniteSet(Marked(S))
    BY <2>1, FS_Surjection
  <2>3. \A m, n \in S: m.by = n.by => m = n
    BY <1>4 DEF Once
  <2>4. \A m, n \in Marked(S): m.by = n.by => m = n
    BY <1>1, <1>2, <2>3
  <2> QED
    BY <2>2, <2>4 DEF Once
<1> QED
  BY <1>2, <1>3, <1>4

\* What a step does to the mappings of a project.
LEMMA MapsChange ==
    ASSUME ControlOK, ControlInv, DbOK, [Next]_vars,
           NEW p \in Projects, maps'[p] # maps[p]
    PROVE  \/ p = Seeded /\ maps'[p] = {SeedMapping} /\ \A r \in Reqs: ~Began(r)
           \/ \E r \in On(p, {"save"}):
                /\ Acts(r) /\ DeleteMappings(r) /\ Running(r) /\ Left(r) = 4
                /\ maps'[p] = {}
           \/ \E r \in On(p, {"save"}):
                /\ Acts(r) /\ InsertMappingsOf(r) /\ Running(r) /\ Left(r) = 3
                /\ Running(r)' /\ Left(r)' = 2
                /\ maps'[p] = maps[p] \union {[by |-> r, confirmed |-> FALSE]}
           \/ /\ maps'[p] = Marked(maps[p])
              /\ \E r \in Reqs: Acts(r) /\ MarkMappings(r)
<1>0. TimeOK /\ maps \in [Projects -> SUBSET Row] /\ outcome \in [Reqs -> Outcomes]
  BY DEF ControlInv, DbOK, ControlOK, Row
<1>1. CASE \A r \in Reqs: ~Acts(r)
  <2>1. /\ InsertUsers \/ InsertCompanies \/ InsertProjects \/ InsertAccess \/ InsertMappings
        /\ seed # <<>> /\ \A r \in Reqs: ~Began(r)
    BY <1>1, SeedChange DEF dbVars
  <2>2. InsertMappings
    BY <1>0, <2>1 DEF InsertUsers, InsertCompanies, InsertProjects, InsertMappings, InsertAccess
  <2> QED
    BY <1>0, <2>1, <2>2 DEF InsertMappings
<1>2. ASSUME NEW r \in Reqs, Acts(r)
      PROVE  \/ /\ r \in On(p, {"save"})
                /\ DeleteMappings(r) /\ Running(r) /\ Left(r) = 4
                /\ maps'[p] = {}
             \/ /\ r \in On(p, {"save"})
                /\ InsertMappingsOf(r) /\ Running(r) /\ Left(r) = 3
                /\ Running(r)' /\ Left(r)' = 2
                /\ maps'[p] = maps[p] \union {[by |-> r, confirmed |-> FALSE]}
             \/ maps'[p] = Marked(maps[p]) /\ MarkMappings(r)
  <2>1. DeleteMappings(r) \/ InsertMappingsOf(r) \/ MarkMappings(r)
    BY <1>2, ActMaps
  <2>2. Running(r) /\ Further(r) /\ Left(r) \in Nat
    BY <1>0, <1>2, Gait
  <2>3. CASE DeleteMappings(r)
    <3>1. Head(todo[r]) = "deleteMappings" /\ req[r].op = "save"
      BY <2>2, <2>3, Owner DEF DeleteMappings, At
    <3>2. Left(r) = 4
      BY <2>2, <3>1, Turns
    <3>3. p = req[r].project /\ maps'[p] = {}
      BY <1>0, <2>3 DEF DeleteMappings
    <3> QED
      BY <2>2, <2>3, <3>1, <3>2, <3>3 DEF On
  <2>4. CASE InsertMappingsOf(r)
    <3>1. Head(todo[r]) = "insertMappings" /\ req[r].op = "save" /\ Skip(r, 1)
      BY <2>2, <2>4, Owner DEF InsertMappingsOf, At
    <3>2. Left(r) = 3
      BY <2>2, <3>1, Turns
    <3>3. Running(r)' /\ Left(r)' = 2
      <4>1. 1 <= Left(r)
        BY <3>2
      <4> QED
        BY <2>2, <3>1, <3>2, <4>1, SkipMoves DEF Running
    <3>4. p = req[r].project /\ maps'[p] = maps[p] \union {[by |-> r, confirmed |-> FALSE]}
      <4> DEFINE new == [by |-> r, confirmed |-> FALSE]
      <4>1. maps' = [maps EXCEPT ![req[r].project] = @ \union {new}]
        BY <2>4 DEF InsertMappingsOf
      <4> HIDE DEF new
      <4>2. p = req[r].project /\ maps'[p] = maps[p] \union {new}
        BY <1>0, <4>1
      <4> QED
        BY <4>2 DEF new
    <3> QED
      BY <2>2, <2>4, <3>1, <3>2, <3>3, <3>4 DEF On
  <2>5. CASE MarkMappings(r)
    <3>1. maps' = [maps EXCEPT ![req[r].project] = Marked(maps[req[r].project])]
      BY <1>0, <2>5 DEF MarkMappings, Marked
    <3> QED
      BY <1>0, <2>5, <3>1
  <2> QED
    BY <2>1, <2>3, <2>4, <2>5
<1> QED
  BY <1>1, <1>2 DEF On

-----------------------------------------------------------------------------
(* The last save *)

\* The three parts of MapsInv.
OfSaves(p) ==
    \A m \in maps[p]: m.by # "seed" =>
        m.by \in On(p, {"save"}) /\ (Running(m.by) => Left(m.by) <= 2)
LastSave(r) ==
    req[r].op = "save" /\ Alone(r) =>
        /\ Running(r) /\ Left(r) = 3 => ~req[r].empty /\ maps[req[r].project] = {}
        /\ outcome[r] = "ok" \/ (Running(r) /\ Left(r) <= 2) =>
            Bys(maps[req[r].project]) = IF req[r].empty THEN {} ELSE {r}

LEMMA MapsParts ==
    MapsInv <=>
        /\ \A p \in Projects: Once(maps[p]) /\ OfSaves(p)
        /\ \A r \in Reqs: LastSave(r)
BY DEF MapsInv, OfSaves, LastSave

LEMMA OnceStep ==
    ASSUME ControlOK, ControlInv, DbOK, [Next]_vars, NEW p \in Projects,
           Once(maps[p]), OfSaves(p)
    PROVE  Once(maps'[p])
<1>0. maps[p] \in SUBSET Row
  BY DEF DbOK, Row
<1>1. CASE maps'[p] = maps[p]
  BY <1>1
<1>2. CASE maps'[p] = {SeedMapping} \/ maps'[p] = {}
  <2>1. \A m, n \in maps'[p]: m = n
    BY <1>2
  <2>2. IsFiniteSet({SeedMapping}) /\ IsFiniteSet({})
    BY FS_Singleton, FS_EmptySet
  <2>3. IsFiniteSet(maps'[p])
    BY <1>2, <2>2
  <2> QED
    BY <2>1, <2>3 DEF Once
<1>3. ASSUME NEW r \in On(p, {"save"}), Running(r), Left(r) = 3,
             maps'[p] = maps[p] \union {[by |-> r, confirmed |-> FALSE]}
      PROVE  Once(maps'[p])
  <2> DEFINE new == [by |-> r, confirmed |-> FALSE]
  <2>1. r # "seed" /\ new.by = r
    BY <1>3, LegacyAssumption DEF On
  <2>2. \A m \in maps[p]: m.by # r
    BY <1>3, <2>1 DEF OfSaves
  <2>3. IsFiniteSet(maps[p] \union {new})
    BY FS_AddElement DEF Once
  <2>4. maps'[p] = maps[p] \union {new}
    BY <1>3
  <2> HIDE DEF new
  <2> QED
    BY <2>1, <2>2, <2>3, <2>4 DEF Once
<1>4. CASE maps'[p] = Marked(maps[p])
  BY <1>0, <1>4, OnceMarked
<1> QED
  BY <1>1, <1>2, <1>3, <1>4, MapsChange

\* A save that is at its last two awaits stays there until it is over.
LEMMA SaveStays ==
    ASSUME ControlOK, ControlInv, [Next]_vars, NEW q \in Reqs, req[q].op = "save",
           Running(q) => Left(q) <= 2, Running(q)'
    PROVE  Left(q)' <= 2
<1>1. TimeOK /\ Began(q)
  BY Begun DEF ControlInv, Program
<1>2. CASE Acts(q)
  <2>1. /\ Running(q) /\ Left(q) \in Nat
        /\ Left(q)' = Left(q) - 1 \/ Left(q)' = Left(q) - 2
    BY <1>1, <1>2, Stride DEF Running
  <2> QED
    BY <2>1
<1>3. CASE ~Acts(q)
  BY <1>1, <1>3, Courses, OpensShape, AnswersShape DEF Same, Running, Left, Began
<1> QED
  BY <1>2, <1>3

LEMMA OfSavesStep ==
    ASSUME ControlOK, ControlInv, DbOK, [Next]_vars, NEW p \in Projects, OfSaves(p)
    PROVE  OfSaves(p)'
<1>1. On(p, {"save"}) \subseteq On(p, {"save"})'
  BY StillOn DEF Program
<1>2. \A q \in On(p, {"save"}): (Running(q) => Left(q) <= 2) /\ Running(q)' => Left(q)' <= 2
  BY SaveStays DEF On
<1>3. ASSUME \A m \in maps'[p]: m.by # "seed" => m.by \in Bys(maps[p]) PROVE OfSaves(p)'
  <2>1. \A b \in Bys(maps[p]): b # "seed" =>
            b \in On(p, {"save"}) /\ (Running(b) => Left(b) <= 2)
    BY DEF OfSaves, Bys
  <2>2. \A m \in maps'[p]: m.by # "seed" =>
            m.by \in On(p, {"save"}) /\ (Running(m.by)' => Left(m.by)' <= 2)
    BY <1>2, <1>3, <2>1
  <2> QED
    BY <1>1, <2>2 DEF OfSaves
<1>4. CASE maps'[p] = maps[p]
  BY <1>3, <1>4 DEF Bys
<1>5. CASE maps'[p] = {SeedMapping} \/ maps'[p] = {}
  BY <1>5 DEF OfSaves, SeedMapping
<1>6. ASSUME NEW r \in On(p, {"save"}), Left(r)' = 2,
             maps'[p] = maps[p] \union {[by |-> r, confirmed |-> FALSE]}
      PROVE  OfSaves(p)'
  <2> DEFINE new == [by |-> r, confirmed |-> FALSE]
  <2>1. maps'[p] = maps[p] \union {new} /\ new.by = r
    BY <1>6
  <2> HIDE DEF new
  <2>2. ASSUME NEW m \in maps'[p], m.by # "seed"
        PROVE  m.by \in On(p, {"save"}) /\ (Running(m.by)' => Left(m.by)' <= 2)
    <3>1. CASE m = new
      BY <1>6, <2>1, <3>1
    <3>2. CASE m \in maps[p]
      BY <1>2, <2>2, <3>2 DEF OfSaves
    <3> QED
      BY <2>1, <2>2, <3>1, <3>2
  <2> QED
    BY <1>1, <2>2 DEF OfSaves
<1>7. CASE maps'[p] = Marked(maps[p])
  <2>1. Bys(maps'[p]) = Bys(maps[p])
    BY <1>7, OnceMarked DEF DbOK, Row
  <2> QED
    BY <1>3, <2>1 DEF Bys
<1> QED
  BY <1>4, <1>5, <1>6, <1>7, MapsChange

\* While a save is the only one of its project under way, only it and marks
\* change the mappings.
LEMMA AloneMaps ==
    ASSUME ControlOK, ControlInv, DbOK, [Next]_vars, NEW r \in Reqs, NEW p \in Projects,
           r \in On(p, {"save"}), Alone(r), ~Acts(r)
    PROVE  Bys(maps'[p]) = Bys(maps[p]) /\ (maps[p] = {} => maps'[p] = {})
<1>1. Began(r) /\ req[r].project = p
  BY StillOn DEF On, Program
<1>2. ASSUME NEW q \in On(p, {"save"}), Acts(q), Running(q) PROVE FALSE
  <2>1. q # r /\ q \in Reqs
    BY <1>2 DEF On
  <2>2. q \in before[r]
    BY <1>1, <1>2, <2>1 DEF Alone
  <2> QED
    BY <1>2, <2>1, <2>2 DEF ControlInv, TimeOK, Ended, Running
<1>3. maps'[p] = maps[p] \/ maps'[p] = Marked(maps[p])
  BY <1>1, <1>2, MapsChange
<1> QED
  BY <1>3, OnceMarked DEF DbOK, Row

LEMMA LastSaveStep ==
    ASSUME ControlOK, ControlInv, DbOK, [Next]_vars, NEW r \in Reqs, LastSave(r)
    PROVE  LastSave(r)'
<1>0. TimeOK
  BY DEF ControlInv
<1> SUFFICES ASSUME req'[r].op = "save", Alone(r)' PROVE LastSave(r)'
  BY DEF LastSave
<1>1. CASE Opens(r)
  <2>1. Len(Program["save"]) = 5
    BY DEF Program, SaveSteps
  <2>2. outcome'[r] = "running" /\ Left(r)' = 5
    BY <1>0, <1>1, <2>1, OpensShape
  <2> QED
    BY <2>2 DEF LastSave
<1>2. CASE ~Opens(r)
  <2>1. ~Answers(r)
    BY <1>0, AnswersShape
  <2>2. req[r].op = "save"
    BY <1>0, <1>2, <2>1, Courses, ActShape, MoveShape DEF Same
  <2>3. PICK p \in Projects: p = req[r].project
    BY <2>2 DEF ControlInv, Aimed, Program
  <2>4. req'[r] = req[r] /\ before'[r] = before[r] /\ Began(r)
    BY <2>2, <2>3, Steady DEF Program
  <2>5. Alone(r)
    <3>1. On(p, {"save"}) \subseteq On(p, {"save"})'
      BY StillOn DEF Program
    <3>2. \A q \in On(p, {"save"})' \ {r}: q \in before'[r]
      BY <2>3, <2>4 DEF Alone
    <3> QED
      BY <2>3, <2>4, <3>1, <3>2 DEF Alone
  <2>6. r \in On(p, {"save"}) /\ req[r].empty \in BOOLEAN
    BY <2>2, <2>3 DEF On, ControlInv, Aimed
  <2>7. /\ Running(r) /\ Left(r) = 3 => ~req[r].empty /\ maps[p] = {}
        /\ outcome[r] = "ok" \/ (Running(r) /\ Left(r) <= 2) =>
             Bys(maps[p]) = IF req[r].empty THEN {} ELSE {r}
    BY <2>2, <2>3, <2>5 DEF LastSave
  <2>8. ASSUME Running(r)' /\ Left(r)' = 3 => ~req[r].empty /\ maps'[p] = {},
               outcome'[r] = "ok" \/ (Running(r)' /\ Left(r)' <= 2) =>
                    Bys(maps'[p]) = IF req[r].empty THEN {} ELSE {r}
        PROVE  LastSave(r)'
    BY <2>3, <2>4, <2>8 DEF LastSave, Bys
  <2>9. CASE ~Acts(r)
    <3>1. Bys(maps'[p]) = Bys(maps[p]) /\ (maps[p] = {} => maps'[p] = {})
      BY <2>5, <2>6, <2>9, AloneMaps
    <3>2. Same(r) \/ (outcome'[r] = outcome[r] /\ ~Running(r)) \/ outcome'[r] = "lost"
      BY <1>2, <2>1, <2>9, Courses
    <3> QED
      BY <2>7, <2>8, <3>1, <3>2 DEF Same, Running, Left
  <2>10. CASE Acts(r)
    <3>1. Running(r) /\ Left(r) \in 1..5 /\ Head(todo[r]) = <<"writeStatus", "readStatus",
                        "insertMappings", "deleteMappings", "check">>[Left(r)]
      BY <1>0, <2>2, <2>10, Gait, Turns
    <3>2. CASE ~(outcome'[r] \in {"running", "ok"})
      BY <2>8, <3>2 DEF Running
    <3>3. CASE outcome'[r] \in {"running", "ok"}
      <4>1. /\ ~Fail(r)
            /\ Running(r)' =>
                \/ Left(r)' = Left(r) - 1
                \/ /\ Left(r)' = Left(r) - 2
                   /\ Head(todo[r]) \in {"findUser", "findCompany", "deleteMappings"}
            /\ outcome'[r] = "ok" =>
                \/ Left(r) = 1
                \/ /\ Left(r) = 2
                   /\ Head(todo[r]) \in {"findUser", "findCompany", "deleteMappings"}
                \/ Head(todo[r]) \in {"findOwn", "softDelete"}
        BY <1>0, <2>10, <3>3, Stride
      <4>2. CASE Left(r) = 5
        <5>1. Running(r)' => Left(r)' = 4
          BY <3>1, <4>1, <4>2
        <5>2. outcome'[r] # "ok"
          BY <3>1, <4>1, <4>2
        <5> QED
          BY <2>8, <5>1, <5>2
      <4>3. CASE Left(r) = 4
        <5>1. DeleteMappings(r)
          BY <2>10, <3>1, <4>1, <4>3, Deeds
        <5>2. maps'[p] = {}
          BY <2>3, <5>1 DEF DeleteMappings, DbOK
        <5>3. outcome'[r] # "ok"
          BY <3>1, <4>1, <4>3
        <5>4. Running(r)' /\ (IF req[r].empty THEN Left(r)' = 2 ELSE Left(r)' = 3)
          <6>1. 1 <= Left(r) /\ 2 <= Left(r) /\ Left(r) - 2 = 2 /\ Left(r) - 1 = 3
            BY <4>3
          <6>2. IF req[r].empty THEN Skip(r, 2) ELSE Skip(r, 1)
            BY <5>1 DEF DeleteMappings
          <6>3. Skip(r, 2) => Left(r)' = 2
            BY <3>1, <6>1, SkipMoves
          <6>4. Skip(r, 1) => Left(r)' = 3
            BY <3>1, <6>1, SkipMoves
          <6> QED
            BY <3>3, <5>3, <6>2, <6>3, <6>4 DEF Running
        <5> QED
          BY <2>6, <2>8, <5>2, <5>3, <5>4 DEF Bys
      <4>4. CASE Left(r) = 3
        <5>1. InsertMappingsOf(r)
          BY <2>10, <3>1, <4>1, <4>4, Deeds
        <5>2. ~req[r].empty /\ maps[p] = {}
          BY <2>7, <3>1, <4>4
        <5> DEFINE new == [by |-> r, confirmed |-> FALSE]
        <5>3. maps' = [maps EXCEPT ![p] = @ \union {new}]
          BY <2>3, <5>1 DEF InsertMappingsOf
        <5>4. new.by = r
          OBVIOUS
        <5> HIDE DEF new
        <5>5. maps'[p] = {new}
          BY <5>2, <5>3 DEF DbOK
        <5>6. Bys(maps'[p]) = {r}
          BY <5>4, <5>5 DEF Bys
        <5>7. ~(Running(r)' /\ Left(r)' = 3)
          BY <3>1, <4>1, <4>4
        <5> QED
          BY <2>8, <5>2, <5>6, <5>7
      <4>5. CASE Left(r) <= 2
        <5>1. maps' = maps
          <6>1. ASSUME maps' # maps PROVE FALSE
            <7>1. DeleteMappings(r) \/ InsertMappingsOf(r) \/ MarkMappings(r)
              BY <2>10, <6>1, ActMaps
            <7>2. Head(todo[r]) \in {"deleteMappings", "insertMappings", "markMappings"}
              BY <7>1 DEF DeleteMappings, InsertMappingsOf, MarkMappings, At
            <7>3. Left(r) \in {1, 2}
              BY <3>1, <4>5
            <7> QED
              BY <3>1, <7>2, <7>3
          <6> QED
            BY <6>1
        <5>2. Running(r)' => Left(r)' # 3
          BY <3>1, <4>1, <4>5
        <5> QED
          BY <2>7, <2>8, <3>1, <4>5, <5>1, <5>2
      <4> QED
        BY <3>1, <4>2, <4>3, <4>4, <4>5
    <3> QED
      BY <3>2, <3>3
  <2> QED
    BY <2>9, <2>10
<1> QED
  BY <1>1, <1>2

LEMMA MapsInvStep ==
    ASSUME ControlOK, ControlInv, DbOK, [Next]_vars, MapsInv
    PROVE  MapsInv'
<1>1. ASSUME NEW p \in Projects PROVE Once(maps'[p]) /\ OfSaves(p)'
  BY MapsParts, OnceStep, OfSavesStep
<1>2. ASSUME NEW r \in Reqs PROVE LastSave(r)'
  BY MapsParts, LastSaveStep
<1> QED
  BY <1>1, <1>2 DEF MapsInv, OfSaves, LastSave, Once

LEMMA MapsInvInit == Init => MapsInv
<1> SUFFICES ASSUME Init PROVE MapsInv
  OBVIOUS
<1>1. \A p \in Projects: maps[p] = {}
  BY DEF Init, ProjectsInit
<1>2. \A r \in Reqs: req[r].op = "none"
  BY DEF Init, ProjectsInit, NoInput
<1>3. Once({})
  BY FS_EmptySet DEF Once
<1> QED
  BY <1>1, <1>2, <1>3 DEF MapsInv

LEMMA MapsHolds == MapsInv => LastSaveIsShown
BY DEF MapsInv, LastSaveIsShown, Alone, Bys

-----------------------------------------------------------------------------
(* What readers are told *)

\* What a reader has noted still fits what it will read.
Fits(r) ==
    Running(r) /\ ~Disturbed(r) /\ ~Strayed =>
        /\ req[r].op = "detail" /\ Left(r) = 1 =>
            Once(note[r]) /\ Bys(note[r]) = Bys(maps[req[r].project])
        /\ (req[r].op = "overview" /\ Left(r) = 1) \/ (req[r].op = "list" /\ Left(r) <= 2) =>
            note[r] \subseteq {p \in Projects: Exists(p)}

LEMMA ReadParts ==
    ReadInv <=> ReadsAgree /\ \A r \in Reqs: Fits(r)
BY DEF ReadInv, Fits

LEMMA DisturbedStays ==
    ASSUME ControlOK, ControlInv, [Next]_vars, NEW r \in Reqs
    PROVE  (Disturbed(r) => Disturbed(r)') /\ (Strayed => Strayed')
<1>1. ASSUME NEW q \in Reqs, NEW x \in Reqs, Overlap(q, x),
             req[q].op \in {"save", "delete", "grant"}
      PROVE  Overlap(q, x)' /\ req'[q].op = req[q].op
  <2>1. Began(q)
    BY <1>1 DEF Overlap
  <2> QED
    BY <1>1, <2>1, NextGrows, StillOverlap DEF Grows
<1>2. Disturbed(r) => Disturbed(r)'
  BY <1>1 DEF Disturbed
<1>3. Strayed => Strayed'
  <2>1. ASSUME NEW d \in Reqs, NEW g \in Reqs, Overlap(d, g), req[d].op = "delete",
               req[g].op = "grant"
        PROVE  Overlap(d, g)' /\ req'[d].op = "delete" /\ req'[g].op = "grant"
    <3>1. Overlap(g, d)
      BY <2>1 DEF Overlap
    <3> QED
      BY <1>1, <2>1, <3>1
  <2> QED
    BY <2>1 DEF Strayed
<1> QED
  BY <1>2, <1>3

LEMMA AgreeStep ==
    ASSUME ControlOK, ControlInv, DbOK, [Next]_vars, MapsInv, ReadInv
    PROVE  ReadsAgree'
<1>0. TimeOK /\ ReadsAgree /\ torn \subseteq Reqs
  BY DEF ControlInv, ReadInv, TimeOK
<1>1. ASSUME NEW r \in Reqs, Disturbed(r) \/ Strayed PROVE Disturbed(r)' \/ Strayed'
  BY <1>1, DisturbedStays
<1>2. ASSUME NEW r \in torn PROVE Disturbed(r) \/ Strayed
  BY <1>0, <1>2 DEF ReadsAgree, Disturbed, Strayed
<1>3. ASSUME NEW r \in torn' \ torn PROVE r \in Reqs /\ (Disturbed(r) \/ Strayed)
  <2>1. PICK q \in Reqs: Acts(q)
    BY <1>0, <1>3, Kinds, StartUpShape, StillShape, OpensShape, AnswersShape, CrashShape
    DEF reqVars
  <2>2. CountMappings(q) \/ FindProjects(q)
    <3>1. CASE ProjectStep(q) /\ ~Begin(q)
      BY <1>3, <3>1 DEF ProjectStep, FindUser, CreateUser, FindCompany, CreateCompany,
           InsertProject, CheckAccess, FindProject, UpdateProject, FindAccess,
           WriteAccess, DeleteMappings, InsertMappingsOf, ReadStatus, WriteStatus,
           MarkMappings, RevokeAccess, DeleteAccess, DeleteProject, FindMappings,
           FindOwn, CountProjects, Quiet, Fail
    <3>2. CASE FileMove(q)
      BY <1>3, <3>2 DEF FileMove, PutObject, PutFails, InsertFile, FindFile, GetObject,
           SoftDelete, Recheck, SignUrl, DeleteObject, DeleteFails, Quiet
    <3> QED
      BY <2>1, <3>1, <3>2 DEF Acts
  <2>3. r = q
    BY <1>3, <2>2 DEF CountMappings, FindProjects, Answer
  <2>4. Running(r) /\ Fits(r)
    BY <1>0, <2>1, <2>3, Gait, ReadParts
  <2>5. CASE CountMappings(q)
    <3>1. req[r].op = "detail" /\ Head(todo[r]) = "countMappings"
      BY <2>1, <2>3, <2>4, <2>5, Owner DEF CountMappings, At
    <3>2. Left(r) = 1
      BY <2>1, <2>3, <2>4, <3>1, Turns
    <3>3. Cardinality(note[r]) # Cardinality(maps[req[r].project])
      BY <1>3, <2>3, <2>5 DEF CountMappings, Answer
    <3>4. Once(maps[req[r].project])
      BY <2>1, <2>3, <3>1 DEF MapsInv, ControlInv, Aimed, Program
    <3> QED
      BY <2>1, <2>3, <2>4, <3>1, <3>2, <3>3, <3>4, OnceCount DEF Fits
  <2>6. CASE FindProjects(q)
    <3>1. req[r].op \in {"overview", "list"} /\ Head(todo[r]) = "findProjects"
      BY <2>1, <2>3, <2>4, <2>6, Owner DEF FindProjects, At
    <3>2. Left(r) = 1
      BY <2>1, <2>3, <2>4, <3>1, Turns
    <3>3. Cardinality(Found(r)) # Cardinality(note[r])
      BY <1>3, <2>3, <2>6 DEF FindProjects, Answer
    <3>4. ~(note[r] \subseteq {p \in Projects: Exists(p)})
      BY <3>3 DEF Found
    <3> QED
      BY <2>1, <2>3, <2>4, <3>1, <3>2, <3>4 DEF Fits
  <2> QED
    BY <2>2, <2>5, <2>6
<1>4. \A r \in torn': r \in Reqs /\ (Disturbed(r)' \/ Strayed')
  BY <1>0, <1>1, <1>2, <1>3
<1> QED
  BY <1>4 DEF ReadsAgree, Disturbed, Strayed

\* While a reader runs undisturbed, no mapping comes or goes, nor does a project.
LEMMA QuietMaps ==
    ASSUME ControlOK, ControlInv, DbOK, [Next]_vars, NEW r \in Reqs, Running(r), ~Disturbed(r),
           NEW p \in Projects
    PROVE  /\ Bys(maps'[p]) = Bys(maps[p])
           /\ Exists(p) => Exists(p)'
<1>1. ASSUME NEW q \in Reqs, Running(q) PROVE req[q].op \notin {"save", "delete"}
  BY <1>1, RunningOverlap DEF Disturbed
<1>2. maps'[p] = maps[p] \/ maps'[p] = Marked(maps[p])
  BY <1>1, MapsChange DEF On, Began, Running
<1>3. Exists(p) => Exists(p)'
  BY <1>1, ProjectChange DEF On, Began, Running, Exists, Statuses
<1> QED
  BY <1>2, <1>3, OnceMarked DEF DbOK, Row

LEMMA DetailFits ==
    ASSUME ControlOK, ControlInv, DbOK, [Next]_vars, MapsInv, NEW r \in Reqs, Fits(r),
           Running(r)', ~Disturbed(r)', ~Strayed', req'[r].op = "detail", Left(r)' = 1
    PROVE  Once(note'[r]) /\ Bys(note'[r]) = Bys(maps'[req'[r].project])
<1>0. TimeOK /\ ~Disturbed(r) /\ ~Strayed
  BY DisturbedStays DEF ControlInv
<1>1. ~Opens(r) /\ ~Answers(r)
  <2>1. Len(Program["detail"]) = 4
    BY DEF Program, DetailSteps
  <2>2. Opens(r) => Left(r)' = Len(Program[req'[r].op])
    BY <1>0, OpensShape
  <2> QED
    BY <1>0, <2>1, <2>2, AnswersShape
<1>2. Same(r) \/ Acts(r)
  BY <1>1, Courses DEF Running
<1>3. Running(r) /\ req'[r] = req[r] /\ req[r].op = "detail" /\ Left(r) \in Nat
  <2>1. CASE Same(r)
    BY <2>1, Here DEF Same, Running
  <2>2. CASE Acts(r)
    BY <1>0, <2>2, Gait, ActShape, MoveShape
  <2> QED
    BY <1>2, <2>1, <2>2
<1>4. PICK p \in Projects: p = req[r].project
  BY <1>3 DEF ControlInv, Aimed, Program
<1>5. CASE Same(r)
  <2>1. Once(note[r]) /\ Bys(note[r]) = Bys(maps[p])
    BY <1>0, <1>3, <1>4, <1>5 DEF Fits, Same, Left
  <2>2. note'[r] = note[r] /\ Bys(maps'[p]) = Bys(maps[p])
    BY <1>0, <1>3, <1>5, QuietMaps DEF Same
  <2>3. maps'[req'[r].project] = maps'[p]
    BY <1>3, <1>4
  <2> QED
    BY <2>1, <2>2, <2>3
<1>6. CASE Acts(r)
  <2>1. /\ ~Fail(r)
        /\ \/ Left(r)' = Left(r) - 1
           \/ /\ Left(r)' = Left(r) - 2
              /\ Head(todo[r]) \in {"findUser", "findCompany", "deleteMappings"}
    BY <1>0, <1>6, Stride DEF Running
  <2>2. Left(r) \in 1..4 /\ Head(todo[r]) = <<"countMappings", "findMappings", "check",
                                             "findProject">>[Left(r)]
    BY <1>3, Turns
  <2>3. Head(todo[r]) = "findMappings"
    BY <2>1, <2>2
  <2>4. FindMappings(r)
    BY <1>6, <2>1, <2>3, Deeds
  <2>5. note'[r] = maps[p] /\ maps' = maps
    BY <1>0, <1>4, <2>4 DEF FindMappings, TimeOK, dbVars, Running
  <2>6. maps'[req'[r].project] = maps[p] /\ Once(maps[p])
    BY <1>3, <1>4, <2>5 DEF MapsInv
  <2> QED
    BY <2>5, <2>6
<1> QED
  BY <1>2, <1>5, <1>6

LEMMA OwnFits ==
    ASSUME ControlOK, ControlInv, DbOK, [Next]_vars, StrayInv, NEW r \in Reqs, Fits(r),
           Running(r)', ~Disturbed(r)', ~Strayed',
           (req'[r].op = "overview" /\ Left(r)' = 1) \/ (req'[r].op = "list" /\ Left(r)' <= 2)
    PROVE  note'[r] \subseteq {p \in Projects: Exists(p)'}
<1>0. TimeOK /\ ~Disturbed(r) /\ ~Strayed
  BY DisturbedStays DEF ControlInv
<1>1. ~Opens(r) /\ ~Answers(r)
  <2>1. Len(Program["overview"]) = 2 /\ Len(Program["list"]) = 3
    BY DEF Program, OverviewSteps, ListSteps
  <2>2. Opens(r) => Left(r)' = Len(Program[req'[r].op])
    BY <1>0, OpensShape
  <2>3. ASSUME Opens(r) PROVE FALSE
    <3>1. req'[r].op = "overview" => Left(r)' = 2
      BY <2>1, <2>2, <2>3
    <3>2. req'[r].op = "list" => Left(r)' = 3
      BY <2>1, <2>2, <2>3
    <3> QED
      BY <3>1, <3>2
  <2> QED
    BY <1>0, <2>3, AnswersShape
<1>2. Same(r) \/ Acts(r)
  BY <1>1, Courses DEF Running
<1>3. Running(r) /\ req'[r] = req[r] /\ req[r].op \in {"overview", "list"} /\ Left(r) \in Nat
  <2>1. CASE Same(r)
    BY <2>1, Here DEF Same, Running
  <2>2. CASE Acts(r)
    BY <1>0, <2>2, Gait, ActShape, MoveShape
  <2> QED
    BY <1>2, <2>1, <2>2
<1>4. \A p \in Projects: Exists(p) => Exists(p)'
  BY <1>0, <1>3, QuietMaps
<1>5. ASSUME (req[r].op = "overview" /\ Left(r) = 1) \/ (req[r].op = "list" /\ Left(r) <= 2)
      PROVE  note[r] \subseteq {p \in Projects: Exists(p)}
  BY <1>0, <1>3, <1>5 DEF Fits
<1>6. CASE Same(r)
  <2>1. note'[r] = note[r]
    BY <1>6 DEF Same
  <2>2. note[r] \subseteq {p \in Projects: Exists(p)}
    BY <1>5, <1>6 DEF Same, Left
  <2> QED
    BY <1>4, <2>1, <2>2
<1>7. CASE Acts(r)
  <2>1. /\ ~Fail(r)
        /\ \/ Left(r)' = Left(r) - 1
           \/ /\ Left(r)' = Left(r) - 2
              /\ Head(todo[r]) \in {"findUser", "findCompany", "deleteMappings"}
    BY <1>0, <1>7, Stride DEF Running
  <2>2. /\ req[r].op = "overview" =>
            Left(r) \in 1..2 /\ Head(todo[r]) = <<"findProjects", "findOwn">>[Left(r)]
        /\ req[r].op = "list" =>
            Left(r) \in 1..3
            /\ Head(todo[r]) = <<"findProjects", "countProjects", "findOwn">>[Left(r)]
    BY <1>3, Turns
  <2>3. \/ Head(todo[r]) = "findOwn"
        \/ Head(todo[r]) = "countProjects" /\ req[r].op = "list" /\ Left(r) = 2
    <3>1. Left(r) # 1
      <4>1. Left(r) = 1 => Head(todo[r]) = "findProjects"
        BY <1>3, <2>2
      <4>2. Left(r) = 1 => outcome'[r] = "ok"
        BY <1>7, <2>1, <4>1, Deeds DEF FindProjects, Answer, Skip, ControlOK, Left
      <4> QED
        BY <4>2 DEF Running
    <3> QED
      BY <1>3, <2>2, <3>1
  <2>4. CASE Head(todo[r]) = "findOwn"
    <3>1. FindOwn(r)
      BY <1>7, <2>1, <2>4, Deeds
    <3>2. note'[r] = {p \in Projects: access[p][req[r].user] # "none"} /\ project' = project
      BY <1>0, <3>1 DEF FindOwn, TimeOK, dbVars
    <3>3. req[r].user \in Users
      BY <1>3 DEF ControlInv, Aimed, Program
    <3>4. \A p \in Projects: access[p][req[r].user] # "none" => Exists(p)
      BY <1>0, <3>3, StrayParts DEF Settled, Clash, Strayed, Of, On
    <3> QED
      BY <1>4, <3>2, <3>4
  <2>5. CASE Head(todo[r]) = "countProjects" /\ req[r].op = "list" /\ Left(r) = 2
    <3>1. CountProjects(r)
      BY <1>7, <2>1, <2>5, Deeds
    <3>2. note'[r] = {p \in note[r]: Exists(p)}
      BY <1>0, <3>1 DEF CountProjects, Found, TimeOK
    <3>3. note[r] \subseteq Projects
      BY <1>5, <2>5
    <3> QED
      BY <1>4, <3>2, <3>3
  <2> QED
    BY <2>3, <2>4, <2>5
<1> QED
  BY <1>2, <1>6, <1>7

LEMMA ReadInvStep ==
    ASSUME ControlOK, ControlInv, DbOK, [Next]_vars, StrayInv, MapsInv, ReadInv
    PROVE  ReadInv'
<1>1. ASSUME NEW r \in Reqs PROVE Fits(r)'
  <2>1. Fits(r)
    BY ReadParts
  <2> QED
    BY <2>1, DetailFits, OwnFits DEF Fits
<1>2. ReadsAgree'
  BY AgreeStep
<1> QED
  BY <1>1, <1>2 DEF ReadInv, Fits

LEMMA ReadInvInit == Init => ReadInv
BY DEF Init, ProjectsInit, ReadInv, ReadsAgree, Running

-----------------------------------------------------------------------------
(* All together *)

ProjectsInv ==
    /\ OpenInv /\ StrayInv /\ ReachInv /\ GrantInv /\ OutInv
    /\ MapsInv /\ ReadInv

IInv == Inv /\ ControlInv /\ ProjectsInv

LEMMA IInvInit == Init => IInv
BY InvInit, ControlInvInit, OpenInvInit, StrayInvInit, ReachInvInit, GrantInvInit,
   OutInvInit, MapsInvInit, ReadInvInit DEF IInv, ProjectsInv

LEMMA IInvStep == IInv /\ [Next]_vars => IInv'
<1> SUFFICES ASSUME IInv, [Next]_vars PROVE IInv'
  OBVIOUS
<1>1. ControlOK /\ DbOK /\ ControlInv
  BY DEF IInv, Inv
<1>2. Inv' /\ ControlInv'
  BY <1>1, InvStep, ControlInvStep DEF IInv
<1>3. OpenInv' /\ StrayInv' /\ ReachInv'
  BY <1>1, OpenInvStep, StrayInvStep, ReachInvStep DEF IInv, ProjectsInv
<1>4. GrantInv' /\ OutInv'
  BY <1>1, GrantInvStep, OutInvStep DEF IInv, ProjectsInv
<1>5. MapsInv' /\ ReadInv'
  BY <1>1, MapsInvStep, ReadInvStep DEF IInv, ProjectsInv
<1> QED
  BY <1>2, <1>3, <1>4, <1>5 DEF IInv, ProjectsInv

LEMMA IInvAlways == Spec => []IInv
BY IInvInit, IInvStep, PTL DEF Spec

LEMMA InvTypes == IInv => TypeOK
<1> SUFFICES ASSUME IInv PROVE TypeOK
  OBVIOUS
<1>1. Inv /\ ControlInv
  BY DEF IInv
<1>2. ProjectsTypeOK
  BY <1>1 DEF Inv, DbOK, ControlOK, ProjectsTypeOK
<1>3. \A f \in pending \union objects: req[f].op \in {"upload", "store"}
  BY <1>1 DEF Inv, FileInv, FileTypeOK, SoFar, Uploads
<1> QED
  BY <1>1, <1>2, <1>3 DEF Inv, ControlInv, FileTypeOK, TypeOK

-----------------------------------------------------------------------------
\* Every variable has its type, and an object or a made-up path belongs to an
\* upload (server.py, storage_file_service.py).
THEOREM TypeCorrect == Spec => []TypeOK
BY IInvAlways, InvTypes, PTL

\* A file that is listed has its object, or was uploaded while there was no
\* storage (upload_file_to_project, delete_file).
THEOREM ListedReadable == Spec => []ListedHaveObjects
<1>1. IInv => ListedHaveObjects
  BY DEF IInv, Inv, FileInv
<1> QED
  BY <1>1, IInvAlways, PTL

\* An object without a listed file comes from a fault, an upload under way, a
\* removal that was refused after it had marked the file, or a provider that
\* cannot delete (delete_file, EmergentStorageProvider.delete_object).
THEOREM OrphansExplained == Spec => []OrphansHaveCause
<1>1. IInv => OrphansHaveCause
  BY DEF IInv, Inv, FileInv, Explained, Removed, OrphansHaveCause
<1> QED
  BY <1>1, IInvAlways, PTL

\* A project that nobody has access to was left by its creation, its deletion or
\* the seeding stopping halfway, or by a revocation (create_project inserts the
\* access last, delete_project removes it first).
THEOREM ProjectsReachable == Spec => []ProjectsAreReachable
<1>1. IInv => ProjectsAreReachable
  BY ReachHolds DEF IInv, ProjectsInv
<1> QED
  BY <1>1, IInvAlways, PTL

\* Access to a project that is gone comes from a grant that overlapped its
\* deletion (grant_access checks before it writes, delete_project removes access
\* before the project).
THEOREM StrayExplained == Spec => []StrayAccessHasCause
<1>1. IInv => StrayAccessHasCause
  BY DEF IInv, ProjectsInv, StrayInv
<1> QED
  BY <1>1, IInvAlways, PTL

\* A role that was granted stands until a grant, a revocation or a deletion that
\* was not over by then replaces it, although grant_access finds the document
\* and writes it in two awaits.
THEOREM GrantsKept == Spec => []GrantsAreKept
<1>1. IInv => GrantsAreKept
  BY GrantHolds DEF IInv, ProjectsInv
<1> QED
  BY <1>1, IInvAlways, PTL

\* Who has lost access is answered nothing by a request that checks it and began
\* later, unless a grant or a creation was not over when it was lost
\* (find_user_access, revoke_project_access, delete_project).
THEOREM RevokedOut == Spec => []RevokedStayOut
<1>1. IInv => RevokedStayOut
  BY OutHolds DEF IInv, ProjectsInv
<1> QED
  BY <1>1, IInvAlways, PTL

\* A save that no other save of the project overlaps or follows is what the
\* project shows (save_mappings deletes all and inserts).
THEOREM LastSaveShown == Spec => []LastSaveIsShown
<1>1. IInv => LastSaveIsShown
  BY MapsHolds DEF IInv, ProjectsInv
<1> QED
  BY <1>1, IInvAlways, PTL

\* A reader's two counts differ only if a save or a deletion overlapped it, or
\* a grant overlapped a deletion (DashboardService.get_project_detail,
\* DashboardService.get_user_companies and list_projects).
THEOREM ReadersAgree == Spec => []ReadsAgree
<1>1. IInv => ReadsAgree
  BY DEF IInv, ProjectsInv, ReadInv
<1> QED
  BY <1>1, IInvAlways, PTL
=============================================================================
