--------------------------- MODULE ProjectAccess ---------------------------
(***************************************************************************)
(* A project of the organisation and who may do what with it.              *)
(*                                                                         *)
(* Source: src/src/modules/projects/{service,repository,dependencies,      *)
(* routes}.py.  A grant needs a member of the organisation; from then on   *)
(* only the rows of project_access decide.  Every request checks first and *)
(* writes later, in one transaction at READ COMMITTED.                     *)
(***************************************************************************)
EXTENDS Organization, Naturals

CONSTANTS
    Changes,     \* requests that grant, update or revoke access, or delete
    Permissions  \* what requests ask for; the schemas take any string

VARIABLES
    project,     \* "none" until a commit makes it visible, then "active", "deleted"
    permission,  \* the committed access row of each user
    create,      \* the creation: its state, its author, the members still to grant
    change       \* each later request: its state and what it does to whom

accessVars == <<project, permission, create, change>>
vars == <<orgVars, accessVars>>

PermissionLevel(p) ==
    CASE p = "viewer" -> 1 [] p = "editor" -> 2 [] p = "approver" -> 3 [] p = "admin" -> 4
      [] OTHER -> 0

ASSUME AccessAssumption == "none" \notin Permissions

Request(pc) == [pc |-> pc, kind |-> "none", user |-> Nobody, permission |-> "none"]

Init ==
    /\ OrgInit
    /\ project = "none"
    /\ permission = [u \in Users |-> "none"]
    /\ create = [pc |-> "new", by |-> Nobody, left |-> {}]
    /\ change = [c \in Changes |-> Request("new")]

\* require_project_access
MayDo(u, min) == PermissionLevel(permission[u]) >= PermissionLevel(min)

-----------------------------------------------------------------------------
(* create_project: the project, its author's access, then the members. *)

\* Nothing is committed yet; the organisation is whatever the body names.
CreateProject(u, members) ==
    /\ create.pc = "new" /\ u \in registered
    /\ create' = [pc |-> "open", by |-> u, left |-> members]
    /\ UNCHANGED <<orgVars, project, permission, change>>

\* What the first commit of the creation makes visible with its author's access.
Visible == IF project = "none" THEN "active" ELSE project
WithAuthor == IF project = "none" THEN [permission EXCEPT ![create.by] = "admin"] ELSE permission

\* Variant: the author's access is written after the members'.
GrantListedFirst(v, p) ==
    /\ create.pc = "open" /\ v \in create.left
    /\ v \in registered /\ v # create.by /\ IsMember(v)
    /\ project # "deleted"
    /\ project' = Visible
    /\ permission' = [permission EXCEPT ![v] = p]
    /\ create' = [create EXCEPT !.left = @ \ {v}]
    /\ UNCHANGED <<orgVars, change>>

\* grant_access ends with a commit of its own, of all that was written so far.
GrantListed(v, p) ==
    /\ create.pc = "open" /\ v \in create.left
    /\ v \in registered /\ v # create.by /\ IsMember(v)
    /\ project # "deleted"
    /\ project' = Visible
    /\ permission' = [WithAuthor EXCEPT ![v] = p]
    /\ create' = [create EXCEPT !.left = @ \ {v}]
    /\ UNCHANGED <<orgVars, change>>

\* No account, the author, no member, several rows: logged and skipped.
SkipListed(v) ==
    /\ create.pc = "open" /\ v \in create.left
    /\ v \notin registered \/ v = create.by \/ ~IsMember(v)
    /\ create' = [create EXCEPT !.left = @ \ {v}]
    /\ UNCHANGED <<orgVars, project, permission, change>>

CreateDone ==
    /\ create.pc = "open" /\ create.left = {}
    /\ project' = Visible /\ permission' = WithAuthor
    /\ create' = [create EXCEPT !.pc = "done"]
    /\ UNCHANGED <<orgVars, change>>

\* An error of the database, in a grant too, where it is only logged but leaves
\* a transaction no commit can save: what earlier grants have committed stays.
CreateFails ==
    /\ create.pc = "open"
    /\ create' = [create EXCEPT !.pc = "failed", !.left = {}]
    /\ UNCHANGED <<orgVars, project, permission, change>>

-----------------------------------------------------------------------------
(* Requests about the project: check, then write. *)

\* get_current_user and require_project_access
Start(c, kind, by, u, p, min) ==
    /\ change[c].pc = "new" /\ project = "active"
    /\ by \in registered /\ MayDo(by, min)
    /\ change' = [change EXCEPT ![c] = [pc |-> "checked", kind |-> kind, user |-> u,
                                        permission |-> p]]
    /\ UNCHANGED <<orgVars, project, permission, create>>

\* Variant: the target's membership is not looked up.
GrantAnyone(c, by, u, p) ==
    /\ u \in registered /\ u # by
    /\ Start(c, "grant", by, u, p, "approver")

\* grant_access: the target has an account, is somebody else, and a member.
GrantAccess(c, by, u, p) ==
    /\ u \in registered /\ u # by /\ IsMember(u)
    /\ Start(c, "grant", by, u, p, "approver")

\* Variant: one's own access is not excepted.
UpdateAnyone(c, by, u, p) ==
    /\ permission[u] # "none"
    /\ Start(c, "update", by, u, p, "approver")

\* update_access: the target is somebody else with access.
UpdateAccess(c, by, u, p) ==
    /\ u # by /\ permission[u] # "none"
    /\ Start(c, "update", by, u, p, "approver")

\* revoke_access: anybody, oneself and the last administrator included.
RevokeAccess(c, by, u) == Start(c, "revoke", by, u, "none", "approver")

DeleteProject(c, by) == Start(c, "delete", by, by, "none", "admin")

\* INSERT ... ON CONFLICT DO UPDATE and COMMIT; without its project it is a 500.
Upsert(c) ==
    /\ change[c].pc = "checked" /\ change[c].kind \in {"grant", "update"}
    /\ IF project = "active"
       THEN permission' = [permission EXCEPT ![change[c].user] = change[c].permission]
       ELSE UNCHANGED permission
    /\ change' = [change EXCEPT ![c] = Request("ended")]
    /\ UNCHANGED <<orgVars, project, create>>

Revoke(c) ==
    /\ change[c].pc = "checked" /\ change[c].kind = "revoke"
    /\ permission' = [permission EXCEPT ![change[c].user] = "none"]
    /\ change' = [change EXCEPT ![c] = Request("ended")]
    /\ UNCHANGED <<orgVars, project, create>>

\* The access rows go with the project.
Delete(c) ==
    /\ change[c].pc = "checked" /\ change[c].kind = "delete"
    /\ project' = "deleted"
    /\ permission' = [u \in Users |-> "none"]
    /\ change' = [change EXCEPT ![c] = Request("ended")]
    /\ UNCHANGED <<orgVars, create>>

ChangeFails(c) ==
    /\ change[c].pc = "checked"
    /\ change' = [change EXCEPT ![c] = Request("ended")]
    /\ UNCHANGED <<orgVars, project, permission, create>>

Next ==
    \/ OrgNext /\ UNCHANGED accessVars
    \/ \E u \in Users, members \in SUBSET Users : CreateProject(u, members)
    \/ \E v \in Users : SkipListed(v) \/ \E p \in Permissions : GrantListed(v, p)
    \/ CreateDone \/ CreateFails
    \/ \E c \in Changes, by \in Users :
          \/ \E u \in Users, p \in Permissions : GrantAccess(c, by, u, p) \/ UpdateAccess(c, by, u, p)
          \/ \E u \in Users : RevokeAccess(c, by, u)
          \/ DeleteProject(c, by)
    \/ \E c \in Changes : Upsert(c) \/ Revoke(c) \/ Delete(c) \/ ChangeFails(c)

Spec == Init /\ [][Next]_vars

-----------------------------------------------------------------------------
(* Properties *)

\* The values of each variable, and those of the organisation's.
TypeOK ==
    /\ OrgTypeOK
    /\ project \in {"none", "active", "deleted"}
    /\ permission \in [Users -> Permissions \cup {"none", "admin"}]
    /\ create \in [pc : {"new", "open", "done", "failed"}, by : Users \cup {Nobody},
                   left : SUBSET Users]
    /\ change \in [Changes -> [pc : {"new", "checked", "ended"},
                               kind : {"none", "grant", "update", "revoke", "delete"},
                               user : Users \cup {Nobody}, permission : Permissions \cup {"none"}]]

\* "Org membership is required to be granted project access": only the author
\* of the project can have access without it, however grants, updates that
\* revive a revoked row, removals and deletions interleave.
GrantedAreMembers ==
    \A u \in Users : permission[u] # "none" => role[u] # "none" \/ u = create.by

\* Access rows belong to a project somebody can reach: none outlives a deletion
\* or comes before the commit that makes the project visible.
AccessHasProject ==
    \A u \in Users : permission[u] # "none" => project = "active"

\* A project becomes visible with its author as administrator, although the
\* grants to listed members commit before the creation is over or fails.
BornWithAdmin ==
    [][project = "none" /\ project' = "active" => permission'[create.by] = "admin"]_vars
=============================================================================
