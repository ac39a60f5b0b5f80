---------------------------- MODULE AccessTrail ----------------------------
(***************************************************************************)
(* ProjectAccess with who did it: the column assigned_by of project_access *)
(* and the user of each request, which ProjectAccess forgets once a check  *)
(* is passed.  A request writes what it was allowed to some time before,   *)
(* so by then its user may have lost the access, or the project be gone;   *)
(* what can still be said of it is AccessPolicy.                           *)
(***************************************************************************)
EXTENDS ProjectAccess

VARIABLES
    assigned_by,  \* the column, of each user's row; Nobody without a row
    asker,        \* the user of each grant or update under way
    held          \* the users who have been approvers of the project (history)

trailVars == <<vars, assigned_by, asker, held>>

\* Those who may grant access.
Approving ==
    {p \in Permissions \cup {"admin"} : PermissionLevel(p) >= PermissionLevel("approver")}
Approvers(permissions) == {u \in Users : permissions[u] \in Approving}

TrailInit ==
    /\ Init
    /\ assigned_by = [u \in Users |-> Nobody]
    /\ asker = [c \in Changes |-> Nobody]
    /\ held = {}

\* The author's row is the author's own.
ByAuthor ==
    IF project = "none" THEN [assigned_by EXCEPT ![create.by] = create.by] ELSE assigned_by

GrantListedBy(v, p) ==
    /\ GrantListed(v, p)
    /\ assigned_by' = [ByAuthor EXCEPT ![v] = create.by]
    /\ UNCHANGED asker

CreateDoneBy ==
    /\ CreateDone
    /\ assigned_by' = ByAuthor
    /\ UNCHANGED asker

Ask(c, by, u, p) ==
    /\ GrantAccess(c, by, u, p) \/ UpdateAccess(c, by, u, p)
    /\ asker' = [asker EXCEPT ![c] = by]
    /\ UNCHANGED assigned_by

Forget(c) == asker' = [asker EXCEPT ![c] = Nobody]

\* The row says who assigned it last, also when it was there before.
UpsertBy(c) ==
    /\ Upsert(c)
    /\ assigned_by' = IF project = "active"
                      THEN [assigned_by EXCEPT ![change[c].user] = asker[c]]
                      ELSE assigned_by
    /\ Forget(c)

RevokeBy(c) ==
    /\ Revoke(c)
    /\ assigned_by' = [assigned_by EXCEPT ![change[c].user] = Nobody]
    /\ Forget(c)

DeleteBy(c) ==
    /\ Delete(c)
    /\ assigned_by' = [u \in Users |-> Nobody]
    /\ Forget(c)

ChangeFailsBy(c) ==
    /\ ChangeFails(c)
    /\ UNCHANGED assigned_by
    /\ Forget(c)

\* Whatever writes no access row and asks for none.
Aside ==
    /\ \/ OrgNext /\ UNCHANGED accessVars
       \/ \E u \in Users, listed \in SUBSET Users : CreateProject(u, listed)
       \/ \E v \in Users : SkipListed(v)
       \/ CreateFails
       \/ \E c \in Changes, by \in Users :
             DeleteProject(c, by) \/ \E u \in Users : RevokeAccess(c, by, u)
    /\ UNCHANGED <<assigned_by, asker>>

TrailNext ==
    /\ \/ Aside
       \/ CreateDoneBy
       \/ \E v \in Users, p \in Permissions : GrantListedBy(v, p)
       \/ \E c \in Changes, by, u \in Users, p \in Permissions : Ask(c, by, u, p)
       \/ \E c \in Changes : UpsertBy(c) \/ RevokeBy(c) \/ DeleteBy(c) \/ ChangeFailsBy(c)
    /\ held' = held \cup Approvers(permission')

TrailSpec == TrailInit /\ [][TrailNext]_trailVars

-----------------------------------------------------------------------------
(* Properties *)

Policy == INSTANCE AccessPolicy WITH
    members   <- {u \in Users : role[u] # "none"},
    access    <- permission,
    giver     <- assigned_by

\* Although every request checks first and writes later, and commits in the
\* middle of a creation, each of its writes is one the policy allows at that
\* moment: access is given by somebody else who has been an approver of this
\* project, to a member, and never outside the project's life.
ImplementsPolicy == Policy!Spec
=============================================================================
