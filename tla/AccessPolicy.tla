---------------------------- MODULE AccessPolicy ----------------------------
(***************************************************************************)
(* What access control of a project promises, whatever requests overlap:   *)
(* each change of access happens at one instant; it is made by somebody    *)
(* else, who has been allowed to, in favour of a member; nobody has access *)
(* before the project is there with its administrator, or after it is      *)
(* gone.  AccessTrail is shown to implement it.                            *)
(***************************************************************************)
CONSTANTS
    Users,
    Permissions,  \* what may be given
    Approving,    \* the permissions that let their holder give access
    Nobody

VARIABLES
    members,  \* of the organisation
    project,  \* "none", "active", "deleted"
    access,   \* the permission of each user, or "none"
    giver,    \* who gave it
    held      \* the users who have had an approving permission at some time

vars == <<members, project, access, giver, held>>

Init ==
    /\ members \in SUBSET Users
    /\ project = "none"
    /\ access = [u \in Users |-> "none"]
    /\ giver = [u \in Users |-> Nobody]
    /\ held = {}

Join(u) ==
    /\ members' = members \cup {u}
    /\ UNCHANGED <<project, access, giver>>

\* The project appears with its administrator, and at most one member more.
Create(a) ==
    /\ project = "none" /\ project' = "active"
    /\ \/ /\ access' = [access EXCEPT ![a] = "admin"]
          /\ giver' = [giver EXCEPT ![a] = a]
       \/ \E v \in members \ {a}, p \in Permissions :
             /\ access' = [access EXCEPT ![a] = "admin", ![v] = p]
             /\ giver' = [giver EXCEPT ![a] = a, ![v] = a]
    /\ UNCHANGED members

\* Who has been an approver before need not be a member: so may the creator.
Give(by, u, p) ==
    /\ project = "active"
    /\ by \in held /\ by # u
    /\ u \in members \cup held
    /\ access' = [access EXCEPT ![u] = p]
    /\ giver' = [giver EXCEPT ![u] = by]
    /\ UNCHANGED <<members, project>>

Take(u) ==
    /\ project = "active"
    /\ access' = [access EXCEPT ![u] = "none"]
    /\ giver' = [giver EXCEPT ![u] = Nobody]
    /\ UNCHANGED <<members, project>>

Delete ==
    /\ project = "active" /\ project' = "deleted"
    /\ access' = [u \in Users |-> "none"]
    /\ giver' = [u \in Users |-> Nobody]
    /\ UNCHANGED members

Next ==
    /\ \/ \E u \in Users : Join(u) \/ Create(u) \/ Take(u)
       \/ \E by, u \in Users, p \in Permissions : Give(by, u, p)
       \/ Delete
    /\ held' = held \cup {u \in Users : access'[u] \in Approving}

Spec == Init /\ [][Next]_vars
=============================================================================
