---------------------------- MODULE Organization ----------------------------
(***************************************************************************)
(* One organisation: its members, and the invitations that make them.      *)
(*                                                                         *)
(* Source: src/src/modules/auth/{invitation_service,repository,service}.py.*)
(* Each request runs in a transaction of its own at READ COMMITTED.  Only  *)
(* requests that pass their checks are followed; the others change nothing.*)
(***************************************************************************)
CONSTANTS
    Users,     \* people, named by their e-mail addresses
    Org,       \* the organisation; an id like those of users
    Founder,   \* whoever registered it, or created it as a client
    Managers,  \* owners and admins of the employer, when it is a client
    Invites,   \* requests that invite, and the invitations they make
    Accepts,   \* invitation links followed
    Cancels,   \* requests that cancel an invitation
    Removals,  \* requests that remove a member
    Nobody     \* the user of a request not made yet

ASSUME OrgAssumption ==
    /\ Founder \in Users /\ Managers \subseteq Users
    /\ Org \notin Users /\ Nobody \notin Users

VARIABLES
    oneRow,      \* whether the table allows one membership per user
    registered,  \* the users with an account
    role,        \* role of each user here; "double" stands for several rows
    invite,      \* the row of each invitation, or what its request is about to insert
    accept,      \* each link followed: where it is and whether it adds a member
    cancel,      \* each cancellation
    removal      \* each removal and its answer

orgVars == <<oneRow, registered, role, invite, accept, cancel, removal>>

NoInvite == [status |-> "none", user |-> Nobody, role |-> "member"]

\* register and create_client commit the organisation with its owner.
OrgInit ==
    /\ oneRow \in BOOLEAN
    /\ registered = {Founder} \cup Managers
    /\ role = [u \in Users |-> IF u = Founder THEN "owner" ELSE "none"]
    /\ invite = [i \in Invites |-> NoInvite]
    /\ accept = [a \in Accepts |-> [pc |-> "new", invite |-> Nobody, adds |-> FALSE]]
    /\ cancel = [c \in Cancels |-> [pc |-> "new", invite |-> Nobody]]
    /\ removal = [r \in Removals |-> [answer |-> "none", user |-> Nobody]]

\* OrganizationRepository.get_member; several rows make it raise.
GetMember(org_id, user_id) ==
    IF org_id = Org /\ user_id \in Users THEN role[user_id] ELSE "none"

IsMember(u) == GetMember(Org, u) \in {"member", "owner"}

\* _require_owner
MayManageOrg(u) == u \in registered /\ (GetMember(Org, u) = "owner" \/ u \in Managers)

Register(u) ==
    /\ u \notin registered
    /\ registered' = registered \cup {u}
    /\ UNCHANGED <<oneRow, role, invite, accept, cancel, removal>>

-----------------------------------------------------------------------------
(* send_invitation: reads, then one insert.  invite[i] is "checked" between. *)

SendCheck(i, by, u, r) ==
    /\ invite[i].status = "none" /\ MayManageOrg(by)
    /\ \A j \in Invites : ~(invite[j].status = "pending" /\ invite[j].user = u)
    /\ u \in registered => GetMember(Org, u) = "none"
    /\ invite' = [invite EXCEPT ![i] = [status |-> "checked", user |-> u, role |-> r]]
    /\ UNCHANGED <<oneRow, registered, role, accept, cancel, removal>>

SendCommit(i) ==
    /\ invite[i].status = "checked"
    /\ invite' = [invite EXCEPT ![i].status = "pending"]
    /\ UNCHANGED <<oneRow, registered, role, accept, cancel, removal>>

\* Seven days pass: the row stays "pending" with expires_at in the past.
Expire(i) ==
    /\ invite[i].status = "pending"
    /\ invite' = [invite EXCEPT ![i].status = "expired"]
    /\ UNCHANGED <<oneRow, registered, role, accept, cancel, removal>>

-----------------------------------------------------------------------------
(* accept_invitation *)

\* The invitation is pending and its user has an account; without one the link
\* redirects to the registration form and changes nothing.
AcceptRead(a, i) ==
    /\ accept[a].pc = "new"
    /\ invite[i].status = "pending" /\ invite[i].user \in registered
    /\ accept' = [accept EXCEPT ![a] = [pc |-> "read", invite |-> i, adds |-> FALSE]]
    /\ UNCHANGED <<oneRow, registered, role, invite, cancel, removal>>

UserOf(a) == invite[accept[a].invite].user

\* One acceptance moves on.
AcceptAt(a, pc, adds) ==
    accept' = [accept EXCEPT ![a] = [pc |-> pc, invite |-> @.invite, adds |-> adds]]

AcceptLookup(a) ==
    /\ accept[a].pc = "read"
    /\ \/ GetMember(Org, UserOf(a)) = "none" /\ AcceptAt(a, "absent", TRUE)
       \/ IsMember(UserOf(a)) /\ AcceptAt(a, "joined", FALSE)
       \/ GetMember(Org, UserOf(a)) = "double" /\ AcceptAt(a, "failed", FALSE)
    /\ UNCHANGED <<oneRow, registered, role, invite, cancel, removal>>

\* Another link has inserted the same member and has not ended its transaction.
JoinWaits(a) ==
    oneRow /\ \E b \in Accepts \ {a} : /\ accept[b].pc \in {"joined", "marked"}
                                       /\ accept[b].adds /\ UserOf(b) = UserOf(a)

\* INSERT into organization_members; a second row is refused, or accepted, by the schema.
Join(a) ==
    /\ accept[a].pc = "absent" /\ ~JoinWaits(a)
    /\ AcceptAt(a, IF oneRow /\ role[UserOf(a)] # "none" THEN "failed" ELSE "joined", TRUE)
    /\ UNCHANGED <<oneRow, registered, role, invite, cancel, removal>>

\* The row of the invitation is locked by the transaction that wrote it.
InviteLocked(i, others, deleters) ==
    \/ \E b \in others : accept[b].invite = i /\ accept[b].pc = "marked"
    \/ \E c \in deleters : cancel[c].invite = i /\ cancel[c].pc = "deleting"

\* Variant: an UPDATE that finds no row counts as done.
MarkUnchecked(a) ==
    /\ accept[a].pc = "joined"
    /\ ~InviteLocked(accept[a].invite, Accepts \ {a}, Cancels)
    /\ AcceptAt(a, "marked", accept[a].adds)
    /\ UNCHANGED <<oneRow, registered, role, invite, cancel, removal>>

\* mark_accepted sets the status on the object read before; the UPDATE that
\* flushes it must find one row, so a deleted invitation is a 500.
MarkAccepted(a) ==
    /\ accept[a].pc = "joined"
    /\ ~InviteLocked(accept[a].invite, Accepts \ {a}, Cancels)
    /\ AcceptAt(a, IF invite[accept[a].invite].status = "deleted" THEN "failed" ELSE "marked",
                accept[a].adds)
    /\ UNCHANGED <<oneRow, registered, role, invite, cancel, removal>>

\* COMMIT: the member and the status at once.
AcceptCommit(a) ==
    /\ accept[a].pc = "marked"
    /\ AcceptAt(a, "done", FALSE)
    /\ invite' = [invite EXCEPT ![accept[a].invite].status = "accepted"]
    /\ role' = IF accept[a].adds
               THEN [role EXCEPT ![UserOf(a)] = IF @ = "none" THEN invite[accept[a].invite].role
                                                ELSE "double"]
               ELSE role
    /\ UNCHANGED <<oneRow, registered, cancel, removal>>

\* Variant: a failed link has committed its status before.
AcceptFailsMarked(a) ==
    /\ accept[a].pc \in {"read", "absent", "joined", "marked"}
    /\ AcceptAt(a, "failed", FALSE)
    /\ invite' = IF accept[a].pc = "marked"
                 THEN [invite EXCEPT ![accept[a].invite].status = "accepted"]
                 ELSE invite
    /\ UNCHANGED <<oneRow, registered, role, cancel, removal>>

\* The connection or the process is lost: rollback.
AcceptFails(a) ==
    /\ accept[a].pc \in {"read", "absent", "joined", "marked"}
    /\ AcceptAt(a, "failed", FALSE)
    /\ UNCHANGED <<oneRow, registered, role, invite, cancel, removal>>

-----------------------------------------------------------------------------
(* cancel_invitation: whatever its status, the row goes. *)

CancelRead(c, by, i) ==
    /\ cancel[c].pc = "new" /\ MayManageOrg(by)
    /\ invite[i].status \in {"pending", "expired", "accepted"}
    /\ cancel' = [cancel EXCEPT ![c] = [pc |-> "read", invite |-> i]]
    /\ UNCHANGED <<oneRow, registered, role, invite, accept, removal>>

\* DELETE by primary key
CancelDelete(c) ==
    /\ cancel[c].pc = "read"
    /\ ~InviteLocked(cancel[c].invite, Accepts, Cancels \ {c})
    /\ cancel' = [cancel EXCEPT ![c].pc = "deleting"]
    /\ UNCHANGED <<oneRow, registered, role, invite, accept, removal>>

CancelCommit(c) ==
    /\ cancel[c].pc = "deleting"
    /\ cancel' = [cancel EXCEPT ![c].pc = "done"]
    /\ invite' = [invite EXCEPT ![cancel[c].invite].status = "deleted"]
    /\ UNCHANGED <<oneRow, registered, role, accept, removal>>

CancelFails(c) ==
    /\ cancel[c].pc \in {"read", "deleting"}
    /\ cancel' = [cancel EXCEPT ![c].pc = "failed"]
    /\ UNCHANGED <<oneRow, registered, role, invite, accept, removal>>

-----------------------------------------------------------------------------
\* remove_org_member calls get_member(target_user_id, org_id).
RemoveOrgMember(r, by, u) ==
    /\ removal[r].answer = "none" /\ MayManageOrg(by) /\ by # u
    /\ IF GetMember(u, Org) = "none"
       THEN removal' = [removal EXCEPT ![r] = [answer |-> "not_found", user |-> u]]
            /\ UNCHANGED role
       ELSE removal' = [removal EXCEPT ![r] = [answer |-> "removed", user |-> u]]
            /\ role' = [role EXCEPT ![u] = "none"]
    /\ UNCHANGED <<oneRow, registered, invite, accept, cancel>>

OrgNext ==
    \/ \E u \in Users : Register(u)
    \/ \E i \in Invites :
          \/ \E by, u \in Users, r \in {"owner", "member"} : SendCheck(i, by, u, r)
          \/ SendCommit(i) \/ Expire(i)
    \/ \E a \in Accepts :
          \/ \E i \in Invites : AcceptRead(a, i)
          \/ AcceptLookup(a) \/ Join(a) \/ MarkAccepted(a) \/ AcceptCommit(a) \/ AcceptFails(a)
    \/ \E c \in Cancels :
          \/ \E by \in Users, i \in Invites : CancelRead(c, by, i)
          \/ CancelDelete(c) \/ CancelCommit(c) \/ CancelFails(c)
    \/ \E r \in Removals, by, u \in Users : RemoveOrgMember(r, by, u)

-----------------------------------------------------------------------------
(* Properties *)

InviteRows ==
    [status : {"none", "checked", "pending", "expired", "accepted", "deleted"},
     user : Users \cup {Nobody}, role : {"member", "owner"}]
Acceptances ==
    [pc : {"new", "read", "absent", "joined", "marked", "done", "failed"},
     invite : Invites \cup {Nobody}, adds : BOOLEAN]
Cancellations ==
    [pc : {"new", "read", "deleting", "done", "failed"}, invite : Invites \cup {Nobody}]

\* The values of each variable; a request under way names what it works on.
OrgTypeOK ==
    /\ oneRow \in BOOLEAN
    /\ registered \subseteq Users
    /\ role \in [Users -> {"none", "member", "owner", "double"}]
    /\ invite \in [Invites -> InviteRows]
    /\ accept \in [Accepts -> Acceptances]
    /\ cancel \in [Cancels -> Cancellations]
    /\ removal \in [Removals -> [answer : {"none", "not_found", "removed"},
                                 user : Users \cup {Nobody}]]
    /\ \A i \in Invites : invite[i].status # "none" => invite[i].user \in Users
    /\ \A a \in Accepts : accept[a].pc # "new" => accept[a].invite \in Invites
    /\ \A c \in Cancels : cancel[c].pc # "new" => cancel[c].invite \in Invites

\* Whose invitation is marked accepted is a member, however links followed
\* twice, cancellations and failures overlap.
AcceptedAreMembers ==
    \A i \in Invites : invite[i].status = "accepted" => role[invite[i].user] # "none"

\* Once a cancellation has been answered, no acceptance of that invitation
\* succeeds, even one that read it before.
CancelledNeverJoins ==
    [][\A a \in Accepts : accept[a].pc # "done" /\ accept'[a].pc = "done"
          => invite[accept[a].invite].status # "deleted"]_orgVars

\* "User is not a member of this organization" is said of people who are not.
NotFoundIsNoMember ==
    [][\A r \in Removals : removal[r].answer = "none" /\ removal'[r].answer = "not_found"
          => role[removal'[r].user] = "none"]_orgVars
=============================================================================
