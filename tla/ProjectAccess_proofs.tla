------------------------ MODULE ProjectAccess_proofs ------------------------
(***************************************************************************)
(* Proofs about ProjectAccess and AccessTrail, for any people, invitations *)
(* and requests.                                                           *)
(*                                                                         *)
(* OrgInv adds to AcceptedAreMembers what an acceptance under way knows:   *)
(* its invitation was sent, and once marked cannot be deleted.  AccessInv  *)
(* adds what a request that passed its checks still knows when it writes,  *)
(* and TrailInv who asked for it; so each write is a step of AccessPolicy. *)
(***************************************************************************)
EXTENDS AccessTrail, TLAPS

Sent == {"pending", "expired", "accepted", "deleted"}

\* What acceptances and cancellations under way rely on.
OrgInv ==
    /\ AcceptedAreMembers
    /\ \A a \in Accepts : accept[a].pc # "new" => invite[accept[a].invite].status \in Sent
    /\ \A c \in Cancels : cancel[c].pc # "new" => invite[cancel[c].invite].status \in Sent
    /\ \A a \in Accepts :
          accept[a].pc \in {"joined", "marked"} /\ ~accept[a].adds => role[UserOf(a)] # "none"
    /\ \A a \in Accepts :
          accept[a].pc = "marked" =>
             /\ invite[accept[a].invite].status # "deleted"
             /\ \A c \in Cancels : ~(cancel[c].pc = "deleting" /\ cancel[c].invite = accept[a].invite)

\* What requests about the project rely on.
AccessInv ==
    /\ GrantedAreMembers
    /\ AccessHasProject
    /\ project # "none" => create.pc # "new"
    /\ create.pc # "new" => create.by \in Users
    /\ \A c \in Changes : change[c].pc = "checked" =>
          /\ project # "none" /\ change[c].user \in Users
          /\ change[c].kind \in {"grant", "update"} =>
                /\ change[c].permission \in Permissions
                /\ role[change[c].user] # "none" \/ change[c].user = create.by

\* Each step of an acceptance under way sets its pc, and whether it adds a member.
LEMMA AcceptMoves ==
  ASSUME OrgTypeOK, NEW a \in Accepts,
         \/ AcceptLookup(a) \/ Join(a) \/ MarkAccepted(a) \/ AcceptCommit(a) \/ AcceptFails(a)
  PROVE  /\ accept[a].pc # "new" /\ accept[a].invite \in Invites /\ accept[a].adds \in BOOLEAN
         /\ \E pc \in {"absent", "joined", "marked", "done", "failed"}, adds \in BOOLEAN :
               AcceptAt(a, pc, adds)
<1>1. accept[a].pc # "new" /\ accept[a].invite \in Invites /\ accept[a].adds \in BOOLEAN
  BY DEF OrgTypeOK, Acceptances, AcceptLookup, Join, MarkAccepted, AcceptCommit, AcceptFails
<1>2. AcceptLookup(a) => \E pc \in {"absent", "joined", "failed"}, adds \in BOOLEAN : AcceptAt(a, pc, adds)
  BY DEF AcceptLookup
<1>3. Join(a) => \E pc \in {"joined", "failed"} : AcceptAt(a, pc, TRUE)
  BY DEF Join
<1>4. MarkAccepted(a) => \E pc \in {"marked", "failed"} : AcceptAt(a, pc, accept[a].adds)
  BY DEF MarkAccepted
<1>5. (AcceptCommit(a) => AcceptAt(a, "done", FALSE)) /\ (AcceptFails(a) => AcceptAt(a, "failed", FALSE))
  BY DEF AcceptCommit, AcceptFails
<1> QED
  BY <1>1, <1>2, <1>3, <1>4, <1>5

\* What such a step leaves true of every acceptance.
LEMMA AcceptAtType ==
  ASSUME OrgTypeOK, NEW a \in Accepts, accept[a].invite \in Invites,
         NEW pc \in {"absent", "joined", "marked", "done", "failed"}, NEW adds \in BOOLEAN,
         AcceptAt(a, pc, adds)
  PROVE  /\ accept' \in [Accepts -> Acceptances]
         /\ \A b \in Accepts : accept'[b].pc # "new" => accept'[b].invite \in Invites
         /\ \A b \in Accepts \ {a} : accept'[b] = accept[b]
         /\ accept'[a].pc = pc /\ accept'[a].adds = adds /\ accept'[a].invite = accept[a].invite
BY DEF OrgTypeOK, AcceptAt, Acceptances

\* Any of the steps of one acceptance, whatever it does.
LEMMA AcceptStepType ==
  ASSUME OrgTypeOK, NEW a \in Accepts,
         \/ AcceptLookup(a) \/ Join(a) \/ MarkAccepted(a) \/ AcceptCommit(a) \/ AcceptFails(a)
  PROVE  /\ accept' \in [Accepts -> Acceptances]
         /\ \A b \in Accepts : accept'[b].pc # "new" => accept'[b].invite \in Invites
BY AcceptMoves, AcceptAtType

LEMMA OrgTypeStep == OrgTypeOK /\ OrgInv /\ [OrgNext]_orgVars => OrgTypeOK'
<1> SUFFICES ASSUME OrgTypeOK, OrgInv, [OrgNext]_orgVars PROVE OrgTypeOK'
  OBVIOUS
<1>1. ASSUME NEW u \in Users, Register(u) PROVE OrgTypeOK'
  BY <1>1 DEF Register, OrgTypeOK
<1>2. ASSUME NEW i \in Invites, NEW by \in Users, NEW u \in Users,
             NEW r \in {"owner", "member"}, SendCheck(i, by, u, r)
      PROVE  OrgTypeOK'
  BY <1>2 DEF SendCheck, InviteRows, OrgTypeOK
<1>3. ASSUME NEW i \in Invites, NEW s \in Sent, invite[i].status # "none",
             invite' = [invite EXCEPT ![i].status = s]
      PROVE  /\ invite' \in [Invites -> InviteRows]
             /\ \A j \in Invites : invite'[j].status # "none" => invite'[j].user \in Users
             /\ \A j \in Invites : invite'[j].user = invite[j].user
  BY <1>3 DEF OrgTypeOK, InviteRows, Sent
<1>4. ASSUME NEW i \in Invites, SendCommit(i) \/ Expire(i) PROVE OrgTypeOK'
  <2>1. invite[i].status # "none" /\ \E s \in Sent : invite' = [invite EXCEPT ![i].status = s]
    BY <1>4 DEF SendCommit, Expire, Sent
  <2> QED
    BY <1>3, <1>4, <2>1 DEF SendCommit, Expire, OrgTypeOK
<1>5. ASSUME NEW a \in Accepts, NEW i \in Invites, AcceptRead(a, i) PROVE OrgTypeOK'
  BY <1>5 DEF AcceptRead, Acceptances, OrgTypeOK
<1>6. ASSUME NEW a \in Accepts, AcceptLookup(a) \/ Join(a) \/ MarkAccepted(a) \/ AcceptFails(a)
      PROVE  OrgTypeOK'
  BY <1>6, AcceptStepType DEF AcceptLookup, Join, MarkAccepted, AcceptFails, OrgTypeOK
<1>7. ASSUME NEW a \in Accepts, AcceptCommit(a) PROVE OrgTypeOK'
  <2>1. accept[a].invite \in Invites /\ invite[accept[a].invite].status \in Sent
    BY <1>7 DEF AcceptCommit, OrgTypeOK, OrgInv
  <2>2. /\ invite' \in [Invites -> InviteRows]
        /\ \A j \in Invites : invite'[j].status # "none" => invite'[j].user \in Users
    BY <1>3, <1>7, <2>1 DEF AcceptCommit, Sent
  <2>3. role' \in [Users -> {"none", "member", "owner", "double"}]
    BY <1>7, <2>1 DEF AcceptCommit, InviteRows, OrgTypeOK
  <2> QED
    BY <1>7, <2>2, <2>3, AcceptStepType DEF AcceptCommit, OrgTypeOK
<1>8. ASSUME NEW c \in Cancels, NEW by \in Users, NEW i \in Invites, CancelRead(c, by, i)
      PROVE  OrgTypeOK'
  BY <1>8 DEF CancelRead, Cancellations, OrgTypeOK
<1>9. ASSUME NEW c \in Cancels, NEW pc \in {"deleting", "done", "failed"}, cancel[c].pc # "new",
             cancel' = [cancel EXCEPT ![c].pc = pc]
      PROVE  /\ cancel' \in [Cancels -> Cancellations]
             /\ \A d \in Cancels : cancel'[d].pc # "new" => cancel'[d].invite \in Invites
  BY <1>9 DEF Cancellations, OrgTypeOK
<1>10. ASSUME NEW c \in Cancels, CancelDelete(c) \/ CancelFails(c) PROVE OrgTypeOK'
  <2>1. cancel[c].pc # "new" /\ \E pc \in {"deleting", "failed"} : cancel' = [cancel EXCEPT ![c].pc = pc]
    BY <1>10 DEF CancelDelete, CancelFails
  <2> QED
    BY <1>9, <1>10, <2>1 DEF CancelDelete, CancelFails, OrgTypeOK
<1>11. ASSUME NEW c \in Cancels, CancelCommit(c) PROVE OrgTypeOK'
  <2>1. cancel[c].invite \in Invites /\ invite[cancel[c].invite].status \in Sent
    BY <1>11 DEF CancelCommit, OrgTypeOK, OrgInv
  <2>2. /\ invite' \in [Invites -> InviteRows]
        /\ \A j \in Invites : invite'[j].status # "none" => invite'[j].user \in Users
    BY <1>3, <1>11, <2>1 DEF CancelCommit, Sent
  <2> QED
    BY <1>9, <1>11, <2>2 DEF CancelCommit, OrgTypeOK
<1>12. ASSUME NEW r \in Removals, NEW by \in Users, NEW u \in Users, RemoveOrgMember(r, by, u)
       PROVE  OrgTypeOK'
  BY <1>12 DEF RemoveOrgMember, OrgTypeOK
<1>13. CASE UNCHANGED orgVars
  BY <1>13 DEF orgVars, OrgTypeOK, UserOf
<1> QED
  BY <1>1, <1>2, <1>4, <1>5, <1>6, <1>7, <1>8, <1>10, <1>11, <1>12, <1>13 DEF OrgNext

\* remove_org_member finds nobody: it looks up an organisation by a user's id.
LEMMA RemovalFindsNobody ==
  ASSUME NEW r \in Removals, NEW by \in Users, NEW u \in Users, RemoveOrgMember(r, by, u)
  PROVE  UNCHANGED <<oneRow, registered, role, invite, accept, cancel>>
BY OrgAssumption DEF RemoveOrgMember, GetMember

\* Members stay members.
LEMMA MembersStay ==
  ASSUME OrgTypeOK, [OrgNext]_orgVars, NEW u \in Users, role[u] # "none"
  PROVE  role'[u] # "none"
<1>1. ASSUME NEW a \in Accepts, AcceptCommit(a) PROVE role'[u] # "none"
  BY <1>1 DEF AcceptCommit, OrgTypeOK, UserOf
<1>2. ASSUME NEW r \in Removals, NEW by \in Users, NEW v \in Users, RemoveOrgMember(r, by, v)
      PROVE  role'[u] # "none"
  BY <1>2, RemovalFindsNobody
<1>3. CASE UNCHANGED role
  BY <1>3
<1> QED
  BY <1>1, <1>2, <1>3 DEF OrgNext, orgVars, Register, SendCheck, SendCommit, Expire, AcceptRead,
     AcceptLookup, Join, MarkAccepted, AcceptFails, CancelRead, CancelDelete, CancelCommit,
     CancelFails

\* An invitation that was sent keeps its user.
LEMMA InvitesStay ==
  ASSUME OrgTypeOK, OrgInv, [OrgNext]_orgVars, NEW i \in Invites, invite[i].status \in Sent
  PROVE  invite'[i].status \in Sent /\ invite'[i].user = invite[i].user
<1>1. ASSUME NEW j \in Invites, NEW by \in Users, NEW u \in Users,
             NEW r \in {"owner", "member"}, SendCheck(j, by, u, r)
      PROVE  invite'[i] = invite[i]
  BY <1>1 DEF SendCheck, OrgTypeOK, Sent
<1>2. ASSUME NEW j \in Invites, SendCommit(j) \/ Expire(j)
      PROVE  invite'[i].status \in Sent /\ invite'[i].user = invite[i].user
  BY <1>2 DEF SendCommit, Expire, OrgTypeOK, InviteRows, Sent
<1>3. ASSUME NEW a \in Accepts, AcceptCommit(a)
      PROVE  invite'[i].status \in Sent /\ invite'[i].user = invite[i].user
  BY <1>3 DEF AcceptCommit, OrgTypeOK, InviteRows, Sent
<1>4. ASSUME NEW c \in Cancels, CancelCommit(c)
      PROVE  invite'[i].status \in Sent /\ invite'[i].user = invite[i].user
  BY <1>4 DEF CancelCommit, OrgTypeOK, InviteRows, Sent
<1>5. ASSUME NEW r \in Removals, NEW by \in Users, NEW v \in Users, RemoveOrgMember(r, by, v)
      PROVE  UNCHANGED invite
  BY <1>5, RemovalFindsNobody
<1>6. CASE UNCHANGED invite
  BY <1>6
<1> QED
  BY <1>1, <1>2, <1>3, <1>4, <1>5, <1>6 DEF OrgNext, orgVars, Register, AcceptRead,
     AcceptLookup, Join, MarkAccepted, AcceptFails, CancelRead, CancelDelete, CancelFails

\* Only the commit of an acceptance makes an invitation accepted.
LEMMA AcceptedStep ==
  ASSUME OrgTypeOK, OrgInv, [OrgNext]_orgVars PROVE AcceptedAreMembers'
<1> SUFFICES ASSUME NEW i \in Invites, invite'[i].status = "accepted"
             PROVE  role'[invite'[i].user] # "none"
  BY DEF AcceptedAreMembers
<1>1. ASSUME invite[i].status = "accepted" PROVE role'[invite'[i].user] # "none"
  <2>1. invite'[i].user = invite[i].user
    BY <1>1, InvitesStay DEF Sent
  <2>2. invite[i].user \in Users /\ role[invite[i].user] # "none"
    BY <1>1 DEF OrgTypeOK, OrgInv, AcceptedAreMembers
  <2> QED
    BY <2>1, <2>2, MembersStay
<1>2. ASSUME NEW a \in Accepts, AcceptCommit(a), invite[i].status # "accepted"
      PROVE  role'[invite'[i].user] # "none"
  <2>1. accept[a].invite = i /\ invite[i].user \in Users /\ invite'[i].user = invite[i].user
    BY <1>2 DEF AcceptCommit, OrgTypeOK, InviteRows, OrgInv, Sent
  <2>2. CASE accept[a].adds
    BY <1>2, <2>1, <2>2 DEF AcceptCommit, UserOf, OrgTypeOK, InviteRows
  <2>3. CASE ~accept[a].adds
    BY <1>2, <2>1, <2>3, MembersStay DEF AcceptCommit, UserOf, OrgInv
  <2> QED
    BY <2>2, <2>3
<1>3. ASSUME invite[i].status # "accepted", UNCHANGED invite PROVE FALSE
  BY <1>3
<1>4. ASSUME NEW j \in Invites, NEW by \in Users, NEW u \in Users, invite[i].status # "accepted",
             NEW r \in {"owner", "member"}, SendCheck(j, by, u, r)
      PROVE  FALSE
  BY <1>4 DEF SendCheck, OrgTypeOK
<1>5. ASSUME NEW j \in Invites, SendCommit(j) \/ Expire(j), invite[i].status # "accepted" PROVE FALSE
  BY <1>5 DEF SendCommit, Expire, OrgTypeOK, InviteRows
<1>6. ASSUME NEW c \in Cancels, CancelCommit(c), invite[i].status # "accepted" PROVE FALSE
  BY <1>6 DEF CancelCommit, OrgTypeOK, InviteRows
<1>7. ASSUME NEW r \in Removals, NEW by \in Users, NEW v \in Users, RemoveOrgMember(r, by, v)
      PROVE  UNCHANGED invite
  BY <1>7, RemovalFindsNobody
<1> QED
  BY <1>1, <1>2, <1>3, <1>4, <1>5, <1>6, <1>7 DEF OrgNext, orgVars, Register, AcceptRead,
     AcceptLookup, Join, MarkAccepted, AcceptFails, CancelRead, CancelDelete, CancelFails

\* The parts of OrgInv about acceptances, for one that moves while invitations stand still.
LEMMA AcceptInvStep ==
  ASSUME OrgTypeOK, OrgInv, [OrgNext]_orgVars, NEW a \in Accepts,
         AcceptLookup(a) \/ Join(a) \/ MarkAccepted(a) \/ AcceptFails(a)
  PROVE  OrgInv'
<1>1. UNCHANGED <<role, invite, cancel>>
  BY DEF AcceptLookup, Join, MarkAccepted, AcceptFails
<1>2. PICK pc \in {"absent", "joined", "marked", "done", "failed"}, adds \in BOOLEAN :
         AcceptAt(a, pc, adds)
  BY AcceptMoves
<1>3. /\ accept[a].pc # "new" /\ accept[a].invite \in Invites
      /\ \A b \in Accepts \ {a} : accept'[b] = accept[b]
      /\ accept'[a].pc = pc /\ accept'[a].adds = adds /\ accept'[a].invite = accept[a].invite
  BY <1>2, AcceptMoves, AcceptAtType
<1>4. pc \in {"joined", "marked"} /\ ~adds => role[UserOf(a)] # "none"
  <2>1. ASSUME AcceptLookup(a), pc = "joined" PROVE role[UserOf(a)] # "none"
    <3>1. accept'[a].pc = "joined" => IsMember(UserOf(a))
      BY <2>1, <1>3, <1>2 DEF AcceptLookup, AcceptAt, OrgTypeOK
    <3> QED
      BY <2>1, <1>3, <3>1 DEF IsMember, GetMember
  <2>2. ASSUME Join(a) PROVE adds \/ pc = "failed"
    BY <2>2, <1>2, <1>3 DEF Join, AcceptAt, OrgTypeOK
  <2>3. ASSUME MarkAccepted(a) PROVE accept[a].pc = "joined" /\ adds = accept[a].adds
    BY <2>3, <1>2, <1>3 DEF MarkAccepted, AcceptAt, OrgTypeOK
  <2>4. ASSUME AcceptFails(a) PROVE pc = "failed"
    BY <2>4, <1>2, <1>3 DEF AcceptFails, AcceptAt, OrgTypeOK
  <2>5. ASSUME AcceptLookup(a) PROVE pc # "marked"
    BY <2>5, <1>2, <1>3 DEF AcceptLookup, AcceptAt, OrgTypeOK
  <2> QED
    BY <2>1, <2>2, <2>3, <2>4, <2>5 DEF OrgInv
<1>5. pc = "marked" =>
         /\ invite[accept[a].invite].status # "deleted"
         /\ \A c \in Cancels : ~(cancel[c].pc = "deleting" /\ cancel[c].invite = accept[a].invite)
  <2>1. ASSUME AcceptLookup(a) \/ Join(a) \/ AcceptFails(a) PROVE pc # "marked"
    BY <2>1, <1>2, <1>3 DEF AcceptLookup, Join, AcceptFails, AcceptAt, OrgTypeOK
  <2>2. ASSUME MarkAccepted(a), pc = "marked"
        PROVE  /\ invite[accept[a].invite].status # "deleted"
               /\ \A c \in Cancels : ~(cancel[c].pc = "deleting" /\ cancel[c].invite = accept[a].invite)
    BY <2>2, <1>2, <1>3 DEF MarkAccepted, InviteLocked, AcceptAt, OrgTypeOK
  <2> QED
    BY <2>1, <2>2
<1>6. AcceptedAreMembers'
  BY AcceptedStep
<1>7. /\ \A b \in Accepts : accept'[b].pc # "new" => invite[accept'[b].invite].status \in Sent
      /\ \A c \in Cancels : cancel[c].pc # "new" => invite[cancel[c].invite].status \in Sent
  BY <1>3 DEF OrgInv
<1>8. \A b \in Accepts :
         accept'[b].pc \in {"joined", "marked"} /\ ~accept'[b].adds
            => role[invite[accept'[b].invite].user] # "none"
  BY <1>3, <1>4 DEF OrgInv, UserOf
<1>9. \A b \in Accepts :
          accept'[b].pc = "marked" =>
             /\ invite[accept'[b].invite].status # "deleted"
             /\ \A c \in Cancels : ~(cancel[c].pc = "deleting" /\ cancel[c].invite = accept'[b].invite)
  BY <1>3, <1>5 DEF OrgInv
<1> QED
  BY <1>1, <1>6, <1>7, <1>8, <1>9 DEF OrgInv, UserOf

\* A step that moves no acceptance and no cancellation.
LEMMA QuietInvStep ==
  ASSUME OrgTypeOK, OrgInv, [OrgNext]_orgVars, UNCHANGED <<accept, cancel>>,
         \A i \in Invites : invite'[i].status = "deleted" => invite[i].status = "deleted"
  PROVE  OrgInv'
<1>1. \A a \in Accepts : accept[a].pc # "new" =>
         /\ accept[a].invite \in Invites /\ invite[accept[a].invite].status \in Sent
         /\ invite[accept[a].invite].user \in Users
  BY DEF OrgTypeOK, OrgInv, Sent
<1>2. \A a \in Accepts : accept[a].pc # "new" =>
         /\ invite'[accept[a].invite].status \in Sent
         /\ invite'[accept[a].invite].user = invite[accept[a].invite].user
  BY <1>1, InvitesStay
<1>3. \A c \in Cancels : cancel[c].pc # "new" => invite'[cancel[c].invite].status \in Sent
  BY InvitesStay DEF OrgTypeOK, OrgInv
<1>4. AcceptedAreMembers'
  BY AcceptedStep
<1>5. ASSUME NEW a \in Accepts, accept[a].pc \in {"joined", "marked"}, ~accept[a].adds
      PROVE  role'[invite'[accept[a].invite].user] # "none"
  <2>1. role[invite[accept[a].invite].user] # "none"
    BY <1>5 DEF OrgInv, UserOf
  <2> QED
    BY <1>1, <1>2, <1>5, <2>1, MembersStay
<1>6. ASSUME NEW a \in Accepts, accept[a].pc = "marked"
      PROVE  /\ invite'[accept[a].invite].status # "deleted"
             /\ \A c \in Cancels : ~(cancel[c].pc = "deleting" /\ cancel[c].invite = accept[a].invite)
  BY <1>1, <1>6 DEF OrgInv
<1> QED
  BY <1>2, <1>3, <1>4, <1>5, <1>6 DEF OrgInv, UserOf

LEMMA CommitInvStep ==
  ASSUME OrgTypeOK, OrgInv, [OrgNext]_orgVars, NEW a \in Accepts, AcceptCommit(a)
  PROVE  OrgInv'
<1>1. /\ accept[a].pc = "marked" /\ accept[a].invite \in Invites
      /\ \A b \in Accepts \ {a} : accept'[b] = accept[b]
      /\ accept'[a].pc = "done" /\ accept'[a].invite = accept[a].invite
      /\ UNCHANGED cancel
  BY AcceptMoves, AcceptAtType DEF AcceptCommit
<1>2. \A i \in Invites : invite'[i].status = "deleted" => invite[i].status = "deleted"
  BY DEF AcceptCommit, OrgTypeOK, InviteRows
<1>3. \A b \in Accepts : accept[b].pc # "new" =>
         /\ accept[b].invite \in Invites /\ invite[accept[b].invite].status \in Sent
         /\ invite[accept[b].invite].user \in Users
  BY DEF OrgTypeOK, OrgInv, Sent
<1>4. \A b \in Accepts : accept[b].pc # "new" =>
         /\ invite'[accept[b].invite].status \in Sent
         /\ invite'[accept[b].invite].user = invite[accept[b].invite].user
  BY <1>3, InvitesStay
<1>5. \A c \in Cancels : cancel[c].pc # "new" => invite'[cancel[c].invite].status \in Sent
  BY InvitesStay DEF OrgTypeOK, OrgInv
<1>6. \A b \in Accepts : accept'[b].pc # "new" => invite'[accept'[b].invite].status \in Sent
  BY <1>1, <1>4
<1>7. ASSUME NEW b \in Accepts, accept'[b].pc \in {"joined", "marked"}, ~accept'[b].adds
      PROVE  role'[invite'[accept'[b].invite].user] # "none"
  <2>1. b # a /\ accept'[b] = accept[b]
    BY <1>1, <1>7
  <2>2. role[invite[accept[b].invite].user] # "none"
    BY <1>7, <2>1 DEF OrgInv, UserOf
  <2> QED
    BY <1>3, <1>4, <1>7, <2>1, <2>2, MembersStay
<1>8. ASSUME NEW b \in Accepts, accept'[b].pc = "marked"
      PROVE  /\ invite'[accept'[b].invite].status # "deleted"
             /\ \A c \in Cancels : ~(cancel[c].pc = "deleting" /\ cancel[c].invite = accept'[b].invite)
  <2>1. b # a /\ accept'[b] = accept[b]
    BY <1>1, <1>8
  <2> QED
    BY <1>2, <1>3, <1>8, <2>1 DEF OrgInv
<1>9. AcceptedAreMembers'
  BY AcceptedStep
<1> QED
  BY <1>1, <1>5, <1>6, <1>7, <1>8, <1>9 DEF OrgInv, UserOf

LEMMA OrgInvStep == OrgTypeOK /\ OrgInv /\ [OrgNext]_orgVars => OrgInv'
<1> SUFFICES ASSUME OrgTypeOK, OrgInv, [OrgNext]_orgVars PROVE OrgInv'
  OBVIOUS
<1>1. ASSUME NEW u \in Users, Register(u) PROVE OrgInv'
  BY <1>1, QuietInvStep DEF Register
<1>2. ASSUME NEW i \in Invites, NEW by \in Users, NEW u \in Users,
             NEW r \in {"owner", "member"}, SendCheck(i, by, u, r)
      PROVE  OrgInv'
  BY <1>2, QuietInvStep DEF SendCheck, OrgTypeOK
<1>3. ASSUME NEW i \in Invites, SendCommit(i) \/ Expire(i) PROVE OrgInv'
  BY <1>3, QuietInvStep DEF SendCommit, Expire, OrgTypeOK, InviteRows
<1>4. ASSUME NEW a \in Accepts, NEW i \in Invites, AcceptRead(a, i) PROVE OrgInv'
  <2>1. /\ UNCHANGED <<role, invite, cancel>> /\ invite[i].status \in Sent
        /\ \A b \in Accepts \ {a} : accept'[b] = accept[b]
        /\ accept'[a].pc = "read" /\ accept'[a].invite = i
    BY <1>4 DEF AcceptRead, OrgTypeOK, Sent
  <2>2. AcceptedAreMembers'
    BY AcceptedStep
  <2> QED
    BY <2>1, <2>2 DEF OrgInv, UserOf
<1>5. ASSUME NEW a \in Accepts, AcceptLookup(a) \/ Join(a) \/ MarkAccepted(a) \/ AcceptFails(a)
      PROVE  OrgInv'
  BY <1>5, AcceptInvStep
<1>6. ASSUME NEW a \in Accepts, AcceptCommit(a) PROVE OrgInv'
  BY <1>6, CommitInvStep
<1>7. ASSUME NEW c \in Cancels, NEW by \in Users, NEW i \in Invites, CancelRead(c, by, i)
      PROVE  OrgInv'
  <2>1. /\ UNCHANGED <<role, invite, accept>> /\ invite[i].status \in Sent
        /\ \A d \in Cancels \ {c} : cancel'[d] = cancel[d]
        /\ cancel'[c].pc = "read" /\ cancel'[c].invite = i
    BY <1>7 DEF CancelRead, OrgTypeOK, Sent
  <2>2. AcceptedAreMembers'
    BY AcceptedStep
  <2> QED
    BY <2>1, <2>2 DEF OrgInv, UserOf
<1>8. ASSUME NEW c \in Cancels, CancelDelete(c) \/ CancelFails(c) PROVE OrgInv'
  <2>1. /\ UNCHANGED <<role, invite, accept>>
        /\ \A d \in Cancels \ {c} : cancel'[d] = cancel[d]
        /\ cancel[c].pc # "new" /\ cancel'[c].invite = cancel[c].invite
        /\ cancel'[c].pc \in {"deleting", "failed"}
    BY <1>8 DEF CancelDelete, CancelFails, OrgTypeOK, Cancellations
  <2>2. cancel'[c].pc = "deleting" =>
           \A a \in Accepts : ~(accept[a].pc = "marked" /\ accept[a].invite = cancel[c].invite)
    BY <1>8, <2>1 DEF CancelDelete, CancelFails, InviteLocked, OrgTypeOK, Cancellations
  <2>3. AcceptedAreMembers'
    BY AcceptedStep
  <2> QED
    BY <2>1, <2>2, <2>3 DEF OrgInv, UserOf
<1>9. ASSUME NEW c \in Cancels, CancelCommit(c) PROVE OrgInv'
  <2>1. /\ UNCHANGED <<role, accept>>
        /\ \A d \in Cancels \ {c} : cancel'[d] = cancel[d]
        /\ cancel[c].pc = "deleting" /\ cancel'[c].invite = cancel[c].invite
        /\ cancel'[c].pc = "done" /\ cancel[c].invite \in Invites
    BY <1>9 DEF CancelCommit, OrgTypeOK, Cancellations
  <2>2. /\ \A i \in Invites : invite'[i].user = invite[i].user
        /\ \A i \in Invites \ {cancel[c].invite} : invite'[i] = invite[i]
        /\ invite'[cancel[c].invite].status \in Sent
    BY <1>9, <2>1 DEF CancelCommit, OrgTypeOK, InviteRows, Sent
  <2>3. \A a \in Accepts : accept[a].pc # "new" => accept[a].invite \in Invites
    BY DEF OrgTypeOK
  <2>4. \A a \in Accepts : accept[a].pc = "marked" => accept[a].invite # cancel[c].invite
    BY <2>1 DEF OrgInv
  <2>5. AcceptedAreMembers'
    BY AcceptedStep
  <2>6. \A d \in Cancels : cancel'[d].pc # "new" => invite'[cancel'[d].invite].status \in Sent
    BY <2>1, <2>2 DEF OrgInv, OrgTypeOK
  <2> QED
    BY <2>1, <2>2, <2>3, <2>4, <2>5, <2>6 DEF OrgInv, UserOf
<1>10. ASSUME NEW r \in Removals, NEW by \in Users, NEW u \in Users, RemoveOrgMember(r, by, u)
       PROVE  OrgInv'
  BY <1>10, RemovalFindsNobody, QuietInvStep
<1>11. CASE UNCHANGED orgVars
  BY <1>11, QuietInvStep DEF orgVars
<1> QED
  BY <1>1, <1>2, <1>3, <1>4, <1>5, <1>6, <1>7, <1>8, <1>9, <1>10, <1>11 DEF OrgNext

-----------------------------------------------------------------------------
(* The project and its access rows *)

OrgStep == [OrgNext]_orgVars

\* Each step of Next is one of the organisation or one of these.
AccessStep ==
    \/ \E u \in Users, members \in SUBSET Users : CreateProject(u, members)
    \/ \E v \in Users : SkipListed(v) \/ \E p \in Permissions : GrantListed(v, p)
    \/ CreateDone \/ CreateFails
    \/ \E c \in Changes, by \in Users :
          \/ \E u \in Users, p \in Permissions : GrantAccess(c, by, u, p) \/ UpdateAccess(c, by, u, p)
          \/ \E u \in Users : RevokeAccess(c, by, u)
          \/ DeleteProject(c, by)
    \/ \E c \in Changes : Upsert(c) \/ Revoke(c) \/ Delete(c) \/ ChangeFails(c)

\* The types of the four variables of ProjectAccess.
AccessTypeOK ==
    /\ project \in {"none", "active", "deleted"}
    /\ permission \in [Users -> Permissions \cup {"none", "admin"}]
    /\ create \in [pc : {"new", "open", "done", "failed"}, by : Users \cup {Nobody},
                   left : SUBSET Users]
    /\ change \in [Changes -> [pc : {"new", "checked", "ended"},
                               kind : {"none", "grant", "update", "revoke", "delete"},
                               user : Users \cup {Nobody}, permission : Permissions \cup {"none"}]]

LEMMA NextCases ==
  ASSUME [Next]_vars
  PROVE  \/ OrgStep /\ UNCHANGED accessVars
         \/ AccessStep /\ UNCHANGED orgVars
<1>1. ASSUME AccessStep PROVE UNCHANGED orgVars
  BY <1>1 DEF AccessStep, CreateProject, SkipListed, GrantListed, CreateDone, CreateFails, Start,
     GrantAccess, UpdateAccess, RevokeAccess, DeleteProject, Upsert, Revoke, Delete, ChangeFails
<1>2. CASE UNCHANGED vars
  BY <1>2 DEF vars, OrgStep
<1>3. CASE OrgNext /\ UNCHANGED accessVars
  BY <1>3 DEF OrgStep
<1>4. Next => (OrgNext /\ UNCHANGED accessVars) \/ AccessStep
  BY DEF Next, AccessStep
<1> QED
  BY <1>1, <1>2, <1>3, <1>4

\* A request that passes its checks says what it is about to do.
LEMMA StartType ==
  ASSUME AccessTypeOK, NEW c \in Changes, NEW kind \in {"grant", "update", "revoke", "delete"},
         NEW by \in Users, NEW u \in Users, NEW p \in Permissions \cup {"none"}, NEW min,
         Start(c, kind, by, u, p, min)
  PROVE  AccessTypeOK'
BY DEF Start, AccessTypeOK

LEMMA AccessTypeStep == AccessTypeOK /\ AccessInv /\ AccessStep => AccessTypeOK'
<1> SUFFICES ASSUME AccessTypeOK, AccessInv, AccessStep PROVE AccessTypeOK'
  OBVIOUS
<1>1. ASSUME NEW u \in Users, NEW members \in SUBSET Users, CreateProject(u, members)
      PROVE  AccessTypeOK'
  BY <1>1 DEF CreateProject, AccessTypeOK
<1>2. ASSUME NEW v \in Users, SkipListed(v) PROVE AccessTypeOK'
  BY <1>2 DEF SkipListed, AccessTypeOK
<1>3. Visible \in {"none", "active", "deleted"}
      /\ WithAuthor \in [Users -> Permissions \cup {"none", "admin"}]
  BY DEF Visible, WithAuthor, AccessTypeOK
<1>4. ASSUME NEW v \in Users, NEW p \in Permissions, GrantListed(v, p) PROVE AccessTypeOK'
  BY <1>3, <1>4 DEF GrantListed, AccessTypeOK
<1>5. ASSUME CreateDone \/ CreateFails PROVE AccessTypeOK'
  BY <1>3, <1>5 DEF CreateDone, CreateFails, AccessTypeOK
<1>6. ASSUME NEW c \in Changes, NEW by \in Users, NEW u \in Users, NEW p \in Permissions,
             GrantAccess(c, by, u, p) \/ UpdateAccess(c, by, u, p)
      PROVE  AccessTypeOK'
  BY <1>6, StartType DEF GrantAccess, UpdateAccess
<1>7. ASSUME NEW c \in Changes, NEW by \in Users, NEW u \in Users, RevokeAccess(c, by, u)
      PROVE  AccessTypeOK'
  BY <1>7, StartType DEF RevokeAccess
<1>8. ASSUME NEW c \in Changes, NEW by \in Users, DeleteProject(c, by) PROVE AccessTypeOK'
  BY <1>8, StartType DEF DeleteProject
<1>9. ASSUME NEW c \in Changes, Upsert(c) PROVE AccessTypeOK'
  <2>1. change[c].user \in Users /\ change[c].permission \in Permissions
    BY <1>9 DEF Upsert, AccessInv
  <2> QED
    BY <1>9, <2>1 DEF Upsert, Request, AccessTypeOK
<1>10. ASSUME NEW c \in Changes, Revoke(c) \/ Delete(c) \/ ChangeFails(c) PROVE AccessTypeOK'
  BY <1>10 DEF Revoke, Delete, ChangeFails, Request, AccessTypeOK
<1> QED
  BY <1>1, <1>2, <1>4, <1>5, <1>6, <1>7, <1>8, <1>9, <1>10 DEF AccessStep

\* A step of the organisation takes no membership away.
LEMMA AccessInvOrgStep ==
  ASSUME OrgTypeOK, AccessInv, OrgStep, UNCHANGED accessVars
  PROVE  AccessInv'
<1>1. \A u \in Users : role[u] # "none" => role'[u] # "none"
  BY MembersStay DEF OrgStep
<1> QED
  BY <1>1 DEF accessVars, AccessInv, GrantedAreMembers, AccessHasProject

\* A request that starts knows its target.
LEMMA AccessInvStart ==
  ASSUME AccessTypeOK, AccessInv, UNCHANGED role, NEW c \in Changes, NEW kind, NEW by, NEW u \in Users,
         NEW p, NEW min, Start(c, kind, by, u, p, min),
         kind \in {"grant", "update"} => p \in Permissions /\ (role[u] # "none" \/ u = create.by)
  PROVE  AccessInv'
<1>1. /\ UNCHANGED <<project, permission, create>> /\ project = "active"
      /\ \A d \in Changes \ {c} : change'[d] = change[d]
      /\ change'[c] = [pc |-> "checked", kind |-> kind, user |-> u, permission |-> p]
  BY DEF Start, AccessTypeOK
<1> QED
  BY <1>1 DEF AccessInv, GrantedAreMembers, AccessHasProject

LEMMA AccessInvStep ==
  ASSUME AccessTypeOK, AccessInv, AccessStep, UNCHANGED orgVars
  PROVE  AccessInv'
<1> USE DEF orgVars
<1>1. ASSUME NEW u \in Users, NEW members \in SUBSET Users, CreateProject(u, members)
      PROVE  AccessInv'
  <2>1. project = "none" /\ UNCHANGED <<project, permission, change>>
        /\ create'.pc = "open" /\ create'.by = u
    BY <1>1 DEF CreateProject, AccessInv
  <2> QED
    BY <2>1 DEF AccessInv, GrantedAreMembers, AccessHasProject
<1>2. ASSUME UNCHANGED <<project, permission, change>>, create'.by = create.by,
             create.pc # "new", create'.pc # "new"
      PROVE  AccessInv'
  BY <1>2 DEF AccessInv, GrantedAreMembers, AccessHasProject
<1>3. ASSUME NEW v \in Users, SkipListed(v) PROVE AccessInv'
  BY <1>2, <1>3 DEF SkipListed, AccessTypeOK
<1>4. CreateFails => AccessInv'
  BY <1>2 DEF CreateFails, AccessTypeOK
<1>5. ASSUME create.pc = "open"
      PROVE  /\ create.by \in Users /\ Visible # "none"
             /\ \A u \in Users : WithAuthor[u] # "none" =>
                   (role[u] # "none" \/ u = create.by) /\ Visible = "active"
  <2>1. CASE project = "none"
    BY <1>5, <2>1 DEF Visible, WithAuthor, AccessTypeOK, AccessInv, GrantedAreMembers, AccessHasProject
  <2>2. CASE project # "none"
    BY <1>5, <2>2 DEF Visible, WithAuthor, AccessInv, GrantedAreMembers, AccessHasProject
  <2> QED
    BY <2>1, <2>2
<1>6. ASSUME NEW v \in Users, NEW p \in Permissions, GrantListed(v, p) PROVE AccessInv'
  <2>1. /\ create.pc = "open" /\ create'.pc = "open" /\ create'.by = create.by
        /\ UNCHANGED change /\ project' = Visible /\ permission' = [WithAuthor EXCEPT ![v] = p]
    BY <1>6 DEF GrantListed, AccessTypeOK
  <2>2. role[v] # "none" /\ Visible = "active"
    BY <1>6 DEF GrantListed, IsMember, GetMember, Visible, AccessTypeOK
  <2>3. \A u \in Users \ {v} : permission'[u] = WithAuthor[u]
    BY <2>1 DEF WithAuthor, AccessTypeOK
  <2> QED
    BY <1>5, <2>1, <2>2, <2>3 DEF AccessInv, GrantedAreMembers, AccessHasProject
<1>7. ASSUME CreateDone PROVE AccessInv'
  <2>1. /\ create.pc = "open" /\ create'.pc = "done" /\ create'.by = create.by
        /\ UNCHANGED change /\ project' = Visible /\ permission' = WithAuthor
    BY <1>7 DEF CreateDone, AccessTypeOK
  <2> QED
    BY <1>5, <2>1 DEF AccessInv, GrantedAreMembers, AccessHasProject
<1>8. ASSUME NEW c \in Changes, NEW by \in Users, NEW u \in Users, NEW p \in Permissions,
             GrantAccess(c, by, u, p)
      PROVE  AccessInv'
  <2>1. role[u] # "none" /\ Start(c, "grant", by, u, p, "approver")
    BY <1>8 DEF GrantAccess, IsMember, GetMember
  <2> QED
    BY <2>1, AccessInvStart
<1>9. ASSUME NEW c \in Changes, NEW by \in Users, NEW u \in Users, NEW p \in Permissions,
             UpdateAccess(c, by, u, p)
      PROVE  AccessInv'
  <2>1. role[u] # "none" \/ u = create.by
    BY <1>9 DEF UpdateAccess, AccessInv, GrantedAreMembers
  <2> QED
    BY <1>9, <2>1, AccessInvStart DEF UpdateAccess
<1>10. ASSUME NEW c \in Changes, NEW by \in Users, NEW u \in Users, RevokeAccess(c, by, u)
       PROVE  AccessInv'
  BY <1>10, AccessInvStart DEF RevokeAccess
<1>11. ASSUME NEW c \in Changes, NEW by \in Users, DeleteProject(c, by) PROVE AccessInv'
  BY <1>11, AccessInvStart DEF DeleteProject
<1>12. ASSUME NEW c \in Changes, change[c].pc = "checked", UNCHANGED create,
              change' = [change EXCEPT ![c] = Request("ended")],
              project' # "none",
              \A u \in Users : permission'[u] # "none" =>
                 (role[u] # "none" \/ u = create.by) /\ project' = "active"
       PROVE  AccessInv'
  <2>1. change'[c].pc = "ended" /\ \A d \in Changes \ {c} : change'[d] = change[d]
    BY <1>12 DEF Request, AccessTypeOK
  <2> QED
    BY <1>12, <2>1 DEF AccessInv, GrantedAreMembers, AccessHasProject
<1>13. ASSUME NEW c \in Changes, Upsert(c) PROVE AccessInv'
  <2>1. /\ change[c].user \in Users /\ project # "none"
        /\ role[change[c].user] # "none" \/ change[c].user = create.by
    BY <1>13 DEF Upsert, AccessInv
  <2>2. \A u \in Users : permission'[u] # "none" =>
           (role[u] # "none" \/ u = create.by) /\ project = "active"
    BY <1>13, <2>1 DEF Upsert, AccessTypeOK, AccessInv, GrantedAreMembers, AccessHasProject
  <2> QED
    BY <1>12, <1>13, <2>1, <2>2 DEF Upsert
<1>14. ASSUME NEW c \in Changes, Revoke(c) \/ ChangeFails(c) PROVE AccessInv'
  <2>1. project # "none"
    BY <1>14 DEF Revoke, ChangeFails, AccessInv
  <2>2. \A u \in Users : permission'[u] # "none" =>
           (role[u] # "none" \/ u = create.by) /\ project = "active"
    BY <1>14 DEF Revoke, ChangeFails, AccessTypeOK, AccessInv, GrantedAreMembers, AccessHasProject
  <2> QED
    BY <1>12, <1>14, <2>1, <2>2 DEF Revoke, ChangeFails
<1>15. ASSUME NEW c \in Changes, Delete(c) PROVE AccessInv'
  BY <1>12, <1>15 DEF Delete
<1> QED
  BY <1>1, <1>3, <1>4, <1>6, <1>7, <1>8, <1>9, <1>10, <1>11, <1>13, <1>14, <1>15 DEF AccessStep

-----------------------------------------------------------------------------
(* The theorems *)

Inv == TypeOK /\ OrgInv /\ AccessInv

LEMMA InitInv == Init => Inv
<1> SUFFICES ASSUME Init PROVE Inv
  OBVIOUS
<1>1. OrgTypeOK
  BY OrgAssumption DEF Init, OrgInit, OrgTypeOK, NoInvite, InviteRows, Acceptances, Cancellations
<1>2. OrgInv
  BY DEF Init, OrgInit, OrgInv, NoInvite, AcceptedAreMembers
<1>3. AccessTypeOK
  BY DEF Init, Request, AccessTypeOK
<1>4. AccessInv
  BY DEF Init, Request, AccessInv, GrantedAreMembers, AccessHasProject
<1> QED
  BY <1>1, <1>2, <1>3, <1>4 DEF Inv, TypeOK, AccessTypeOK

LEMMA NextInv == Inv /\ [Next]_vars => Inv'
<1> SUFFICES ASSUME Inv, [Next]_vars PROVE Inv'
  OBVIOUS
<1>1. OrgTypeOK /\ OrgInv /\ AccessTypeOK /\ AccessInv
  BY DEF Inv, TypeOK, AccessTypeOK
<1>2. CASE OrgStep /\ UNCHANGED accessVars
  <2>1. OrgTypeOK' /\ OrgInv'
    BY <1>1, <1>2, OrgTypeStep, OrgInvStep DEF OrgStep
  <2>2. AccessTypeOK' /\ AccessInv'
    BY <1>1, <1>2, AccessInvOrgStep DEF accessVars, AccessTypeOK
  <2> QED
    BY <2>1, <2>2 DEF Inv, TypeOK, AccessTypeOK
<1>3. CASE AccessStep /\ UNCHANGED orgVars
  <2>1. OrgTypeOK' /\ OrgInv'
    BY <1>1, <1>3, OrgTypeStep, OrgInvStep
  <2>2. AccessTypeOK' /\ AccessInv'
    BY <1>1, <1>3, AccessTypeStep, AccessInvStep
  <2> QED
    BY <2>1, <2>2 DEF Inv, TypeOK, AccessTypeOK
<1> QED
  BY <1>2, <1>3, NextCases

\* Every variable keeps its type, and requests under way name what they work on.
THEOREM TypeCorrect == Spec => []TypeOK
<1>1. Inv => TypeOK
  BY DEF Inv
<1> QED
  BY <1>1, InitInv, NextInv, PTL DEF Spec

\* Accepting an invitation makes a member, whatever overlaps with it.
THEOREM AcceptedAreMembersHolds == Spec => []AcceptedAreMembers
<1>1. Inv => AcceptedAreMembers
  BY DEF Inv, OrgInv
<1> QED
  BY <1>1, InitInv, NextInv, PTL DEF Spec

\* Access to a project is for members of its organisation and its author.
THEOREM GrantedAreMembersHolds == Spec => []GrantedAreMembers
<1>1. Inv => GrantedAreMembers
  BY DEF Inv, AccessInv
<1> QED
  BY <1>1, InitInv, NextInv, PTL DEF Spec

\* No access row is committed without its project.
THEOREM AccessHasProjectHolds == Spec => []AccessHasProject
<1>1. Inv => AccessHasProject
  BY DEF Inv, AccessInv
<1> QED
  BY <1>1, InitInv, NextInv, PTL DEF Spec

\* A cancelled invitation is never accepted, even by a link that read it before.
THEOREM CancelledNeverJoinsHolds == Spec => CancelledNeverJoins
<1>1. ASSUME Inv, [Next]_vars, NEW a \in Accepts, accept[a].pc # "done", accept'[a].pc = "done"
      PROVE  invite[accept[a].invite].status # "deleted"
  <2>1. OrgTypeOK /\ OrgInv
    BY <1>1 DEF Inv, TypeOK
  <2>2. [OrgNext]_orgVars
    BY <1>1, NextCases DEF OrgStep
  <2>3. ASSUME NEW b \in Accepts, AcceptLookup(b) \/ Join(b) \/ MarkAccepted(b) \/ AcceptFails(b)
        PROVE  accept'[a].pc # "done"
    <3>1. CASE a = b
      BY <2>1, <2>3, <3>1 DEF AcceptLookup, Join, MarkAccepted, AcceptFails, AcceptAt, OrgTypeOK
    <3>2. CASE a # b
      BY <1>1, <2>1, <2>3, <3>2, AcceptMoves, AcceptAtType
    <3> QED
      BY <3>1, <3>2
  <2>4. ASSUME NEW b \in Accepts, AcceptCommit(b) PROVE a = b /\ accept[a].pc = "marked"
    <3>1. a = b
      BY <1>1, <2>1, <2>4, AcceptMoves, AcceptAtType
    <3> QED
      BY <2>4, <3>1 DEF AcceptCommit
  <2>5. ASSUME NEW b \in Accepts, NEW i \in Invites, AcceptRead(b, i) PROVE accept'[a].pc # "done"
    BY <1>1, <2>1, <2>5 DEF AcceptRead, OrgTypeOK
  <2>6. ASSUME NEW r \in Removals, NEW by \in Users, NEW u \in Users, RemoveOrgMember(r, by, u)
        PROVE  UNCHANGED accept
    BY <2>6, RemovalFindsNobody
  <2>7. accept[a].pc = "marked"
    BY <1>1, <2>2, <2>3, <2>4, <2>5, <2>6 DEF OrgNext, orgVars, Register, SendCheck, SendCommit,
       Expire, CancelRead, CancelDelete, CancelCommit, CancelFails
  <2> QED
    BY <2>1, <2>7 DEF OrgInv
<1>2. Inv /\ [Next]_vars
        => [\A a \in Accepts : accept[a].pc # "done" /\ accept'[a].pc = "done"
               => invite[accept[a].invite].status # "deleted"]_orgVars
  BY <1>1
<1> QED
  BY <1>2, InitInv, NextInv, PTL DEF Spec, CancelledNeverJoins

\* Whoever creates a project administers it from the moment it can be seen.
THEOREM BornWithAdminHolds == Spec => BornWithAdmin
<1>1. ASSUME Inv, [Next]_vars, project = "none", project' = "active"
      PROVE  permission'[create.by] = "admin"
  <2>1. AccessStep /\ AccessTypeOK /\ AccessInv
    BY <1>1, NextCases DEF Inv, TypeOK, AccessTypeOK, accessVars
  <2>2. \A c \in Changes : change[c].pc # "checked"
    BY <1>1, <2>1 DEF AccessInv
  <2>3. \/ \E v \in Users, p \in Permissions : GrantListed(v, p)
        \/ CreateDone
    BY <1>1, <2>1, <2>2 DEF AccessStep, CreateProject, SkipListed, CreateFails, Start, GrantAccess,
       UpdateAccess, RevokeAccess, DeleteProject, Upsert, Revoke, Delete, ChangeFails
  <2>4. create.by \in Users \/ create.pc = "new"
    BY <2>1 DEF AccessInv
  <2>5. create.pc = "open" => WithAuthor[create.by] = "admin"
    BY <1>1, <2>1, <2>4 DEF WithAuthor, AccessTypeOK
  <2>6. ASSUME NEW v \in Users, NEW p \in Permissions, GrantListed(v, p)
        PROVE  permission'[create.by] = "admin"
    <3>1. v # create.by /\ create.pc = "open" /\ permission' = [WithAuthor EXCEPT ![v] = p]
      BY <2>6 DEF GrantListed
    <3> QED
      BY <2>5, <3>1
  <2>7. CreateDone => permission'[create.by] = "admin"
    BY <2>5 DEF CreateDone
  <2> QED
    BY <2>3, <2>6, <2>7
<1>2. Inv /\ [Next]_vars
        => [project = "none" /\ project' = "active" => permission'[create.by] = "admin"]_vars
  BY <1>1
<1> QED
  BY <1>2, InitInv, NextInv, PTL DEF Spec, BornWithAdmin

-----------------------------------------------------------------------------
(* The policy *)

\* A grant under way was asked for by a former or present approver, for somebody
\* else; the author was one from the start; and a row is gone with its assigner.
TrailInv ==
    /\ assigned_by \in [Users -> Users \cup {Nobody}]
    /\ asker \in [Changes -> Users \cup {Nobody}]
    /\ held \subseteq Users
    /\ Approvers(permission) \subseteq held
    /\ project # "none" => create.by \in held
    /\ \A c \in Changes : change[c].pc = "checked" /\ change[c].kind \in {"grant", "update"} =>
          asker[c] \in held /\ asker[c] # change[c].user
    /\ \A u \in Users : permission[u] = "none" => assigned_by[u] = Nobody

LEMMA Levels ==
  /\ "admin" \in Approving /\ "none" \notin Approving
  /\ permission \in [Users -> Permissions \cup {"none", "admin"}] =>
        \A u \in Users : MayDo(u, "approver") => permission[u] \in Approving
BY AccessAssumption DEF PermissionLevel, Approving, MayDo

\* The trail only adds to what ProjectAccess does.
LEMMA TrailIsAccess == [TrailNext]_trailVars => [Next]_vars
BY DEF TrailNext, trailVars, Next, Aside, CreateDoneBy, GrantListedBy, Ask, UpsertBy, RevokeBy,
   DeleteBy, ChangeFailsBy

LEMMA TrailKeepsInv == TrailSpec => []Inv
<1>1. TrailInit => Inv
  BY InitInv DEF TrailInit
<1>2. Inv /\ [TrailNext]_trailVars => Inv'
  BY NextInv, TrailIsAccess
<1> QED
  BY <1>1, <1>2, PTL DEF TrailSpec

\* What Aside leaves alone, and what it does not start.
LEMMA AsideKeeps ==
  ASSUME Inv, Aside
  PROVE  /\ UNCHANGED <<project, permission, assigned_by, asker>>
         /\ project # "none" => create'.by = create.by
         /\ \A c \in Changes : change'[c].pc = "checked" /\ change'[c].kind \in {"grant", "update"}
               => change'[c] = change[c]
<1> USE DEF Inv, TypeOK, AccessTypeOK
<1>0. UNCHANGED <<assigned_by, asker>>
  BY DEF Aside
<1>1. CASE OrgNext /\ UNCHANGED accessVars
  BY <1>0, <1>1 DEF accessVars
<1>2. ASSUME NEW u \in Users, NEW listed \in SUBSET Users, CreateProject(u, listed)
      PROVE  project = "none" /\ UNCHANGED <<project, permission, change>>
  BY <1>2 DEF CreateProject, AccessInv
<1>3. ASSUME CreateFails \/ \E v \in Users : SkipListed(v)
      PROVE  UNCHANGED <<project, permission, change>> /\ create'.by = create.by
  BY <1>3 DEF CreateFails, SkipListed
<1>4. ASSUME NEW c \in Changes, NEW by \in Users, NEW u \in Users, NEW p, NEW min,
             NEW kind \in {"revoke", "delete"}, Start(c, kind, by, u, p, min)
      PROVE  /\ UNCHANGED <<project, permission, create>>
             /\ \A d \in Changes : change'[d].kind \in {"grant", "update"} => change'[d] = change[d]
  BY <1>4 DEF Start
<1>5. ASSUME NEW c \in Changes, NEW by \in Users,
             DeleteProject(c, by) \/ \E u \in Users : RevokeAccess(c, by, u)
      PROVE  /\ UNCHANGED <<project, permission, create>>
             /\ \A d \in Changes : change'[d].kind \in {"grant", "update"} => change'[d] = change[d]
  BY <1>4, <1>5 DEF DeleteProject, RevokeAccess
<1> QED
  BY <1>0, <1>1, <1>2, <1>3, <1>5 DEF Aside

\* The author's part of the first commit, and the rows it makes.
LEMMA FirstCommit ==
  ASSUME Inv, TrailInv, create.pc = "open"
  PROVE  /\ create.by \in Users
         /\ WithAuthor \in [Users -> Permissions \cup {"none", "admin"}]
         /\ ByAuthor \in [Users -> Users \cup {Nobody}]
         /\ \A u \in Users : WithAuthor[u] = "none" => ByAuthor[u] = Nobody
         /\ project = "none" => WithAuthor[create.by] = "admin"
         /\ project # "none" => WithAuthor = permission /\ ByAuthor = assigned_by
BY DEF Inv, TypeOK, AccessTypeOK, AccessInv, TrailInv, WithAuthor, ByAuthor

LEMMA TrailStep == Inv /\ TrailInv /\ [TrailNext]_trailVars => TrailInv'
<1> SUFFICES ASSUME Inv, TrailInv, TrailNext PROVE TrailInv'
  BY DEF TrailInv, trailVars, vars, accessVars, Approvers
<1> USE DEF Inv, TypeOK, AccessTypeOK
<1>1. held' = held \cup Approvers(permission')
  BY DEF TrailNext
<1>2. held \subseteq held' /\ held' \subseteq Users /\ Approvers(permission') \subseteq held'
  BY <1>1 DEF TrailInv, Approvers
<1>3. CASE Aside
  BY <1>2, <1>3, AsideKeeps DEF TrailInv
<1>4. ASSUME create.pc = "open", project' = Visible, create'.by = create.by, UNCHANGED change,
             UNCHANGED asker, permission'[create.by] = WithAuthor[create.by]
      PROVE  /\ project' # "none" => create'.by \in held'
             /\ \A c \in Changes : change'[c].pc = "checked" /\ change'[c].kind \in {"grant", "update"} =>
                   asker'[c] \in held' /\ asker'[c] # change'[c].user
  <2>1. project = "none" => create.by \in Approvers(permission')
    BY <1>4, FirstCommit, Levels DEF Approvers
  <2> QED
    BY <1>1, <1>2, <1>4, <2>1 DEF TrailInv, Visible
<1>5. CASE CreateDoneBy
  <2>1. /\ create.pc = "open" /\ project' = Visible /\ create'.by = create.by
        /\ UNCHANGED <<change, asker>>
        /\ permission' = WithAuthor /\ assigned_by' = ByAuthor
    BY <1>5 DEF CreateDoneBy, CreateDone
  <2> QED
    BY <1>2, <1>4, <2>1, FirstCommit DEF TrailInv
<1>6. ASSUME NEW v \in Users, NEW p \in Permissions, GrantListedBy(v, p) PROVE TrailInv'
  <2>1. /\ create.pc = "open" /\ project' = Visible /\ create'.by = create.by /\ v # create.by
        /\ UNCHANGED <<change, asker>>
        /\ permission' = [WithAuthor EXCEPT ![v] = p]
        /\ assigned_by' = [ByAuthor EXCEPT ![v] = create.by]
    BY <1>6 DEF GrantListedBy, GrantListed
  <2>2. permission'[create.by] = WithAuthor[create.by]
    BY <2>1, FirstCommit
  <2>3. /\ assigned_by' \in [Users -> Users \cup {Nobody}]
        /\ \A u \in Users : permission'[u] = "none" => assigned_by'[u] = Nobody
    BY <2>1, FirstCommit, AccessAssumption
  <2> QED
    BY <1>2, <1>4, <2>1, <2>2, <2>3 DEF TrailInv
<1>7. ASSUME NEW c \in Changes, NEW by \in Users, NEW u \in Users, NEW p \in Permissions,
             Ask(c, by, u, p)
      PROVE  TrailInv'
  <2>1. /\ u # by /\ asker' = [asker EXCEPT ![c] = by]
        /\ UNCHANGED <<project, permission, create, assigned_by>>
        /\ MayDo(by, "approver")
        /\ change'[c].user = u /\ \A d \in Changes \ {c} : change'[d] = change[d]
    BY <1>7 DEF Ask, GrantAccess, UpdateAccess, Start
  <2>2. by \in held
    BY <2>1, Levels DEF TrailInv, Approvers
  <2> QED
    BY <1>2, <2>1, <2>2 DEF TrailInv
<1>8. ASSUME NEW c \in Changes, change[c].pc = "checked", UNCHANGED create, Forget(c),
             project' # "none", change' = [change EXCEPT ![c] = Request("ended")],
             assigned_by' \in [Users -> Users \cup {Nobody}],
             \A u \in Users : permission'[u] = "none" => assigned_by'[u] = Nobody
      PROVE  TrailInv'
  <2>1. change'[c].pc = "ended" /\ asker' \in [Changes -> Users \cup {Nobody}]
        /\ \A d \in Changes \ {c} : change'[d] = change[d] /\ asker'[d] = asker[d]
    BY <1>8 DEF Request, Forget, TrailInv
  <2>2. project # "none" /\ create'.by \in held'
    BY <1>2, <1>8 DEF AccessInv, TrailInv
  <2>3. \A d \in Changes : change'[d].pc = "checked" /\ change'[d].kind \in {"grant", "update"} =>
            asker'[d] \in held' /\ asker'[d] # change'[d].user
    BY <1>2, <2>1 DEF TrailInv
  <2> QED
    BY <1>2, <1>8, <2>1, <2>2, <2>3 DEF TrailInv
<1>9. ASSUME NEW c \in Changes, UpsertBy(c) PROVE TrailInv'
  <2>1. /\ change[c].user \in Users /\ change[c].permission \in Permissions /\ project # "none"
        /\ asker[c] \in Users
    BY <1>9 DEF UpsertBy, Upsert, AccessInv, TrailInv
  <2>2. /\ assigned_by' \in [Users -> Users \cup {Nobody}]
        /\ \A u \in Users : permission'[u] = "none" => assigned_by'[u] = Nobody
    BY <1>9, <2>1, AccessAssumption DEF UpsertBy, Upsert, TrailInv
  <2> QED
    BY <1>8, <1>9, <2>1, <2>2 DEF UpsertBy, Upsert
<1>10. ASSUME NEW c \in Changes, RevokeBy(c) PROVE TrailInv'
  <2>1. change[c].user \in Users /\ project # "none"
    BY <1>10 DEF RevokeBy, Revoke, AccessInv
  <2>2. /\ assigned_by' \in [Users -> Users \cup {Nobody}]
        /\ \A u \in Users : permission'[u] = "none" => assigned_by'[u] = Nobody
    BY <1>10, <2>1 DEF RevokeBy, Revoke, TrailInv
  <2> QED
    BY <1>8, <1>10, <2>1, <2>2 DEF RevokeBy, Revoke
<1>11. ASSUME NEW c \in Changes, DeleteBy(c) PROVE TrailInv'
  BY <1>8, <1>11 DEF DeleteBy, Delete
<1>12. ASSUME NEW c \in Changes, ChangeFailsBy(c) PROVE TrailInv'
  <2>1. project # "none"
    BY <1>12 DEF ChangeFailsBy, ChangeFails, AccessInv
  <2> QED
    BY <1>8, <1>12, <2>1 DEF ChangeFailsBy, ChangeFails, TrailInv
<1> QED
  BY <1>3, <1>5, <1>6, <1>7, <1>9, <1>10, <1>11, <1>12 DEF TrailNext

Members == {u \in Users : role[u] # "none"}

\* The organisation grows by one at a time.
LEMMA MembersJoin ==
  ASSUME OrgTypeOK, [OrgNext]_orgVars
  PROVE  \/ UNCHANGED role
         \/ \E v \in Users : Members' = Members \cup {v}
<1>1. ASSUME NEW a \in Accepts, AcceptCommit(a)
      PROVE  UNCHANGED role \/ \E v \in Users : Members' = Members \cup {v}
  <2>1. UserOf(a) \in Users \/ UNCHANGED role
    BY <1>1 DEF AcceptCommit, UserOf, OrgTypeOK, InviteRows
  <2>2. CASE accept[a].adds /\ UserOf(a) \in Users
    <3>1. \A u \in Users \ {UserOf(a)} : role'[u] = role[u]
      BY <1>1, <2>2 DEF AcceptCommit, OrgTypeOK
    <3>2. role'[UserOf(a)] # "none"
      BY <1>1, <2>2 DEF AcceptCommit, UserOf, OrgTypeOK, InviteRows
    <3> QED
      BY <2>2, <3>1, <3>2 DEF Members
  <2>3. CASE ~accept[a].adds
    BY <1>1, <2>3 DEF AcceptCommit
  <2> QED
    BY <2>1, <2>2, <2>3
<1>2. ASSUME NEW r \in Removals, NEW by \in Users, NEW v \in Users, RemoveOrgMember(r, by, v)
      PROVE  UNCHANGED role
  BY <1>2, RemovalFindsNobody
<1> QED
  BY <1>1, <1>2 DEF OrgNext, orgVars, Register, SendCheck, SendCommit, Expire, AcceptRead,
     AcceptLookup, Join, MarkAccepted, AcceptFails, CancelRead, CancelDelete, CancelCommit,
     CancelFails

LEMMA PolicyInit == TrailInit => Policy!Init
BY DEF TrailInit, Init, Policy!Init

LEMMA PolicyStep ==
  ASSUME Inv, Inv', TrailInv, [TrailNext]_trailVars
  PROVE  [Policy!Next]_(Policy!vars)
<1> DEFINE Quiet == UNCHANGED <<project, permission, assigned_by>>
           Act == \/ \E u \in Users : Policy!Join(u) \/ Policy!Create(u) \/ Policy!Take(u)
                  \/ \E by, u \in Users, p \in Permissions : Policy!Give(by, u, p)
                  \/ Policy!Delete
<1> USE DEF Inv, TypeOK, AccessTypeOK
<1>1. CASE UNCHANGED trailVars
  BY <1>1 DEF trailVars, vars, orgVars, accessVars, Policy!vars
<1>2. ASSUME TrailNext, Act PROVE Policy!Next
  BY <1>2 DEF TrailNext, Approvers, Policy!Next
<1>3. ASSUME TrailNext, Quiet, UNCHANGED role PROVE UNCHANGED Policy!vars
  <2>1. held' = held
    BY <1>3 DEF TrailNext, TrailInv
  <2> QED
    BY <1>3, <2>1 DEF Policy!vars
<1>4. ASSUME TrailNext, Aside PROVE Policy!Next \/ UNCHANGED Policy!vars
  <2>1. Quiet
    BY <1>4, AsideKeeps
  <2>2. [OrgNext]_orgVars
    BY <1>4, TrailIsAccess, NextCases DEF OrgStep
  <2>3. CASE UNCHANGED role
    BY <1>3, <1>4, <2>1, <2>3
  <2>4. ASSUME NEW v \in Users, Members' = Members \cup {v} PROVE Policy!Join(v)
    BY <2>1, <2>4 DEF Policy!Join, Members
  <2> QED
    BY <1>2, <1>4, <2>2, <2>3, <2>4, MembersJoin
<1>5. ASSUME CreateDoneBy PROVE (Quiet /\ UNCHANGED role) \/ Act
  <2>1. create.pc = "open" /\ create.by \in Users /\ UNCHANGED role
    BY <1>5, FirstCommit DEF CreateDoneBy, CreateDone, orgVars
  <2>2. CASE project = "none"
    <3>1. Policy!Create(create.by)
      BY <1>5, <2>1, <2>2
         DEF CreateDoneBy, CreateDone, Visible, WithAuthor, ByAuthor, Policy!Create
    <3> QED
      BY <2>1, <3>1
  <2>3. CASE project # "none"
    BY <1>5, <2>1, <2>3 DEF CreateDoneBy, CreateDone, Visible, WithAuthor, ByAuthor
  <2> QED
    BY <2>2, <2>3
<1>6. ASSUME NEW v \in Users, NEW p \in Permissions, GrantListedBy(v, p) PROVE Act
  <2>1. /\ create.pc = "open" /\ create.by \in Users /\ UNCHANGED role
        /\ v # create.by /\ role[v] # "none"
        /\ project # "deleted" /\ project' = Visible
        /\ permission' = [WithAuthor EXCEPT ![v] = p]
        /\ assigned_by' = [ByAuthor EXCEPT ![v] = create.by]
    BY <1>6, FirstCommit DEF GrantListedBy, GrantListed, IsMember, GetMember, orgVars
  <2>2. CASE project = "none"
    <3>1. /\ project' = "active"
          /\ permission' = [permission EXCEPT ![create.by] = "admin", ![v] = p]
          /\ assigned_by' = [assigned_by EXCEPT ![create.by] = create.by, ![v] = create.by]
      BY <2>1, <2>2 DEF Visible, WithAuthor, ByAuthor
    <3>2. Policy!Create(create.by)
      BY <2>1, <2>2, <3>1 DEF Policy!Create
    <3> QED
      BY <2>1, <3>2
  <2>3. CASE project # "none"
    <3>1. /\ project = "active" /\ UNCHANGED project /\ create.by \in held
          /\ permission' = [permission EXCEPT ![v] = p]
          /\ assigned_by' = [assigned_by EXCEPT ![v] = create.by]
      BY <2>1, <2>3 DEF Visible, WithAuthor, ByAuthor, TrailInv
    <3>2. Policy!Give(create.by, v, p)
      BY <2>1, <3>1 DEF Policy!Give
    <3> QED
      BY <2>1, <3>2
  <2> QED
    BY <2>2, <2>3
<1>7. ASSUME NEW c \in Changes, NEW by \in Users, NEW u \in Users, NEW p \in Permissions,
             Ask(c, by, u, p)
      PROVE  Quiet /\ UNCHANGED role
  BY <1>7 DEF Ask, GrantAccess, UpdateAccess, Start, orgVars
<1>8. ASSUME NEW c \in Changes, UpsertBy(c) PROVE (Quiet /\ UNCHANGED role) \/ Act
  <2>1. /\ UNCHANGED <<role, project>>
        /\ change[c].user \in Users /\ change[c].permission \in Permissions
        /\ asker[c] \in held /\ asker[c] \in Users /\ asker[c] # change[c].user
        /\ role[change[c].user] # "none" \/ change[c].user = create.by
    BY <1>8 DEF UpsertBy, Upsert, AccessInv, TrailInv, orgVars
  <2>2. CASE project = "active"
    <3>1. /\ permission' = [permission EXCEPT ![change[c].user] = change[c].permission]
          /\ assigned_by' = [assigned_by EXCEPT ![change[c].user] = asker[c]]
          /\ create.by \in held
      BY <1>8, <2>2 DEF UpsertBy, Upsert, TrailInv
    <3>2. Policy!Give(asker[c], change[c].user, change[c].permission)
      BY <2>1, <2>2, <3>1 DEF Policy!Give
    <3> QED
      BY <2>1, <3>2
  <2>3. CASE project # "active"
    BY <1>8, <2>1, <2>3 DEF UpsertBy, Upsert
  <2> QED
    BY <2>2, <2>3
<1>9. project = "deleted" => \A u \in Users : permission[u] = "none" /\ assigned_by[u] = Nobody
  BY DEF AccessInv, AccessHasProject, TrailInv
<1>10. ASSUME NEW c \in Changes, RevokeBy(c) PROVE (Quiet /\ UNCHANGED role) \/ Act
  <2>1. /\ UNCHANGED <<role, project>> /\ change[c].user \in Users /\ project # "none"
        /\ permission' = [permission EXCEPT ![change[c].user] = "none"]
        /\ assigned_by' = [assigned_by EXCEPT ![change[c].user] = Nobody]
    BY <1>10 DEF RevokeBy, Revoke, AccessInv, orgVars
  <2>2. CASE project = "active"
    <3>1. Policy!Take(change[c].user)
      BY <2>1, <2>2 DEF Policy!Take
    <3> QED
      BY <2>1, <3>1
  <2>3. CASE project = "deleted"
    BY <1>9, <2>1, <2>3 DEF TrailInv
  <2> QED
    BY <2>1, <2>2, <2>3
<1>11. ASSUME NEW c \in Changes, DeleteBy(c) PROVE (Quiet /\ UNCHANGED role) \/ Act
  <2>1. /\ UNCHANGED role /\ project # "none" /\ project' = "deleted"
        /\ permission' = [u \in Users |-> "none"]
        /\ assigned_by' = [u \in Users |-> Nobody]
    BY <1>11 DEF DeleteBy, Delete, AccessInv, orgVars
  <2>2. CASE project = "active"
    BY <2>1, <2>2 DEF Policy!Delete
  <2>3. CASE project = "deleted"
    BY <1>9, <2>1, <2>3 DEF TrailInv
  <2> QED
    BY <2>1, <2>2, <2>3
<1>12. ASSUME NEW c \in Changes, ChangeFailsBy(c) PROVE Quiet /\ UNCHANGED role
  BY <1>12 DEF ChangeFailsBy, ChangeFails, orgVars
<1> HIDE DEF Act, Quiet
<1> QED
  BY <1>1, <1>2, <1>3, <1>4, <1>5, <1>6, <1>7, <1>8, <1>10, <1>11, <1>12 DEF TrailNext

\* Every write of access, late as it is, is one the policy allows at that moment.
THEOREM ImplementsPolicyHolds == TrailSpec => ImplementsPolicy
<1>1. TrailInit => TrailInv
  BY Levels DEF TrailInit, Init, TrailInv, Approvers, Request
<1>2. TrailSpec => []TrailInv
  BY <1>1, TrailStep, TrailKeepsInv, PTL DEF TrailSpec
<1> QED
  BY <1>2, TrailKeepsInv, PolicyInit, PolicyStep, PTL
     DEF TrailSpec, ImplementsPolicy, Policy!Spec
=============================================================================
