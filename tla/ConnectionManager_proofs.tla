---------------------- MODULE ConnectionManager_proofs ----------------------
(***************************************************************************)
(* Proofs about ConnectionManager, for any sockets, projects and number of *)
(* writes: the registry is exact, and a client that connects first and     *)
(* fetches then misses no announced state.                                 *)
(***************************************************************************)
EXTENDS ConnectionManager, TLAPS

\* One send: a peer that is there receives the payload, another may be marked broken.
LEMMA SendStep ==
    ASSUME TypeOK, NEW s \in cast.todo, Send(s)
    PROVE  /\ s \in Sockets
           /\ cast.pc = "sending"
           /\ cast'.pc = "sending" /\ cast'.project = cast.project /\ cast'.payload = cast.payload
           /\ cast'.todo = cast.todo \ {s}
           /\ \/ /\ up[s] /\ known' = [known EXCEPT ![s] = cast.payload]
                 /\ cast'.broken = cast.broken
              \/ /\ ~up[s] /\ known' = known
                 /\ cast'.broken = cast.broken \/ cast'.broken = cast.broken \cup {s}
           /\ cast' \in [pc : {"idle", "read", "sending"}, project : Projects \cup {NoProject},
                         payload : Nat, todo : SUBSET Sockets, broken : SUBSET Sockets]
<1>1. s \in Sockets
  BY DEF TypeOK
<1>2. CASE up[s]
  BY <1>1, <1>2 DEF Send, TypeOK
<1>3. CASE ~up[s]
  <2>1. PICK broken \in SUBSET {s} :
            cast' = [cast EXCEPT !.todo = @ \ {s}, !.broken = @ \cup broken]
    BY <1>3 DEF Send
  <2>2. broken = {} \/ broken = {s}
    BY <2>1
  <2>3. QED
    BY <1>1, <1>3, <2>1, <2>2 DEF Send, TypeOK
<1>4. QED
  BY <1>2, <1>3

LEMMA TypeInit == Init => TypeOK
  BY ConstantsAssumption DEF Init, TypeOK, Idle

LEMMA TypeStep == TypeOK /\ [Next]_vars => TypeOK'
<1> SUFFICES ASSUME TypeOK, [Next]_vars PROVE TypeOK'
  OBVIOUS
<1> USE ConstantsAssumption DEF TypeOK, Idle, SocketsOf, Updated, Pruned
<1>1. ASSUME NEW s \in Sockets, Refuse(s) PROVE TypeOK'
  BY <1>1 DEF Refuse
<1>2. ASSUME NEW s \in Sockets, Accept(s) PROVE TypeOK'
  BY <1>2 DEF Accept
<1>3. ASSUME NEW s \in Sockets, Connect(s) PROVE TypeOK'
  BY <1>3 DEF Connect
<1>4. ASSUME NEW s \in Sockets, Leave(s) PROVE TypeOK'
  BY <1>4 DEF Leave
<1>5. ASSUME NEW s \in Sockets, Disconnect(s) PROVE TypeOK'
  BY <1>5 DEF Disconnect
<1>6. ASSUME NEW s \in Sockets, LinkLost(s) PROVE TypeOK'
  BY <1>6 DEF LinkLost
<1>7. ASSUME NEW s \in Sockets, Fetch(s) PROVE TypeOK'
  BY <1>7 DEF Fetch
<1>8. ASSUME NEW p \in Projects, Write(p) PROVE TypeOK'
  BY <1>8 DEF Write
<1>9. ASSUME NEW p \in Projects, Announce(p) PROVE TypeOK'
  BY <1>9 DEF Announce
<1>10. ASSUME NEW p \in Projects, Handle(p) PROVE TypeOK'
  <2>1. cast' = [pc |-> "read", project |-> p, payload |-> row[p], todo |-> {}, broken |-> {}]
    BY <1>10 DEF Handle
  <2>2. pending' \in [Projects -> Nat]
    BY <1>10 DEF Handle
  <2>3. QED
    BY <1>10, <2>1, <2>2 DEF Handle
<1>11. ASSUME Snapshot PROVE TypeOK'
  BY <1>11 DEF Snapshot
<1>12. ASSUME NEW s \in cast.todo, Send(s) PROVE TypeOK'
  <2>1. UNCHANGED <<handler, up, conns, row, told, unsent, pending, fetched>>
    BY <1>12 DEF Send
  <2>2. QED
    BY <1>12, <2>1, SendStep
<1>13. ASSUME DropBroken PROVE TypeOK'
  BY <1>13 DEF DropBroken
<1>14. ASSUME NEW p \in Projects, Cancel(p) PROVE TypeOK'
  BY <1>14 DEF Cancel
<1>15. CASE UNCHANGED vars
  BY <1>15 DEF vars
<1>16. QED
  BY <1>1, <1>2, <1>3, <1>4, <1>5, <1>6, <1>7, <1>8, <1>9, <1>10, <1>11, <1>12, <1>13, <1>14, <1>15
  DEF Next

\* Every variable keeps to its values.
THEOREM TypeCorrect == Spec => []TypeOK
  BY TypeInit, TypeStep, PTL DEF Spec

-----------------------------------------------------------------------------

LEMMA RegistryInit == Init => RegistryInv
  BY DEF Init, RegistryInv, NoEmptyKeys, OnlyLiveHandlers, Idle

LEMMA RegistryStep == TypeOK /\ RegistryInv /\ [Next]_vars => RegistryInv'
<1> SUFFICES ASSUME TypeOK, RegistryInv, [Next]_vars PROVE RegistryInv'
  OBVIOUS
<1> USE ConstantsAssumption DEF TypeOK, RegistryInv, NoEmptyKeys, OnlyLiveHandlers, SocketsOf,
        Updated, Pruned, Idle
<1>1. ASSUME NEW s \in Sockets, Refuse(s) PROVE RegistryInv'
  BY <1>1 DEF Refuse
<1>2. ASSUME NEW s \in Sockets, Accept(s) PROVE RegistryInv'
  BY <1>2 DEF Accept
<1>3. ASSUME NEW s \in Sockets, Connect(s) PROVE RegistryInv'
  <2> DEFINE p == ProjectOf[s]
  <2>1. p \in Projects
    OBVIOUS
  <2>2. /\ DOMAIN conns' = DOMAIN conns \cup {p}
        /\ conns'[p] = SocketsOf(p) \cup {s}
        /\ \A q \in DOMAIN conns : q # p => conns'[q] = conns[q]
    BY <1>3 DEF Connect
  <2>3. /\ UNCHANGED <<up, cast>>
        /\ handler' = [handler EXCEPT ![s] = "registered"]
    BY <1>3 DEF Connect
  <2>4. NoEmptyKeys'
    BY <2>2
  <2>5. OnlyLiveHandlers'
    BY <2>2, <2>3
  <2>6. ASSUME NEW t \in Sockets, handler'[t] = "registered", up'[t]
        PROVE  t \in SocketsOf(ProjectOf[t])'
    BY <2>2, <2>3, <2>6
  <2>7. QED
    BY <2>3, <2>4, <2>5, <2>6
<1>4. ASSUME NEW s \in Sockets, Leave(s) PROVE RegistryInv'
  BY <1>4 DEF Leave
<1>5. ASSUME NEW s \in Sockets, Disconnect(s) PROVE RegistryInv'
  BY <1>5 DEF Disconnect
<1>6. ASSUME NEW s \in Sockets, LinkLost(s) PROVE RegistryInv'
  BY <1>6 DEF LinkLost
<1>7. ASSUME NEW s \in Sockets, Fetch(s) PROVE RegistryInv'
  BY <1>7 DEF Fetch
<1>8. ASSUME NEW p \in Projects, Write(p) PROVE RegistryInv'
  BY <1>8 DEF Write
<1>9. ASSUME NEW p \in Projects, Announce(p) PROVE RegistryInv'
  BY <1>9 DEF Announce
<1>10. ASSUME NEW p \in Projects, Handle(p) PROVE RegistryInv'
  BY <1>10 DEF Handle
<1>11. ASSUME Snapshot PROVE RegistryInv'
  BY <1>11 DEF Snapshot
<1>12. ASSUME NEW s \in cast.todo, Send(s) PROVE RegistryInv'
  <2>1. UNCHANGED <<handler, up, conns, row, told, unsent, pending, fetched>>
    BY <1>12 DEF Send
  <2>2. QED
    BY <1>12, <2>1, SendStep
<1>13. ASSUME DropBroken PROVE RegistryInv'
  BY <1>13 DEF DropBroken
<1>14. ASSUME NEW p \in Projects, Cancel(p) PROVE RegistryInv'
  BY <1>14 DEF Cancel
<1>15. CASE UNCHANGED vars
  BY <1>15 DEF vars
<1>16. QED
  BY <1>1, <1>2, <1>3, <1>4, <1>5, <1>6, <1>7, <1>8, <1>9, <1>10, <1>11, <1>12, <1>13, <1>14, <1>15
  DEF Next

\* The registry agrees with the handlers and the broadcast under way.
THEOREM RegistryInvariant == Spec => []RegistryInv
  BY RegistryInit, RegistryStep, TypeCorrect, PTL DEF Spec

\* The dict has a key only for a project with a socket.
THEOREM NoEmptyKeysHolds == Spec => []NoEmptyKeys
  BY RegistryInvariant, PTL DEF RegistryInv

\* The registry holds a socket under its project and only while its handler runs.
THEOREM OnlyLiveHandlersHolds == Spec => []OnlyLiveHandlers
  BY RegistryInvariant, PTL DEF RegistryInv

-----------------------------------------------------------------------------

LEMMA KnownInit == Init => KnownInv
  BY ConstantsAssumption DEF Init, KnownInv, Idle

LEMMA KnownStep == TypeOK /\ RegistryInv /\ KnownInv /\ [Next]_vars => KnownInv'
<1> SUFFICES ASSUME TypeOK, RegistryInv, KnownInv, [Next]_vars PROVE KnownInv'
  OBVIOUS
<1> USE ConstantsAssumption DEF TypeOK, KnownInv, Idle
<1>1. ASSUME NEW s \in Sockets, Refuse(s) PROVE KnownInv'
  BY <1>1 DEF Refuse
<1>2. ASSUME NEW s \in Sockets, Accept(s) PROVE KnownInv'
  BY <1>2 DEF Accept
<1>3. ASSUME NEW s \in Sockets, Connect(s) PROVE KnownInv'
  BY <1>3 DEF Connect
<1>4. ASSUME NEW s \in Sockets, Leave(s) PROVE KnownInv'
  BY <1>4 DEF Leave
<1>5. ASSUME NEW s \in Sockets, Disconnect(s) PROVE KnownInv'
  BY <1>5 DEF Disconnect
<1>6. ASSUME NEW s \in Sockets, LinkLost(s) PROVE KnownInv'
  BY <1>6 DEF LinkLost
<1>7. ASSUME NEW s \in Sockets, Fetch(s) PROVE KnownInv'
  BY <1>7 DEF Fetch
<1>8. ASSUME NEW p \in Projects, Write(p) PROVE KnownInv'
  BY <1>8 DEF Write
<1>9. ASSUME NEW p \in Projects, Announce(p) PROVE KnownInv'
  BY <1>9 DEF Announce
<1>10. ASSUME NEW p \in Projects, Handle(p) PROVE KnownInv'
  BY <1>10 DEF Handle
<1>11. ASSUME Snapshot PROVE KnownInv'
  BY <1>11 DEF Snapshot, RegistryInv
<1>12. ASSUME NEW s \in cast.todo, Send(s) PROVE KnownInv'
  <2>1. UNCHANGED <<handler, up, conns, row, told, unsent, pending, fetched>>
    BY <1>12 DEF Send
  <2>2. /\ cast.pc = "sending" /\ cast'.pc = "sending"
        /\ cast'.project = cast.project /\ cast'.payload = cast.payload
        /\ cast'.todo = cast.todo \ {s}
    BY <1>12, SendStep
  <2>3. ASSUME NEW t \in Sockets, handler[t] = "registered", up[t], fetched[t]
        PROVE  \/ known'[t] >= told[ProjectOf[t]] \/ ProjectOf[t] \in unsent
               \/ pending[ProjectOf[t]] > 0
               \/ cast'.project = ProjectOf[t] /\ t \in cast'.todo
    <3>1. CASE t = s
      <4>1. known'[s] = cast.payload
        BY <1>12, <2>3, <3>1, SendStep
      <4>2. ProjectOf[s] = cast.project
        BY DEF RegistryInv
      <4>3. QED
        BY <2>3, <3>1, <4>1, <4>2
    <3>2. CASE t # s
      <4>1. known'[t] = known[t]
        BY <1>12, <3>2, SendStep
      <4>2. QED
        BY <2>2, <2>3, <3>2, <4>1
    <3>3. QED
      BY <3>1, <3>2
  <2>4. ASSUME NEW t \in Sockets PROVE known'[t] <= row[ProjectOf[t]]
    <3>1. CASE t = s
      <4>1. known'[s] = known[s] \/ known'[s] = cast.payload
        BY <1>12, SendStep
      <4>2. ProjectOf[s] = cast.project
        BY DEF RegistryInv
      <4>3. QED
        BY <3>1, <4>1, <4>2
    <3>2. CASE t # s
      <4>1. known'[t] = known[t]
        BY <1>12, <3>2, SendStep
      <4>2. QED
        BY <4>1
    <3>3. QED
      BY <3>1, <3>2
  <2>5. QED
    BY <2>1, <2>2, <2>3, <2>4
<1>13. ASSUME DropBroken PROVE KnownInv'
  BY <1>13 DEF DropBroken
<1>14. ASSUME NEW p \in Projects, Cancel(p) PROVE KnownInv'
  BY <1>14 DEF Cancel
<1>15. CASE UNCHANGED vars
  BY <1>15 DEF vars
<1>16. QED
  BY <1>1, <1>2, <1>3, <1>4, <1>5, <1>6, <1>7, <1>8, <1>9, <1>10, <1>11, <1>12, <1>13, <1>14, <1>15
  DEF Next

LEMMA KnownInvariant == Spec => []KnownInv
  BY KnownInit, KnownStep, TypeCorrect, RegistryInvariant, PTL DEF Spec

\* With no announcement under way, a client that connected and then fetched knows the
\* newest announced state or a later one: nothing but a cancellation leaves it behind.
THEOREM ConnectedKnowsAnnouncedHolds == Spec => []ConnectedKnowsAnnounced
<1>1. TypeOK /\ KnownInv => ConnectedKnowsAnnounced
  BY ConstantsAssumption DEF TypeOK, KnownInv, ConnectedKnowsAnnounced
<1>2. QED
  BY <1>1, TypeCorrect, KnownInvariant, PTL

=============================================================================
