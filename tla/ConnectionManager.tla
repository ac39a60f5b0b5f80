------------------------- MODULE ConnectionManager -------------------------
(***************************************************************************)
(* The WebSocket side of the status feed: the handler of each socket, the  *)
(* in-process registry keyed by project, and the three phases of a         *)
(* broadcast (snapshot under the lock, one awaited send per socket, clean  *)
(* up under the lock), driven by the job consumer.  No await happens while *)
(* the lock is held, so each locked section is one action.                 *)
(*                                                                         *)
(* Source: src/src/modules/websocket/{connection_manager,routes,auth}.py   *)
(* and NATSConsumer._handle_result.  Each project has one job here; the    *)
(* state of a job is the number of times it has been written.              *)
(***************************************************************************)
EXTENDS Naturals, FiniteSets

CONSTANTS
    Sockets,     \* WebSocket connections, each used once
    Projects,    \* project ids
    ProjectOf,   \* the project in the URL of each socket
    NoProject,   \* "no broadcast under way"
    MaxWrites    \* bound on the writes of each job

ASSUME ConstantsAssumption ==
    /\ ProjectOf \in [Sockets -> Projects]
    /\ NoProject \notin Projects
    /\ MaxWrites \in Nat

VARIABLES
    handler,   \* where ws_jobs is for each socket
    up,        \* whether the peer is still there
    conns,     \* _connections: a dict from project ids to sets of sockets
    row,       \* writes of each job committed, by the worker or by a cancellation
    told,      \* the newest state of each job whose writer announces it
    unsent,    \* jobs the worker has written and not yet announced
    pending,   \* notifications on the stream, for each job
    cast,      \* the consumer: [pc, project, payload, todo, broken]
    known,     \* the newest state each client has seen, fetched or received
    fetched    \* whether the client has fetched the job since it was registered

vars == <<handler, up, conns, row, told, unsent, pending, cast, known, fetched>>

Idle == [pc |-> "idle", project |-> NoProject, payload |-> 0, todo |-> {}, broken |-> {}]

\* self._connections.get(p, set())
SocketsOf(p) == IF p \in DOMAIN conns THEN conns[p] ELSE {}

\* The dict with p's set replaced, and without p's key when nothing is left.
Updated(p, sockets) ==
    [q \in (DOMAIN conns \cup {p}) |-> IF q = p THEN sockets ELSE conns[q]]

Pruned(p, sockets) ==
    IF sockets # {} THEN Updated(p, sockets)
    ELSE [q \in (DOMAIN conns \ {p}) |-> conns[q]]

Init ==
    /\ handler = [s \in Sockets |-> "new"]
    /\ up = [s \in Sockets |-> TRUE]
    /\ conns = [p \in {} |-> {}]
    /\ row = [p \in Projects |-> 0]
    /\ told = [p \in Projects |-> 0]
    /\ unsent = {}
    /\ pending = [p \in Projects |-> 0]
    /\ cast = Idle
    /\ known = [s \in Sockets |-> 0]
    /\ fetched = [s \in Sockets |-> FALSE]

-----------------------------------------------------------------------------
(* ws_jobs, one handler for each socket *)

\* authenticate_ws refuses: the socket is closed with 4401 or 4403.
Refuse(s) ==
    /\ handler[s] = "new"
    /\ handler' = [handler EXCEPT ![s] = "closed"]
    /\ UNCHANGED <<up, conns, row, told, unsent, pending, cast, known, fetched>>

\* Authenticated, and the handshake is accepted; a peer that left fails it.
Accept(s) ==
    /\ handler[s] = "new"
    /\ handler' = [handler EXCEPT ![s] = IF up[s] THEN "accepted" ELSE "closed"]
    /\ UNCHANGED <<up, conns, row, told, unsent, pending, cast, known, fetched>>

\* setdefault(project_id, set()).add(websocket), under the lock.
Connect(s) ==
    /\ handler[s] = "accepted"
    /\ conns' = Updated(ProjectOf[s], SocketsOf(ProjectOf[s]) \cup {s})
    /\ handler' = [handler EXCEPT ![s] = "registered"]
    /\ UNCHANGED <<up, row, told, unsent, pending, cast, known, fetched>>

\* The receive loop ends: the peer disconnected, or sent what the loop cannot take.
Leave(s) ==
    /\ handler[s] = "registered"
    /\ handler' = [handler EXCEPT ![s] = "leaving"]
    /\ up' = [up EXCEPT ![s] = FALSE]
    /\ UNCHANGED <<conns, row, told, unsent, pending, cast, known, fetched>>

\* Variant: a socket that a broadcast dropped is not looked for, and its key stays.
DisconnectNothing(s) ==
    /\ handler[s] = "leaving"
    /\ handler' = [handler EXCEPT ![s] = "closed"]
    /\ UNCHANGED <<up, conns, row, told, unsent, pending, cast, known, fetched>>

\* The "finally" of the handler: discard under the lock, the key with the last socket.
Disconnect(s) ==
    /\ handler[s] = "leaving"
    /\ conns' = IF SocketsOf(ProjectOf[s]) = {} THEN conns
                ELSE Pruned(ProjectOf[s], SocketsOf(ProjectOf[s]) \ {s})
    /\ handler' = [handler EXCEPT ![s] = "closed"]
    /\ UNCHANGED <<up, row, told, unsent, pending, cast, known, fetched>>

-----------------------------------------------------------------------------
(* The client's peer, the writers of the row, and the stream *)

LinkLost(s) ==
    /\ up[s]
    /\ up' = [up EXCEPT ![s] = FALSE]
    /\ UNCHANGED <<handler, conns, row, told, unsent, pending, cast, known, fetched>>

\* GET /jobs/{id}, once the socket is registered.
Fetch(s) ==
    /\ handler[s] = "registered" /\ up[s] /\ ~fetched[s]
    /\ known' = [known EXCEPT ![s] = row[ProjectOf[s]]]
    /\ fetched' = [fetched EXCEPT ![s] = TRUE]
    /\ UNCHANGED <<handler, up, conns, row, told, unsent, pending, cast>>

Write(p) ==
    /\ p \notin unsent
    /\ row[p] < MaxWrites
    /\ row' = [row EXCEPT ![p] = @ + 1]
    /\ told' = [told EXCEPT ![p] = row[p] + 1]
    /\ unsent' = unsent \cup {p}
    /\ UNCHANGED <<handler, up, conns, pending, cast, known, fetched>>

Announce(p) ==
    /\ p \in unsent
    /\ unsent' = unsent \ {p}
    /\ pending' = [pending EXCEPT ![p] = @ + 1]
    /\ UNCHANGED <<handler, up, conns, row, told, cast, known, fetched>>

\* JobService.cancel_job commits: the row is written and nothing is announced.  The
\* job was queued when the request read it; the worker may have written it since.
Cancel(p) ==
    /\ row[p] < MaxWrites
    /\ row' = [row EXCEPT ![p] = @ + 1]
    /\ UNCHANGED <<handler, up, conns, told, unsent, pending, cast, known, fetched>>

-----------------------------------------------------------------------------
(* NATSConsumer._handle_result and ConnectionManager.broadcast *)

\* A notification is taken and the row read.
Handle(p) ==
    /\ cast.pc = "idle"
    /\ pending[p] > 0
    /\ pending' = [pending EXCEPT ![p] = @ - 1]
    /\ cast' = [Idle EXCEPT !.pc = "read", !.project = p, !.payload = row[p]]
    /\ UNCHANGED <<handler, up, conns, row, told, unsent, known, fetched>>

\* list(self._connections.get(project_id, set())), under the lock.
Snapshot ==
    /\ cast.pc = "read"
    /\ cast' = IF SocketsOf(cast.project) = {} THEN Idle
               ELSE [cast EXCEPT !.pc = "sending", !.todo = SocketsOf(cast.project)]
    /\ UNCHANGED <<handler, up, conns, row, told, unsent, pending, known, fetched>>

\* Variant: the first socket that fails ends the loop.
SendStopsAtBroken(s) ==
    /\ cast.pc = "sending"
    /\ s \in cast.todo
    /\ IF up[s] THEN /\ known' = [known EXCEPT ![s] = cast.payload]
                     /\ cast' = [cast EXCEPT !.todo = @ \ {s}]
                ELSE /\ cast' = [cast EXCEPT !.todo = {}, !.broken = {s}]
                     /\ UNCHANGED known
    /\ UNCHANGED <<handler, up, conns, row, told, unsent, pending, fetched>>

\* await ws.send_json(payload): received by a peer that is there; one that is gone
\* fails the send, or the frame is lost on the way.
Send(s) ==
    /\ cast.pc = "sending"
    /\ s \in cast.todo
    /\ IF up[s] THEN /\ known' = [known EXCEPT ![s] = cast.payload]
                     /\ cast' = [cast EXCEPT !.todo = @ \ {s}]
                ELSE /\ \E broken \in SUBSET {s} :
                            cast' = [cast EXCEPT !.todo = @ \ {s}, !.broken = @ \cup broken]
                     /\ UNCHANGED known
    /\ UNCHANGED <<handler, up, conns, row, told, unsent, pending, fetched>>

\* The broken sockets are discarded from the set found now, under the lock.
DropBroken ==
    /\ cast.pc = "sending"
    /\ cast.todo = {}
    /\ conns' = IF cast.broken = {} \/ cast.project \notin DOMAIN conns THEN conns
                ELSE Pruned(cast.project, conns[cast.project] \ cast.broken)
    /\ cast' = Idle
    /\ UNCHANGED <<handler, up, row, told, unsent, pending, known, fetched>>

-----------------------------------------------------------------------------

Next ==
    \/ \E s \in Sockets : Refuse(s) \/ Accept(s) \/ Connect(s) \/ Leave(s) \/ Disconnect(s)
                          \/ LinkLost(s) \/ Fetch(s)
    \/ \E p \in Projects : Write(p) \/ Announce(p) \/ Cancel(p) \/ Handle(p)
    \/ Snapshot
    \/ \E s \in cast.todo : Send(s)
    \/ DropBroken

Spec == Init /\ [][Next]_vars

\* Handlers whose peer is gone notice it, and the consumer goes on.
Fairness ==
    /\ \A s \in Sockets : /\ WF_vars(Connect(s))
                          /\ WF_vars(~up[s] /\ Leave(s))
                          /\ WF_vars(Disconnect(s))
    /\ WF_vars(\E p \in Projects : Handle(p))
    /\ WF_vars(Snapshot \/ (\E s \in cast.todo : Send(s)) \/ DropBroken)

FairSpec == Spec /\ Fairness

-----------------------------------------------------------------------------
(* Properties *)

\* Values each variable may take.
TypeOK ==
    /\ handler \in [Sockets -> {"new", "accepted", "registered", "leaving", "closed"}]
    /\ up \in [Sockets -> BOOLEAN]
    /\ DOMAIN conns \subseteq Projects
    /\ \A p \in DOMAIN conns : conns[p] \subseteq Sockets
    /\ row \in [Projects -> Nat]
    /\ told \in [Projects -> Nat]
    /\ unsent \subseteq Projects
    /\ pending \in [Projects -> Nat]
    /\ cast \in [pc : {"idle", "read", "sending"}, project : Projects \cup {NoProject},
                 payload : Nat, todo : SUBSET Sockets, broken : SUBSET Sockets]
    /\ known \in [Sockets -> Nat]
    /\ fetched \in [Sockets -> BOOLEAN]

\* The dict of a process that runs for months does not grow: it has a key only for
\* a project with a socket, whatever order clients leave and broadcasts clean up in.
NoEmptyKeys == \A p \in DOMAIN conns : conns[p] # {}

\* The registry holds a socket under its own project and only while its handler
\* runs: no broadcast clean-up or late disconnect leaves a dead one behind.
OnlyLiveHandlers ==
    \A p \in DOMAIN conns : \A s \in conns[p] :
        ProjectOf[s] = p /\ handler[s] \in {"registered", "leaving"}

\* A client that connects first and fetches the job then is left behind by nothing but
\* a cancellation, which is not announced: with no announcement under way, what it knows
\* is no older than the newest state whose writer announces it, whatever the others do.
ConnectedKnowsAnnounced ==
    \A s \in Sockets :
        LET p == ProjectOf[s]
        IN  /\ handler[s] = "registered" /\ up[s] /\ fetched[s]
            /\ p \notin unsent /\ pending[p] = 0 /\ cast.project # p
            => known[s] \in told[p]..row[p]

\* The registry through every overlap of arrivals, departures and a broadcast: both of
\* the above, a client that is connected and there is registered, and the broadcast has
\* broken sockets and sockets to come of its own project only.
RegistryInv ==
    /\ NoEmptyKeys
    /\ OnlyLiveHandlers
    /\ \A s \in Sockets : handler[s] = "registered" /\ up[s] => s \in SocketsOf(ProjectOf[s])
    /\ \A s \in cast.broken : ~up[s]
    /\ \A s \in cast.todo : ProjectOf[s] = cast.project

\* An announced state some client does not know is still to be announced, to be read, or
\* in the payload on its way to that client; a payload older than it is followed by another.
KnownInv ==
    /\ cast.pc = "idle" <=> cast.project = NoProject
    /\ cast.project # NoProject => cast.payload <= row[cast.project]
    /\ \A s \in Sockets : fetched[s] => handler[s] \notin {"new", "accepted"}
    /\ \A p \in Projects :
         /\ told[p] <= row[p]
         /\ cast.project = p /\ cast.payload < told[p] => p \in unsent \/ pending[p] > 0
    /\ \A s \in Sockets :
         LET p == ProjectOf[s]
         IN  /\ known[s] <= row[p]
             /\ handler[s] = "registered" /\ up[s] /\ fetched[s] =>
                  \/ known[s] >= told[p] \/ p \in unsent \/ pending[p] > 0
                  \/ cast.project = p /\ (cast.pc = "read" \/ s \in cast.todo)

\* A socket whose peer is gone leaves the registry in the end.
DeadAreDropped ==
    \A s \in Sockets : ~up[s] ~> \A p \in DOMAIN conns : s \notin conns[p]

=============================================================================
