---------------------------- MODULE JobPipeline ----------------------------
(***************************************************************************)
(* The life of a mapping job: POST /jobs commits a row and publishes a run *)
(* message, the ML worker (external) runs it, writes the row and publishes *)
(* a status notification, and the API's NATSConsumer reads the row back    *)
(* and broadcasts it to the WebSocket clients.  DELETE /jobs/{id} cancels. *)
(*                                                                         *)
(* Source: src/src/modules/jobs/{service,repository,publisher,consumer}.py *)
(* and the lifespan of src/src/main.py.  Everything runs on one asyncio    *)
(* loop, so an action is the code between two awaits that matter: a commit *)
(* a publish, a SELECT, a send, an ack.                                    *)
(***************************************************************************)
EXTENDS Naturals, FiniteSets

CONSTANTS
    Jobs,        \* job ids
    Cancels,     \* DELETE /jobs/{id} requests
    NoNote,      \* "the consumer holds no message"
    FaultKinds,  \* the faults that may happen, a subset of AllFaults
    MaxFaults    \* how many of them, in all

AllFaults == {"commit_fails", "publish_fails", "worker_crash", "db_drop", "nats_close",
              "restart", "ack_lost", "run_expires", "note_expires", "project_deleted"}

\* A notification on jobs.mapping.status carries the job id alone; ver is a
\* ghost: how many writes the row had seen when the worker published it.
Note == [job : Jobs, ver : Nat]

ASSUME ConstantsAssumption ==
    /\ FaultKinds \subseteq AllFaults
    /\ MaxFaults \in Nat
    /\ NoNote \notin Note

VARIABLES
    row,          \* jobs table: [status, writes], writes a ghost counting committed writes
    post,         \* how far the POST /jobs request that creates the job has come
    cancel,       \* DELETE requests: [pc, job]
    runq,         \* jobs with a message on jobs.mapping.run
    worker,       \* what the ML worker does with the job
    stream,       \* notifications stored on jobs.mapping.status
    buffer,       \* those pushed to the consumer's subscription, not yet taken
    cons,         \* the consumer task: [pc, msg, ver]; ver is the version of the row it read
    session,      \* the one DB session the consumer keeps for the life of the process
    nats,         \* the NATS client: "open", or "closed" once it gave up reconnecting
    shown,        \* ghost: the newest version of the row broadcast
    sent,         \* ghost: every notification ever stored on the stream
    expiredRuns,  \* ghost: run messages dropped at the stream's max_age
    expiredNotes, \* ghost: notifications dropped at the stream's max_age
    faults        \* faults so far

dbVars   == <<row>>
reqVars  == <<post, cancel>>
workVars == <<runq, worker>>
consVars == <<buffer, cons, session>>
ghosts   == <<expiredRuns, expiredNotes>>
vars == <<row, post, cancel, runq, worker, stream, buffer, cons, session, nats, shown, sent,
          expiredRuns, expiredNotes, faults>>

Statuses == {"absent", "queued", "running", "completed", "failed", "deleted"}
Terminal == {"completed", "failed"}
InTable  == Statuses \ {"absent", "deleted"}

\* At most MaxFaults steps go wrong; each of them counts here.
Fault(kind) ==
    /\ kind \in FaultKinds
    /\ faults < MaxFaults
    /\ faults' = faults + 1

\* JobRepository.update_status: an UPDATE by primary key, whatever the status was.
UpdateStatus(j, status) ==
    row' = [row EXCEPT ![j] = [status |-> status, writes |-> @.writes + 1]]

Init ==
    /\ row = [j \in Jobs |-> [status |-> "absent", writes |-> 0]]
    /\ post = [j \in Jobs |-> "idle"]
    /\ cancel \in [Cancels -> [pc : {"idle"}, job : Jobs]]
    /\ runq = {}
    /\ worker = [j \in Jobs |-> "idle"]
    /\ stream = {}
    /\ buffer = {}
    /\ cons = [pc |-> "idle", msg |-> NoNote, ver |-> 0]
    /\ session = "fresh"
    /\ nats = "open"
    /\ shown = [j \in Jobs |-> 0]
    /\ sent = {}
    /\ expiredRuns = {}
    /\ expiredNotes = {}
    /\ faults = 0

-----------------------------------------------------------------------------
(* POST /jobs: JobService.create_job *)

\* INSERT and the update to "queued" are flushed in an open transaction.
CreateJob(j) ==
    /\ post[j] = "idle"
    /\ post' = [post EXCEPT ![j] = "inserted"]
    /\ UNCHANGED <<row, cancel, runq, worker, stream, consVars, nats, shown, sent, ghosts, faults>>

CommitJob(j) ==
    /\ post[j] = "inserted"
    /\ UpdateStatus(j, "queued")
    /\ post' = [post EXCEPT ![j] = "committed"]
    /\ UNCHANGED <<cancel, runq, worker, stream, consVars, nats, shown, sent, ghosts, faults>>

CommitJobFails(j) ==
    /\ post[j] = "inserted"
    /\ Fault("commit_fails")
    /\ post' = [post EXCEPT ![j] = "error"]
    /\ UNCHANGED <<row, cancel, runq, worker, stream, consVars, nats, shown, sent, ghosts>>

\* Variant: the run message is published while the row is still uncommitted.
PublishBeforeCommit(j) ==
    /\ post[j] \in {"inserted", "committed"}
    /\ nats = "open"
    /\ runq' = runq \cup {j}
    /\ post' = IF post[j] = "committed" THEN [post EXCEPT ![j] = "created"] ELSE post
    /\ UNCHANGED <<row, cancel, worker, stream, consVars, nats, shown, sent, ghosts, faults>>

\* js.publish returned the stream's acknowledgement; the client gets a 201.
PublishJob(j) ==
    /\ post[j] = "committed"
    /\ nats = "open"
    /\ runq' = runq \cup {j}
    /\ post' = [post EXCEPT ![j] = "created"]
    /\ UNCHANGED <<row, cancel, worker, stream, consVars, nats, shown, sent, ghosts, faults>>

\* Variant: the exception of a failed publish is logged and not raised again.
PublishErrorSwallowed(j) ==
    /\ post[j] = "committed"
    /\ nats = "closed" \/ "publish_fails" \in FaultKinds
    /\ post' = [post EXCEPT ![j] = "created"]
    /\ UNCHANGED <<row, cancel, workVars, stream, consVars, nats, shown, sent, ghosts, faults>>

\* js.publish raised: the client is closed, or the acknowledgement did not come
\* in time and the message may have been stored all the same.  The exception is
\* raised again (a 500) and the committed row stays.
PublishJobFails(j) ==
    /\ post[j] = "committed"
    /\ \/ /\ nats = "closed"
          /\ UNCHANGED <<runq, faults>>
       \/ /\ nats = "open"
          /\ Fault("publish_fails")
          /\ runq' \in {runq, runq \cup {j}}
    /\ post' = [post EXCEPT ![j] = "error"]
    /\ UNCHANGED <<row, cancel, worker, stream, consVars, nats, shown, sent, ghosts>>

-----------------------------------------------------------------------------
(* DELETE /jobs/{id}: JobService.cancel_job *)

\* get_by_id, then authorize_for_resource is awaited, then the status that was
\* read is tested: only a job read as queued goes on.
CancelRead(c, j) ==
    /\ cancel[c].pc = "idle"
    /\ row[j].status \in InTable
    /\ cancel' = [cancel EXCEPT ![c] =
                    [pc |-> IF row[j].status = "queued" THEN "checked" ELSE "refused", job |-> j]]
    /\ UNCHANGED <<row, post, workVars, stream, consVars, nats, shown, sent, ghosts, faults>>

\* update_status finds the same object in the session's identity map, so the row is
\* not read again; the UPDATE of a row deleted meanwhile matches nothing and raises.
CancelCommit(c) ==
    /\ cancel[c].pc = "checked"
    /\ \/ /\ row[cancel[c].job].status \in InTable
          /\ UpdateStatus(cancel[c].job, "failed")
          /\ cancel' = [cancel EXCEPT ![c].pc = "cancelled"]
       \/ /\ row[cancel[c].job].status = "deleted"
          /\ cancel' = [cancel EXCEPT ![c].pc = "refused"]
          /\ UNCHANGED row
    /\ UNCHANGED <<post, workVars, stream, consVars, nats, shown, sent, ghosts, faults>>

-----------------------------------------------------------------------------
(* The ML worker (external): takes a run message, writes the row, publishes, *)
(* acknowledges.  A crash leaves the message on the stream.                  *)

WorkerStart(j) ==
    /\ worker[j] = "idle"
    /\ j \in runq
    /\ row[j].status \in InTable
    /\ UpdateStatus(j, "running")
    /\ worker' = [worker EXCEPT ![j] = "running"]
    /\ UNCHANGED <<post, cancel, runq, stream, consVars, nats, shown, sent, ghosts, faults>>

\* A message whose job is finished, cancelled or gone may be dropped.
WorkerSkip(j) ==
    /\ worker[j] = "idle"
    /\ j \in runq
    /\ row[j].status \in Terminal \cup {"deleted"}
    /\ runq' = runq \ {j}
    /\ UNCHANGED <<row, post, cancel, worker, stream, consVars, nats, shown, sent, ghosts, faults>>

WorkerFinish(j) ==
    /\ worker[j] = "running"
    /\ row[j].status \in InTable
    /\ \E status \in Terminal : UpdateStatus(j, status)
    /\ worker' = [worker EXCEPT ![j] = "written"]
    /\ UNCHANGED <<post, cancel, runq, stream, consVars, nats, shown, sent, ghosts, faults>>

WorkerPublish(j) ==
    /\ worker[j] = "written"
    /\ LET note == [job |-> j, ver |-> row[j].writes]
       IN  /\ stream' = stream \cup {note}
           /\ sent' = sent \cup {note}
    /\ worker' = [worker EXCEPT ![j] = "published"]
    /\ UNCHANGED <<row, post, cancel, runq, consVars, nats, shown, ghosts, faults>>

WorkerAck(j) ==
    /\ worker[j] = "published" \/ (worker[j] = "running" /\ row[j].status = "deleted")
    /\ runq' = runq \ {j}
    /\ worker' = [worker EXCEPT ![j] = "idle"]
    /\ UNCHANGED <<row, post, cancel, stream, consVars, nats, shown, sent, ghosts, faults>>

WorkerCrash(j) ==
    /\ worker[j] # "idle"
    /\ Fault("worker_crash")
    /\ worker' = [worker EXCEPT ![j] = "idle"]
    /\ UNCHANGED <<row, post, cancel, runq, stream, consVars, nats, shown, sent, ghosts>>

-----------------------------------------------------------------------------
(* The API's consumer task: NATSConsumer._consume and _handle_result *)

\* JetStream pushes a stored notification; it pushes again whatever is still
\* unacknowledged, so a message may come twice, and in any order.
Deliver(n) ==
    /\ nats = "open" /\ cons.pc # "dead"
    /\ n \in stream
    /\ buffer' = buffer \cup {n}
    /\ UNCHANGED <<row, reqVars, workVars, stream, cons, session, nats, shown, sent, ghosts, faults>>

\* The next message of "async for": decoded and validated.
Take(n) ==
    /\ cons.pc = "idle"
    /\ n \in buffer
    /\ buffer' = buffer \ {n}
    /\ cons' = [pc |-> "reading", msg |-> n, ver |-> 0]
    /\ UNCHANGED <<row, reqVars, workVars, stream, session, nats, shown, sent, ghosts, faults>>

\* job_repo.get_by_id: the row as it is committed now.
ReadRow ==
    /\ cons.pc = "reading"
    /\ session # "broken"
    /\ row[cons.msg.job].status \in InTable
    /\ session' = "open"
    /\ cons' = [cons EXCEPT !.pc = "sending", !.ver = row[cons.msg.job].writes]
    /\ UNCHANGED <<row, reqVars, workVars, stream, buffer, nats, shown, sent, ghosts, faults>>

\* No such job: logged, and the message is acknowledged.
ReadMissing ==
    /\ cons.pc = "reading"
    /\ session # "broken"
    /\ row[cons.msg.job].status \notin InTable
    /\ session' = "open"
    /\ cons' = [cons EXCEPT !.pc = "acking"]
    /\ UNCHANGED <<row, reqVars, workVars, stream, buffer, nats, shown, sent, ghosts, faults>>

\* Variant: a message that could not be handled is acknowledged with the others.
ReadFailsAcks ==
    /\ cons.pc = "reading"
    /\ session = "broken"
    /\ cons' = [cons EXCEPT !.pc = "acking"]
    /\ UNCHANGED <<row, reqVars, workVars, stream, buffer, session, nats, shown, sent, ghosts, faults>>

\* The connection under the session's open transaction is gone: the SELECT
\* raises, now and at every later message, for nothing rolls the session back.
ReadFails ==
    /\ cons.pc = "reading"
    /\ session = "broken"
    /\ cons' = [cons EXCEPT !.pc = "naking"]
    /\ UNCHANGED <<row, reqVars, workVars, stream, buffer, session, nats, shown, sent, ghosts, faults>>

\* connection_manager.broadcast: a socket that fails is dropped, nothing is raised.
Broadcast ==
    /\ cons.pc = "sending"
    /\ shown' = [shown EXCEPT ![cons.msg.job] = cons.ver]
    /\ cons' = [cons EXCEPT !.pc = "acking"]
    /\ UNCHANGED <<row, reqVars, workVars, stream, buffer, session, nats, sent, ghosts, faults>>

\* msg.ack() is published without waiting for an answer, so it may be lost.
Ack ==
    /\ cons.pc = "acking"
    /\ nats = "open"
    /\ \/ stream' = stream \ {cons.msg} /\ UNCHANGED faults
       \/ Fault("ack_lost") /\ UNCHANGED stream
    /\ cons' = [cons EXCEPT !.pc = "idle"]
    /\ UNCHANGED <<row, reqVars, workVars, buffer, session, nats, shown, sent, ghosts>>

\* On a closed client msg.ack() raises, and the handler's msg.nak() with it.
AckFails ==
    /\ cons.pc = "acking"
    /\ nats = "closed"
    /\ cons' = [cons EXCEPT !.pc = "naking"]
    /\ UNCHANGED <<row, reqVars, workVars, stream, buffer, session, nats, shown, sent, ghosts, faults>>

\* msg.nak(delay=5) leaves the message on the stream, to be pushed again.
Nak ==
    /\ cons.pc = "naking"
    /\ nats = "open"
    /\ cons' = [cons EXCEPT !.pc = "idle"]
    /\ UNCHANGED <<row, reqVars, workVars, stream, buffer, session, nats, shown, sent, ghosts, faults>>

\* A nak that raises leaves the loop, and a closed subscription ends the
\* iteration: the task is over, and nobody looks at it before shutdown.
Die ==
    /\ nats = "closed"
    /\ cons.pc \in {"idle", "naking"}
    /\ cons' = [cons EXCEPT !.pc = "dead"]
    /\ UNCHANGED <<row, reqVars, workVars, stream, buffer, session, nats, shown, sent, ghosts, faults>>

-----------------------------------------------------------------------------
(* The process and what it stands on *)

\* The database drops the connection the consumer's session has checked out;
\* without an open transaction the pool's pre-ping replaces it.
DbDrop ==
    /\ session = "open"
    /\ Fault("db_drop")
    /\ session' = "broken"
    /\ UNCHANGED <<row, reqVars, workVars, stream, buffer, cons, nats, shown, sent, ghosts>>

\* Two reconnect attempts failed: the client closes itself for good.
NatsClose ==
    /\ nats = "open"
    /\ Fault("nats_close")
    /\ nats' = "closed"
    /\ UNCHANGED <<row, reqVars, workVars, stream, buffer, cons, session, shown, sent, ghosts>>

\* Variant: the durable is still bound to the old process and the new one gives up
\* subscribing instead of deleting it.
RestartUnsubscribed ==
    /\ Fault("restart")
    /\ post' = [j \in Jobs |-> IF post[j] \in {"inserted", "committed"} THEN "error" ELSE post[j]]
    /\ cancel' = [c \in Cancels |->
                    IF cancel[c].pc = "checked" THEN [cancel[c] EXCEPT !.pc = "refused"] ELSE cancel[c]]
    /\ buffer' = {}
    /\ cons' = [pc |-> "dead", msg |-> NoNote, ver |-> 0]
    /\ session' = "fresh"
    /\ nats' = "open"
    /\ UNCHANGED <<row, workVars, stream, shown, sent, ghosts>>

\* The API process stops or dies, and a new one runs the lifespan's start: open
\* requests are lost with their transactions, the durable consumer is bound again.
Restart ==
    /\ Fault("restart")
    /\ post' = [j \in Jobs |-> IF post[j] \in {"inserted", "committed"} THEN "error" ELSE post[j]]
    /\ cancel' = [c \in Cancels |->
                    IF cancel[c].pc = "checked" THEN [cancel[c] EXCEPT !.pc = "refused"] ELSE cancel[c]]
    /\ buffer' = {}
    /\ cons' = [pc |-> "idle", msg |-> NoNote, ver |-> 0]
    /\ session' = "fresh"
    /\ nats' = "open"
    /\ UNCHANGED <<row, workVars, stream, shown, sent, ghosts>>

\* nats_stream_max_age_seconds: the stream drops what nobody took for a day.
RunExpires(j) ==
    /\ j \in runq /\ worker[j] = "idle"
    /\ Fault("run_expires")
    /\ runq' = runq \ {j}
    /\ expiredRuns' = expiredRuns \cup {j}
    /\ UNCHANGED <<row, reqVars, worker, stream, consVars, nats, shown, sent, expiredNotes>>

NoteExpires(n) ==
    /\ n \in stream
    /\ Fault("note_expires")
    /\ stream' = stream \ {n}
    /\ expiredNotes' = expiredNotes \cup {n}
    /\ UNCHANGED <<row, reqVars, workVars, consVars, nats, shown, sent, expiredRuns>>

\* ProjectService.delete_project takes the project's jobs with it.
ProjectDeleted(j) ==
    /\ row[j].status \in InTable
    /\ Fault("project_deleted")
    /\ row' = [row EXCEPT ![j].status = "deleted"]
    /\ UNCHANGED <<reqVars, workVars, stream, consVars, nats, shown, sent, ghosts>>

-----------------------------------------------------------------------------

Request(j) == CreateJob(j) \/ CommitJob(j) \/ CommitJobFails(j) \/ PublishJob(j) \/ PublishJobFails(j)

Worker(j) == WorkerStart(j) \/ WorkerSkip(j) \/ WorkerFinish(j) \/ WorkerPublish(j) \/ WorkerAck(j)

Handle == ReadRow \/ ReadMissing \/ ReadFails \/ Broadcast \/ Ack \/ AckFails \/ Nak \/ Die

Environment ==
    \/ DbDrop \/ NatsClose \/ Restart
    \/ \E j \in Jobs : WorkerCrash(j) \/ RunExpires(j) \/ ProjectDeleted(j)
    \/ \E n \in stream : NoteExpires(n)

Next ==
    \/ \E j \in Jobs : Request(j) \/ Worker(j)
    \/ \E c \in Cancels, j \in Jobs : CancelRead(c, j)
    \/ \E c \in Cancels : CancelCommit(c)
    \/ \E n \in stream : Deliver(n)
    \/ \E n \in buffer : Take(n)
    \/ Handle
    \/ Environment

Spec == Init /\ [][Next]_vars

\* A running process finishes the requests it has accepted and keeps handling the
\* messages it is pushed; the server pushes what is stored; the worker works.
\* Nothing forces a client to ask, a fault to happen or the process to restart.
Fairness ==
    /\ \A j \in Jobs : /\ WF_vars(CommitJob(j))
                       /\ WF_vars(PublishJob(j) \/ PublishJobFails(j))
                       /\ WF_vars(Worker(j))
    /\ \A c \in Cancels : WF_vars(CancelCommit(c))
    /\ WF_vars(\E n \in stream \ buffer : Deliver(n))
    /\ WF_vars(\E n \in buffer : Take(n))
    /\ WF_vars(Handle)

FairSpec == Spec /\ Fairness

-----------------------------------------------------------------------------
(* Properties *)

\* Values each variable may take.
TypeOK ==
    /\ row \in [Jobs -> [status : Statuses, writes : Nat]]
    /\ post \in [Jobs -> {"idle", "inserted", "committed", "created", "error"}]
    /\ cancel \in [Cancels -> [pc : {"idle", "checked", "cancelled", "refused"}, job : Jobs]]
    /\ runq \subseteq Jobs
    /\ worker \in [Jobs -> {"idle", "running", "written", "published"}]
    /\ stream \subseteq Note
    /\ buffer \subseteq Note
    /\ cons \in [pc : {"idle", "reading", "sending", "acking", "naking", "dead"},
                 msg : Note \cup {NoNote}, ver : Nat]
    /\ cons.msg = NoNote => cons.pc \in {"idle", "dead"}
    /\ session \in {"fresh", "open", "broken"}
    /\ nats \in {"open", "closed"}
    /\ shown \in [Jobs -> Nat]
    /\ sent \subseteq Note
    /\ expiredRuns \subseteq Jobs
    /\ expiredNotes \subseteq Note
    /\ faults \in Nat

\* The worker reads the files and the row named by a run message, so create_job
\* commits before it publishes: no run message is ever ahead of its row, whatever
\* commit fails and wherever the process stops.
NoRunWithoutRow == \A j \in runq : row[j].status # "absent"

\* A client that got its 201 need not ask again: a job still queued after that
\* answer has its run message on the stream, unless the stream's age limit took it.
CreatedIsRunnable ==
    \A j \in Jobs :
        post[j] = "created" /\ row[j].status = "queued" => j \in runq \/ j \in expiredRuns

\* At-least-once delivery to the WebSocket side: a notification is off the stream
\* only when its job has been broadcast in a state no older than the one it
\* announced, or the job is gone, or the age limit took it, through any failed
\* read, lost ack, closed client or restart.
HandledMeansShown ==
    \A n \in sent : \/ n \in stream
                    \/ shown[n.job] >= n.ver
                    \/ row[n.job].status = "deleted"
                    \/ n \in expiredNotes

\* What the worker and a client may rely on about a row, through every failure and
\* restart: a run message has its row, a 201 has its run message, and a row is there
\* exactly from the commit of its request on.  With it both properties above are inductive.
RowInv ==
    /\ NoRunWithoutRow
    /\ CreatedIsRunnable
    /\ \A j \in Jobs :
         /\ post[j] \in {"idle", "inserted"} => row[j].status = "absent"
         /\ post[j] \in {"committed", "created"} => row[j].status # "absent"
         /\ worker[j] # "idle" => row[j].status \notin {"absent", "queued"}

\* How the versions announced, held by the consumer, shown and committed relate.
FeedInv ==
    /\ HandledMeansShown
    /\ stream \subseteq sent
    /\ buffer \subseteq sent
    /\ \A n \in sent : n.ver <= row[n.job].writes /\ row[n.job].status # "absent"
    /\ \A j \in Jobs : shown[j] <= row[j].writes
    /\ cons.pc \in {"reading", "sending", "acking", "naking"} => cons.msg \in sent
    /\ cons.pc = "sending" =>
         /\ cons.msg.ver <= cons.ver
         /\ shown[cons.msg.job] <= cons.ver
         /\ cons.ver <= row[cons.msg.job].writes
    /\ cons.pc = "acking" =>
         shown[cons.msg.job] >= cons.msg.ver \/ row[cons.msg.job].status = "deleted"

\* Redelivered and reordered notifications never take a client back: the consumer
\* broadcasts the row it reads, not the message, so states come in commit order.
ShownNeverRegresses == [][\A j \in Jobs : shown'[j] >= shown[j]]_vars

\* The pipeline is a StatusFeed: the stream is the debt, the broadcasts settle it.
Feed == INSTANCE StatusFeed WITH
    version <- [j \in Jobs |-> row[j].writes],
    seen    <- shown,
    owed    <- stream,
    expired <- expiredNotes,
    gone    <- {j \in Jobs : row[j].status = "deleted"}

\* Every step of the pipeline is a step of the feed or invisible to it: in
\* particular an ack never takes an unshown announcement off the stream.
ImplementsFeed == Feed!Spec

\* "Only queued jobs can be cancelled": a cancellation overwrites a queued row.
CancelsOnlyQueued ==
    [][\A c \in Cancels :
           cancel[c].pc = "checked" /\ cancel'[c].pc = "cancelled"
               => row[cancel[c].job].status = "queued"]_vars

\* A job answered 201 reaches a terminal status, or is deleted, in spite of worker
\* crashes, API restarts and a cancellation at any moment.
CreatedFinishes ==
    \A j \in Jobs :
        post[j] = "created" ~> row[j].status \in Terminal \cup {"deleted"} \/ j \in expiredRuns

\* Every notification of j has been shown, or has nobody left to be shown to.
Settled(j) ==
    \A n \in sent : n.job = j => \/ shown[j] >= n.ver
                              \/ row[j].status = "deleted"
                              \/ n \in expiredNotes

\* The consumer reads the row back and broadcasts it: again and again the
\* watchers of a job have been shown everything announced so far.
NotificationsShown == \A j \in Jobs : []<>Settled(j)

\* The same, as far as a failure may silence the consumer: only a lost database
\* connection or a client closed for good does, and a restart ends either.  Worker
\* crashes, failed commits and publishes, lost acks, restarts and cancellations at
\* any moment delay what the watchers are shown and no more.
ShownWhileConnected ==
    \A j \in Jobs : []<>(Settled(j) \/ session = "broken" \/ nats = "closed")
=============================================================================
