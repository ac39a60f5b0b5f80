------------------------- MODULE JobPipeline_proofs -------------------------
(***************************************************************************)
(* Proofs about JobPipeline, for any jobs, cancellations and number of     *)
(* faults of any kind.  Three inductive invariants, each one resting on    *)
(* those before it: the types, what the request and the worker know of the *)
(* row, and what the stream and the consumer know of what was shown.       *)
(***************************************************************************)
EXTENDS JobPipeline, TLAPS

LEMMA TypeInit == Init => TypeOK
  BY ConstantsAssumption DEF Init, TypeOK, Statuses, Note

LEMMA TypeStep == TypeOK /\ [Next]_vars => TypeOK'
<1> SUFFICES ASSUME TypeOK, [Next]_vars PROVE TypeOK'
  OBVIOUS
<1> USE DEF TypeOK, Statuses, Terminal, InTable, Note, Fault, UpdateStatus,
            reqVars, workVars, consVars, ghosts
<1>1. ASSUME NEW j \in Jobs, CreateJob(j) PROVE TypeOK'
  BY <1>1 DEF CreateJob
<1>2. ASSUME NEW j \in Jobs, CommitJob(j) PROVE TypeOK'
  BY <1>2 DEF CommitJob
<1>3. ASSUME NEW j \in Jobs, CommitJobFails(j) PROVE TypeOK'
  BY <1>3 DEF CommitJobFails
<1>4. ASSUME NEW j \in Jobs, PublishJob(j) PROVE TypeOK'
  BY <1>4 DEF PublishJob
<1>5. ASSUME NEW j \in Jobs, PublishJobFails(j) PROVE TypeOK'
  BY <1>5 DEF PublishJobFails
<1>6. ASSUME NEW j \in Jobs, WorkerStart(j) PROVE TypeOK'
  BY <1>6 DEF WorkerStart
<1>7. ASSUME NEW j \in Jobs, WorkerSkip(j) PROVE TypeOK'
  BY <1>7 DEF WorkerSkip
<1>8. ASSUME NEW j \in Jobs, WorkerFinish(j) PROVE TypeOK'
  BY <1>8 DEF WorkerFinish
<1>9. ASSUME NEW j \in Jobs, WorkerPublish(j) PROVE TypeOK'
  BY <1>9 DEF WorkerPublish
<1>10. ASSUME NEW j \in Jobs, WorkerAck(j) PROVE TypeOK'
  BY <1>10 DEF WorkerAck
<1>11. ASSUME NEW c \in Cancels, NEW j \in Jobs, CancelRead(c, j) PROVE TypeOK'
  BY <1>11 DEF CancelRead
<1>12. ASSUME NEW c \in Cancels, CancelCommit(c) PROVE TypeOK'
  <2>1. cancel[c].job \in Jobs
    OBVIOUS
  <2>2. row' \in [Jobs -> [status : Statuses, writes : Nat]]
    BY <1>12, <2>1 DEF CancelCommit
  <2>3. \E pc \in {"cancelled", "refused"} : cancel' = [cancel EXCEPT ![c].pc = pc]
    BY <1>12 DEF CancelCommit
  <2>4. cancel' \in [Cancels -> [pc : {"idle", "checked", "cancelled", "refused"}, job : Jobs]]
    BY <2>3
  <2>5. QED
    BY <1>12, <2>2, <2>4 DEF CancelCommit
<1>13. ASSUME NEW n \in stream, Deliver(n) PROVE TypeOK'
  BY <1>13 DEF Deliver
<1>14. ASSUME NEW n \in buffer, Take(n) PROVE TypeOK'
  BY <1>14, ConstantsAssumption DEF Take
<1>15. ASSUME ReadRow PROVE TypeOK'
  <2>1. cons.msg \in Note
    BY <1>15 DEF ReadRow
  <2>2. row[cons.msg.job].writes \in Nat
    BY <2>1
  <2>3. cons' = [cons EXCEPT !.pc = "sending", !.ver = row[cons.msg.job].writes]
    BY <1>15 DEF ReadRow
  <2>4. cons' = [pc |-> "sending", msg |-> cons.msg, ver |-> row[cons.msg.job].writes]
    BY <2>3
  <2>5. cons.msg # NoNote
    BY <1>15 DEF ReadRow
  <2>6. QED
    BY <1>15, <2>2, <2>4, <2>5 DEF ReadRow
<1>16. ASSUME ReadMissing PROVE TypeOK'
  BY <1>16 DEF ReadMissing
<1>17. ASSUME ReadFails PROVE TypeOK'
  BY <1>17 DEF ReadFails
<1>18. ASSUME Broadcast PROVE TypeOK'
  BY <1>18 DEF Broadcast
<1>19. ASSUME Ack PROVE TypeOK'
  BY <1>19 DEF Ack
<1>20. ASSUME AckFails PROVE TypeOK'
  BY <1>20 DEF AckFails
<1>21. ASSUME Nak PROVE TypeOK'
  BY <1>21 DEF Nak
<1>22. ASSUME Die PROVE TypeOK'
  BY <1>22 DEF Die
<1>23. ASSUME DbDrop PROVE TypeOK'
  BY <1>23 DEF DbDrop
<1>24. ASSUME NatsClose PROVE TypeOK'
  BY <1>24 DEF NatsClose
<1>25. ASSUME Restart PROVE TypeOK'
  <2>1. post' \in [Jobs -> {"idle", "inserted", "committed", "created", "error"}]
    BY <1>25 DEF Restart
  <2>2. cancel' \in [Cancels -> [pc : {"idle", "checked", "cancelled", "refused"}, job : Jobs]]
    BY <1>25 DEF Restart
  <2>3. QED
    BY <1>25, <2>1, <2>2 DEF Restart
<1>26. ASSUME NEW j \in Jobs, WorkerCrash(j) PROVE TypeOK'
  BY <1>26 DEF WorkerCrash
<1>27. ASSUME NEW j \in Jobs, RunExpires(j) PROVE TypeOK'
  BY <1>27 DEF RunExpires
<1>28. ASSUME NEW j \in Jobs, ProjectDeleted(j) PROVE TypeOK'
  BY <1>28 DEF ProjectDeleted
<1>29. ASSUME NEW n \in stream, NoteExpires(n) PROVE TypeOK'
  BY <1>29 DEF NoteExpires
<1>30. CASE UNCHANGED vars
  BY <1>30 DEF vars
<1>31. QED
  BY <1>1, <1>2, <1>3, <1>4, <1>5, <1>6, <1>7, <1>8, <1>9, <1>10, <1>11, <1>12, <1>13, <1>14, <1>15, <1>16, <1>17, <1>18, <1>19, <1>20, <1>21, <1>22, <1>23, <1>24, <1>25, <1>26, <1>27, <1>28, <1>29, <1>30
     DEF Next, Request, Worker, Handle, Environment

\* Every variable keeps to its values.
THEOREM TypeCorrect == Spec => []TypeOK
  BY TypeInit, TypeStep, PTL DEF Spec

-----------------------------------------------------------------------------

LEMMA RowInvInit == Init => RowInv
  BY DEF Init, RowInv, NoRunWithoutRow, CreatedIsRunnable

LEMMA RowInvStep == TypeOK /\ RowInv /\ [Next]_vars => RowInv'
<1> SUFFICES ASSUME TypeOK, RowInv, [Next]_vars PROVE RowInv'
  OBVIOUS
<1> USE DEF TypeOK, RowInv, NoRunWithoutRow, CreatedIsRunnable, Statuses, Terminal, InTable,
            Fault, UpdateStatus, reqVars, workVars, consVars, ghosts
<1>1. ASSUME NEW j \in Jobs, CreateJob(j) PROVE RowInv'
  BY <1>1 DEF CreateJob
<1>2. ASSUME NEW j \in Jobs, CommitJob(j) PROVE RowInv'
  BY <1>2 DEF CommitJob
<1>3. ASSUME NEW j \in Jobs, CommitJobFails(j) PROVE RowInv'
  BY <1>3 DEF CommitJobFails
<1>4. ASSUME NEW j \in Jobs, PublishJob(j) PROVE RowInv'
  BY <1>4 DEF PublishJob
<1>5. ASSUME NEW j \in Jobs, PublishJobFails(j) PROVE RowInv'
  BY <1>5 DEF PublishJobFails
<1>6. ASSUME NEW j \in Jobs, WorkerStart(j) PROVE RowInv'
  BY <1>6 DEF WorkerStart
<1>7. ASSUME NEW j \in Jobs, WorkerSkip(j) PROVE RowInv'
  BY <1>7 DEF WorkerSkip
<1>8. ASSUME NEW j \in Jobs, WorkerFinish(j) PROVE RowInv'
  BY <1>8 DEF WorkerFinish
<1>9. ASSUME NEW j \in Jobs, WorkerPublish(j) PROVE RowInv'
  BY <1>9 DEF WorkerPublish
<1>10. ASSUME NEW j \in Jobs, WorkerAck(j) PROVE RowInv'
  BY <1>10 DEF WorkerAck
<1>11. ASSUME NEW c \in Cancels, NEW j \in Jobs, CancelRead(c, j) PROVE RowInv'
  BY <1>11 DEF CancelRead
<1>12. ASSUME NEW c \in Cancels, CancelCommit(c) PROVE RowInv'
  <2>1. PICK j \in Jobs : j = cancel[c].job
    OBVIOUS
  <2>2. UNCHANGED <<post, runq, worker, stream, buffer, cons, session, nats, shown, sent,
                    expiredRuns, expiredNotes, faults>>
    BY <1>12 DEF CancelCommit
  <2>3. CASE row[j].status \in InTable /\ UpdateStatus(j, "failed")
    BY <2>2, <2>3
  <2>4. CASE UNCHANGED row
    BY <2>2, <2>4
  <2>5. QED
    BY <1>12, <2>1, <2>3, <2>4 DEF CancelCommit
<1>13. ASSUME NEW n \in stream, Deliver(n) PROVE RowInv'
  BY <1>13 DEF Deliver
<1>14. ASSUME NEW n \in buffer, Take(n) PROVE RowInv'
  BY <1>14 DEF Take
<1>15. ASSUME ReadRow PROVE RowInv'
  BY <1>15 DEF ReadRow
<1>16. ASSUME ReadMissing PROVE RowInv'
  BY <1>16 DEF ReadMissing
<1>17. ASSUME ReadFails PROVE RowInv'
  BY <1>17 DEF ReadFails
<1>18. ASSUME Broadcast PROVE RowInv'
  BY <1>18 DEF Broadcast
<1>19. ASSUME Ack PROVE RowInv'
  BY <1>19 DEF Ack
<1>20. ASSUME AckFails PROVE RowInv'
  BY <1>20 DEF AckFails
<1>21. ASSUME Nak PROVE RowInv'
  BY <1>21 DEF Nak
<1>22. ASSUME Die PROVE RowInv'
  BY <1>22 DEF Die
<1>23. ASSUME DbDrop PROVE RowInv'
  BY <1>23 DEF DbDrop
<1>24. ASSUME NatsClose PROVE RowInv'
  BY <1>24 DEF NatsClose
<1>25. ASSUME Restart PROVE RowInv'
  BY <1>25 DEF Restart
<1>26. ASSUME NEW j \in Jobs, WorkerCrash(j) PROVE RowInv'
  BY <1>26 DEF WorkerCrash
<1>27. ASSUME NEW j \in Jobs, RunExpires(j) PROVE RowInv'
  BY <1>27 DEF RunExpires
<1>28. ASSUME NEW j \in Jobs, ProjectDeleted(j) PROVE RowInv'
  BY <1>28 DEF ProjectDeleted
<1>29. ASSUME NEW n \in stream, NoteExpires(n) PROVE RowInv'
  BY <1>29 DEF NoteExpires
<1>30. CASE UNCHANGED vars
  BY <1>30 DEF vars
<1>31. QED
  BY <1>1, <1>2, <1>3, <1>4, <1>5, <1>6, <1>7, <1>8, <1>9, <1>10, <1>11, <1>12, <1>13, <1>14, <1>15, <1>16, <1>17, <1>18, <1>19, <1>20, <1>21, <1>22, <1>23, <1>24, <1>25, <1>26, <1>27, <1>28, <1>29, <1>30
     DEF Next, Request, Worker, Handle, Environment

\* The row, its request and its run message agree.
THEOREM RowInvariant == Spec => []RowInv
  BY RowInvInit, RowInvStep, TypeCorrect, PTL DEF Spec

\* No run message is on the stream before its row is in the table.
THEOREM NoRunWithoutRowHolds == Spec => []NoRunWithoutRow
  BY RowInvariant, PTL DEF RowInv

\* A job answered 201 and still queued has its run message, unless it expired.
THEOREM CreatedIsRunnableHolds == Spec => []CreatedIsRunnable
  BY RowInvariant, PTL DEF RowInv

-----------------------------------------------------------------------------

LEMMA FeedInvInit == Init => FeedInv
  BY DEF Init, FeedInv, HandledMeansShown

LEMMA FeedInvStep == TypeOK /\ TypeOK' /\ RowInv /\ FeedInv /\ [Next]_vars => FeedInv'
<1> SUFFICES ASSUME TypeOK, TypeOK', RowInv, FeedInv, [Next]_vars PROVE FeedInv'
  OBVIOUS
<1> USE DEF TypeOK, RowInv, FeedInv, HandledMeansShown, Statuses, Terminal, InTable, Note,
            Fault, UpdateStatus, reqVars, workVars, consVars, ghosts
<1>1. ASSUME NEW j \in Jobs, CreateJob(j) PROVE FeedInv'
  BY <1>1 DEF CreateJob
<1>2. ASSUME NEW j \in Jobs, CommitJob(j) PROVE FeedInv'
  BY <1>2 DEF CommitJob
<1>3. ASSUME NEW j \in Jobs, CommitJobFails(j) PROVE FeedInv'
  BY <1>3 DEF CommitJobFails
<1>4. ASSUME NEW j \in Jobs, PublishJob(j) PROVE FeedInv'
  BY <1>4 DEF PublishJob
<1>5. ASSUME NEW j \in Jobs, PublishJobFails(j) PROVE FeedInv'
  BY <1>5 DEF PublishJobFails
<1>6. ASSUME NEW j \in Jobs, WorkerStart(j) PROVE FeedInv'
  BY <1>6 DEF WorkerStart
<1>7. ASSUME NEW j \in Jobs, WorkerSkip(j) PROVE FeedInv'
  BY <1>7 DEF WorkerSkip
<1>8. ASSUME NEW j \in Jobs, WorkerFinish(j) PROVE FeedInv'
  BY <1>8 DEF WorkerFinish
<1>9. ASSUME NEW j \in Jobs, WorkerPublish(j) PROVE FeedInv'
  BY <1>9 DEF WorkerPublish
<1>10. ASSUME NEW j \in Jobs, WorkerAck(j) PROVE FeedInv'
  BY <1>10 DEF WorkerAck
<1>11. ASSUME NEW c \in Cancels, NEW j \in Jobs, CancelRead(c, j) PROVE FeedInv'
  BY <1>11 DEF CancelRead
<1>12. ASSUME NEW c \in Cancels, CancelCommit(c) PROVE FeedInv'
  <2>1. PICK j \in Jobs : j = cancel[c].job
    OBVIOUS
  <2>2. UNCHANGED <<post, runq, worker, stream, buffer, cons, session, nats, shown, sent,
                    expiredRuns, expiredNotes, faults>>
    BY <1>12 DEF CancelCommit
  <2>3. CASE row[j].status \in InTable /\ UpdateStatus(j, "failed")
    BY <2>2, <2>3
  <2>4. CASE UNCHANGED row
    BY <2>2, <2>4
  <2>5. QED
    BY <1>12, <2>1, <2>3, <2>4 DEF CancelCommit
<1>13. ASSUME NEW n \in stream, Deliver(n) PROVE FeedInv'
  BY <1>13 DEF Deliver
<1>14. ASSUME NEW n \in buffer, Take(n) PROVE FeedInv'
  BY <1>14 DEF Take
<1>15. ASSUME ReadRow PROVE FeedInv'
  BY <1>15 DEF ReadRow
<1>16. ASSUME ReadMissing PROVE FeedInv'
  BY <1>16 DEF ReadMissing
<1>17. ASSUME ReadFails PROVE FeedInv'
  BY <1>17 DEF ReadFails
<1>18. ASSUME Broadcast PROVE FeedInv'
  BY <1>18 DEF Broadcast
<1>19. ASSUME Ack PROVE FeedInv'
  BY <1>19 DEF Ack
<1>20. ASSUME AckFails PROVE FeedInv'
  BY <1>20 DEF AckFails
<1>21. ASSUME Nak PROVE FeedInv'
  BY <1>21 DEF Nak
<1>22. ASSUME Die PROVE FeedInv'
  BY <1>22 DEF Die
<1>23. ASSUME DbDrop PROVE FeedInv'
  BY <1>23 DEF DbDrop
<1>24. ASSUME NatsClose PROVE FeedInv'
  BY <1>24 DEF NatsClose
<1>25. ASSUME Restart PROVE FeedInv'
  BY <1>25 DEF Restart
<1>26. ASSUME NEW j \in Jobs, WorkerCrash(j) PROVE FeedInv'
  BY <1>26 DEF WorkerCrash
<1>27. ASSUME NEW j \in Jobs, RunExpires(j) PROVE FeedInv'
  BY <1>27 DEF RunExpires
<1>28. ASSUME NEW j \in Jobs, ProjectDeleted(j) PROVE FeedInv'
  BY <1>28 DEF ProjectDeleted
<1>29. ASSUME NEW n \in stream, NoteExpires(n) PROVE FeedInv'
  BY <1>29 DEF NoteExpires
<1>30. CASE UNCHANGED vars
  BY <1>30 DEF vars
<1>31. QED
  BY <1>1, <1>2, <1>3, <1>4, <1>5, <1>6, <1>7, <1>8, <1>9, <1>10, <1>11, <1>12, <1>13, <1>14, <1>15, <1>16, <1>17, <1>18, <1>19, <1>20, <1>21, <1>22, <1>23, <1>24, <1>25, <1>26, <1>27, <1>28, <1>29, <1>30
     DEF Next, Request, Worker, Handle, Environment

LEMMA FeedInvariant == Spec => []FeedInv
  BY FeedInvInit, FeedInvStep, TypeCorrect, RowInvariant, PTL DEF Spec

\* At-least-once: what left the stream was shown, expired or has no job any more.
THEOREM HandledMeansShownHolds == Spec => []HandledMeansShown
  BY FeedInvariant, PTL DEF FeedInv

-----------------------------------------------------------------------------

\* Only Broadcast changes what clients were shown, and it shows what it read.
LEMMA ShownStep ==
    ASSUME TypeOK, FeedInv, [Next]_vars
    PROVE  \A j \in Jobs : shown'[j] >= shown[j]
<1>1. CASE Broadcast
  BY <1>1 DEF Broadcast, TypeOK, FeedInv, Note
<1>2. CASE ~Broadcast
  <2>1. UNCHANGED shown
    BY <1>2 DEF Next, Request, Worker, Handle, Environment, vars, CreateJob, CommitJob,
       CommitJobFails, PublishJob, PublishJobFails, WorkerStart, WorkerSkip, WorkerFinish,
       WorkerPublish, WorkerAck, CancelRead, CancelCommit, Deliver, Take, ReadRow, ReadMissing,
       ReadFails, Ack, AckFails, Nak, Die, DbDrop, NatsClose, Restart, WorkerCrash, RunExpires,
       ProjectDeleted, NoteExpires
  <2>2. QED
    BY <2>1 DEF TypeOK
<1>3. QED
  BY <1>1, <1>2

\* Clients never see a job go back to an older state.
THEOREM ShownNeverRegressesHolds == Spec => ShownNeverRegresses
<1>1. TypeOK /\ FeedInv /\ [Next]_vars => [\A j \in Jobs : shown'[j] >= shown[j]]_vars
  BY ShownStep
<1>2. QED
  BY <1>1, TypeCorrect, FeedInvariant, PTL DEF Spec, ShownNeverRegresses

-----------------------------------------------------------------------------

\* The state of the feed that a state of the pipeline stands for.
Version == [j \in Jobs |-> row[j].writes]
Gone    == {j \in Jobs : row[j].status = "deleted"}

LEMMA FeedInit == Init => Feed!Init
  BY DEF Init, Feed!Init

\* A write of the row that is in the table is a change and nothing else.
LEMMA UpdateIsChange ==
    ASSUME TypeOK, NEW j \in Jobs, NEW status \in {"queued", "running", "completed", "failed"},
           row[j].status # "deleted", UpdateStatus(j, status),
           UNCHANGED <<shown, stream, expiredNotes>>
    PROVE  Feed!Change(j)
<1> USE DEF TypeOK, UpdateStatus
<1>1. Version' = [Version EXCEPT ![j] = @ + 1]
  BY DEF Version
<1>2. Gone' = Gone
  BY DEF Gone
<1>3. QED
  BY <1>1, <1>2 DEF Feed!Change, Version, Gone

LEMMA FeedStep ==
    ASSUME TypeOK, TypeOK', RowInv, FeedInv, [Next]_vars
    PROVE  [Feed!Next]_(Feed!vars)
<1> USE DEF ghosts, reqVars, workVars, consVars, InTable, Statuses, Terminal
<1>1. ASSUME NEW j \in Jobs, CommitJob(j) PROVE Feed!Next
  BY <1>1, UpdateIsChange DEF CommitJob, RowInv, Feed!Next
<1>2. ASSUME NEW j \in Jobs, WorkerStart(j) PROVE Feed!Next
  BY <1>2, UpdateIsChange DEF WorkerStart, Feed!Next
<1>3. ASSUME NEW j \in Jobs, WorkerFinish(j) PROVE Feed!Next
  BY <1>3, UpdateIsChange DEF WorkerFinish, Feed!Next
<1>4. ASSUME NEW c \in Cancels, CancelCommit(c) PROVE Feed!Next \/ UNCHANGED Feed!vars
  <2>1. cancel[c].job \in Jobs
    BY DEF TypeOK
  <2>2. UNCHANGED <<shown, stream, expiredNotes>>
    BY <1>4 DEF CancelCommit
  <2>3. CASE row[cancel[c].job].status \in InTable /\ UpdateStatus(cancel[c].job, "failed")
    BY <2>1, <2>2, <2>3, UpdateIsChange DEF Feed!Next
  <2>4. CASE UNCHANGED row
    BY <2>2, <2>4 DEF Feed!vars
  <2>5. QED
    BY <1>4, <2>3, <2>4 DEF CancelCommit
<1>5. ASSUME NEW j \in Jobs, WorkerPublish(j) PROVE Feed!Next
  BY <1>5 DEF WorkerPublish, Feed!Next, Feed!Announce
<1>6. ASSUME Broadcast PROVE Feed!Next
  <2>1. cons.msg.job \in Jobs
    BY <1>6 DEF Broadcast, TypeOK, Note
  <2>2. cons.ver \in shown[cons.msg.job] .. row[cons.msg.job].writes
    BY <1>6, <2>1 DEF Broadcast, FeedInv, TypeOK
  <2>3. Feed!Show(cons.msg.job)
    BY <1>6, <2>1, <2>2 DEF Broadcast, Feed!Show
  <2>4. QED
    BY <2>1, <2>3 DEF Feed!Next
<1>7. ASSUME Ack PROVE Feed!Next \/ UNCHANGED Feed!vars
  <2>1. CASE UNCHANGED stream
    BY <1>7, <2>1 DEF Ack, Feed!vars
  <2>2. CASE stream' = stream \ {cons.msg} /\ cons.msg \in stream
    <3>1. cons.msg.job \in Jobs
      BY <1>7 DEF Ack, TypeOK, Note
    <3>2. shown[cons.msg.job] >= cons.msg.ver \/ row[cons.msg.job].status = "deleted"
      BY <1>7 DEF Ack, FeedInv
    <3>3. Feed!Settle(cons.msg)
      BY <1>7, <2>2, <3>1, <3>2 DEF Ack, Feed!Settle
    <3>4. QED
      BY <2>2, <3>3 DEF Feed!Next
  <2>3. QED
    BY <1>7, <2>1, <2>2 DEF Ack
<1>8. ASSUME NEW n \in stream, NoteExpires(n) PROVE Feed!Next
  BY <1>8 DEF NoteExpires, Feed!Next, Feed!Expire
<1>9. ASSUME NEW j \in Jobs, ProjectDeleted(j) PROVE Feed!Next
  <2>1. Version' = Version
    BY <1>9 DEF ProjectDeleted, Version, TypeOK
  <2>2. Gone' = Gone \cup {j}
    BY <1>9 DEF ProjectDeleted, Gone, TypeOK
  <2>3. Feed!Retire(j)
    BY <1>9, <2>1, <2>2 DEF ProjectDeleted, Feed!Retire, Version, Gone
  <2>4. QED
    BY <2>3 DEF Feed!Next
<1>10. CASE UNCHANGED <<row, shown, stream, expiredNotes>>
  BY <1>10 DEF Feed!vars
<1>11. QED
  BY <1>1, <1>2, <1>3, <1>4, <1>5, <1>6, <1>7, <1>8, <1>9, <1>10
     DEF Next, Request, Worker, Handle, Environment, vars, CreateJob, CommitJobFails, PublishJob,
     PublishJobFails, WorkerSkip, WorkerAck, CancelRead, Deliver, Take, ReadRow, ReadMissing,
     ReadFails, AckFails, Nak, Die, DbDrop, NatsClose, Restart, WorkerCrash, RunExpires

\* The pipeline implements the feed: at-least-once, newest state, never backwards.
THEOREM ImplementsFeedHolds == Spec => ImplementsFeed
  BY FeedInit, FeedStep, TypeCorrect, RowInvariant, FeedInvariant, PTL
     DEF Spec, ImplementsFeed, Feed!Spec

=============================================================================
