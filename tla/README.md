# COA migration API: a TLA+ verification project

The repository is the backend of a chart-of-accounts migration tool: a FastAPI
application (`src/src`) on PostgreSQL, with mapping jobs handed to an ML worker
over NATS JetStream, files in S3/MinIO, and job status pushed to browsers over
WebSockets. Two predecessors, a MongoDB backend and an SQL api-service, are kept
in `src/legacy`. This project models its stateful parts in TLA+, model-checks them
with TLC and proves the central results with TLAPS.

Paths below are relative to `src/src` unless they start with `src/`.

## Inventory

| Component | State it keeps | Operations | Talks to |
|-----------|----------------|------------|----------|
| jobs (`modules/jobs`) | `jobs` rows; run and status messages; the consumer's task and session | create, cancel, reads; consume a notification | projects (access), NATS, websocket |
| NATS client (`core/nats_client.py`, `main.py`) | connection, stream configuration | connect with retries, ensure stream, close | jobs |
| websocket (`modules/websocket`) | registry of sockets by project | connect, disconnect, broadcast, authenticate | projects (access), jobs consumer |
| mappings (`modules/mappings`) | `coa_mappings`, suggestions, project status | bulk save, confirm, reject, bulk status, export | projects |
| account types (`modules/mappings/account_types`) | account type mappings per project | bulk replace, update, clear, auto-match | mappings.matching |
| projects (`modules/projects`) | projects, access grants | create, update, delete, grant, update, revoke | auth (organisations) |
| auth (`modules/auth`) | users, tokens, refresh tokens, organisations, members, invitations | register, verify, magic link, refresh, logout, invite, accept, cancel, remove member | email, projects |
| storage (`modules/storage`) | file rows, objects in S3 | upload, download, signed URL, delete | projects, S3 |
| erp, email, logging, middleware, pagination | none that changes | read-only lookups, pure I/O | |
| legacy backend (`src/legacy/backend`) | users, companies, projects, access, mappings and files in MongoDB; objects; sessions in memory | seed, log in, create, grant, revoke, delete, save and mark mappings, upload, download, remove | MongoDB, object storage |
| api-service (`src/legacy/services/api-service`) | projects, files, jobs, mappings in SQL; sessions in memory | create, upload, bulk create, edit, delete; sessions; match | SQL database, matching |
| matching (`modules/mappings/matching.py` and the api-service's copy) | none | match columns and names, group rows by type | rapidfuzz |

What is hard in this code: every request is a coroutine on one event loop with
its own database session at READ COMMITTED, so what is read before an `await`
may be stale when it is used; three stores (PostgreSQL, JetStream, S3) are
written one after the other with no common transaction; the status consumer
shares one session for the life of the process; single-use tokens and
invitations are read and then cleared without a lock. `PROJECT.json` lists every
such place with its line ("hazards") and the properties that cover it.

### What makes each component correct

* **jobs** - a job answered 201 runs and finishes; no run message names a row
  the worker cannot read; a notification is acknowledged only once it was shown;
  watchers never see a job go back; only queued jobs are cancelled.
* **websocket** - a client that connects first and fetches afterwards is never
  left behind a state that was announced; the registry holds live sockets only
  and does not grow.
* **mappings** - a bulk save is all or nothing and ends; a suggestion and its
  mapping point at each other; resending a suggestion updates it; the last save
  is what is shown; only drafts advance to `in_progress`.
* **storage** - a listed file can be read; an object without a row, or a row
  without an object, has one of a few known causes.
* **auth** - an accepted invitation makes a member and a cancelled one never
  does; "not a member" is said of people who are not; a login link works
  once, a newer link survives an older one, a refresh token that was exchanged
  or logged out is dead, and a login keeps one session.
* **projects** - access is granted to members only; no access row without its
  project; a project becomes visible with its author as administrator; nobody
  raises their own access or gives it without having been an approver.
* **review of mappings** - an edit brings back nothing that another one
  replaced, and of these requests (bulk saves are not among them) none revives
  what was deleted; who lost access writes nothing with a later request; pages
  read one after the other miss no mapping that stayed where it was.
* **account types** - a save leaves its own rows and nothing of the saves before.
* **legacy backend** - without transactions: what a stop halfway can leave
  (projects nobody can open, objects without files) has a known cause and no
  other; what was answered as granted or saved is there until a later request.
* **api-service** - a save is whole or not there, and stays; a session is lost
  to a restart or the other process only.
* **matching** - the best field, exact before fuzzy, nothing below the
  threshold; each row in the group of its type.

## Modules

| Module | Models | Abstracts |
|--------|--------|-----------|
| `JobPipeline` | requests, run and status messages, the worker, the consumer task | a row is its status and the number of its writes |
| `StatusFeed` | what the notification path promises; `JobPipeline` implements it | |
| `ConnectionManager` | socket handlers, the registry, the phases of a broadcast | a job's state is the number of its writes |
| `MappingStore` | bulk saves as transactions, deletions, the project's status | a mapping is its suggestion and `is_active` |
| `FileStorage` | upload, delete, download over S3 and PostgreSQL; the deletion of the project | content, paths, types |
| `Organization` | members, invitations, accept / cancel / remove | names, tokens (an invitation *is* its token) |
| `ProjectAccess` | project creation, grants, updates, revocation, deletion; EXTENDS `Organization` | columns of the project |
| `AccessTrail` | who asked for each change of access, and the column `assigned_by`; EXTENDS `ProjectAccess` | |
| `AccessPolicy` | what access control promises; `AccessTrail` implements it | |
| `Sessions` | one user's verification, magic links, refresh tokens, logout | a token is named by the request that made it |
| `MappingReview` | edits, deletions and bulk status changes over several projects, with access changing; the list, page by page | a row is five fields |
| `AccountTypes` | saving, clearing and changing the account-type table; EXTENDS `MappingReview` | |
| `Review` | the two together | |
| `LegacyProjects` | the MongoDB backend: start-up, log-in, projects, access, mappings, every `await` a step | |
| `LegacyBackend` | its files, objects and sessions; EXTENDS `LegacyProjects` | content, parsing |
| `Matching` | the matching algorithms, as operators | a text is its scores |
| `ApiService` | the SQL api-service, its two processes, and requests for matches; EXTENDS `Matching` | |
| `MC_*` | instances for TLC | |
| `*_proofs` | theorems | |

A definition commented "Variant: ..." or "Not the code: ..." is the definition
that follows it with one plausible mistake. No specification uses it; it is what a property is tried
against, to see that the property notices.

### JobPipeline and StatusFeed

`post[j]` follows `JobService.create_job`: insert, commit, publish, and the 201
or 500. `cancel[c]` follows `cancel_job`: read and test, then `UPDATE` by primary
key. `runq`, `stream` and `buffer` are the two subjects of JetStream and
what was pushed to the subscription. `worker[j]` is the ML worker, which is
not in the repository: it is modelled from the protocol the README and the
consumer rely on. `cons` is the task `NATSConsumer._consume`, one program
counter for its awaits (read the row, broadcast, ack, nak), with `session`
the single database session it was given at start-up. `row[j].writes` and
`shown[j]` are ghosts: how often the row was written, and the newest
version that was broadcast. Faults are actions (failed commit or publish,
lost ack, worker crash, restart, lost database connection, the NATS client
closing itself, the two `max_age` limits), each counted against
`MaxFaults`.

`StatusFeed` knows versions, what was shown, and debts. The refinement maps the
stream to the debts: an ack that came before its broadcast would settle a debt
nobody was shown, which is not a step of the feed.

### ConnectionManager

`handler[s]` is where `ws_jobs` is; `conns` is the dict `_connections`; `cast`
is the consumer inside `broadcast`: the payload it read, the sockets it still
has to await, those that raised. The sections under the lock contain no await,
so each is one action, and the sends are one action each. `known` and `fetched`
are the client's. The worker announces what it writes (`Write`, `Announce`), and
`told` is the newest state so written; a cancellation (`Cancel`) writes the row
and announces nothing, so a client may be behind `row` and never behind `told`.

### MappingStore

A save (`pc`, `at`, `target`, `missing`) goes through its body row by row, with
an action for each statement whose outcome another transaction can change; what
it has written and not committed is `work` and `relink`. `HoldsMapping`,
`Waits`, `Deadlocked` and `DeadlockVictim` are PostgreSQL: row locks until the
end of the transaction, and the failure of one transaction of a cycle.

### FileStorage

One program counter for each request, with the S3 call and the commit as
separate actions in the order of the code, each with its failure;
`S3Provider.delete_object` swallows a `ClientError`, so a refused removal goes
on to commit. A crash drops every request under way. `store` is whether an S3
endpoint is configured: without one `put` and `delete` do nothing and answer as
if they had. `DeleteProject` is `delete_project` of the projects service, which
takes the rows of the files and leaves their objects; that the rows go with the
project is the foreign key's doing, as below. An upload that was checked before
it puts its object and then fails to commit (`CheckUpload`, `CommitUploadFails`). The definitions a module usually calls `Init`, `Next`, `vars` or
`TypeOK` carry the prefix `Storage` here, so that a module can extend this one and
`MappingStore` together.

### Organization and ProjectAccess

An acceptance is four steps (read the invitation, look the member up, insert,
mark accepted) and a commit, each waiting for the locks of the others. The
UPDATE that marks the invitation must find its row, or SQLAlchemy raises.
`oneRow` says whether the table has a unique key on (user, organisation): the
tables are defined in the package `coa-db-models`, which is not in the
repository, so both values are initial states. Without the key two links may
insert the same member twice; the role is then "double", and `get_member` raises
for that person from then on. From the same package the model takes that
deleting a project deletes its access rows, and that an access row needs its
project (`uq_user_project` is named in the code).

A project is created with a commit in the middle of it: `grant_access`, called
for each listed member, commits. `WithAuthor` and `Visible` are what that first
commit shows. Later requests check (`Start`) and write (`Upsert`, `Revoke`,
`Delete`) in two steps. Requests refused by a check change nothing and are not
actions.

`AccessTrail` conjoins to these actions what they write to `assigned_by`, and
remembers the user of each request (`asker`) and who has ever been an approver
(`held`, a history variable). `AccessPolicy` knows neither requests nor checks:
access is given, taken and deleted with the project, each at one instant. It does not ask that the
giver is an approver at that instant, since the code does not: a request checked
before its user was revoked is still written. What it asks is that the giver has
been one, is somebody else, and is who the row names.

### Sessions

A request looks its token up (`VerifyEmail` ... `Logout`) and later writes by
primary key and commits (`VerifyUser` ... `Revoke`), or fails. `before[r]` is a
history variable, the requests answered when `r` began: "used once" can only be
promised to requests that begin after the answer, since the look-up takes no
lock, and `before` is how the properties say so. `origin` remembers the link a
refresh token descends from. Overlapping requests do break "single-use": two
followers of one link both log in, and a link mailed meanwhile is cleared unread
(`LinksAreLostToOverlap` says when).

### MappingReview, AccountTypes and Review

A request reads its rows (`LoadRows`), checks its user's access to one project
after the other (`CheckAccess`), and writes. `Flush` is what SQLAlchemy sends:
of the attributes a request sets, those that differ from what it has read. So an
edit of one column leaves the others as they are by then, and an edit that sets
a column to the value it has read writes nothing. `SetAccess` is the projects
service, reduced to its effect. A save of account types is a DELETE, which takes
the rows committed when it starts and waits for those another transaction is
deleting, and an INSERT, in one transaction. `wrote` and `before` are history
variables: what a request was told it wrote, and who had ended when it began.

A request for the list reads one page (`ReadPage`): the active mappings with the
status asked for, by `created_at`, from `skip` on, `limit` of them; those created
at one moment come in an order that may differ from query to query (`Pages`).
`PagesMissNothing` is about two pages read one after the other, and exempts
exactly what may shift them: a status or an activity written meanwhile to a
mapping that is not listed later, and a mapping that shares its moment. Bulk saves
insert rows as well, whose `created_at` is that of their transaction's start;
they are in `MappingStore` and not here.

### LegacyProjects and LegacyBackend

`Program` lists for each operation the awaits the code makes, in order; `todo[r]`
is what a request has left of them, and an action of that name says what the
await does to the database and where the request goes from there. Start-up is a
program as well (`SeedPlan`). MongoDB is used without transactions, so a failed
call (`Fail`) or a dead process (`Crash`) leaves what was done before it.
`note[r]` is what a request has read and will use; `torn` the requests that were
answered with two numbers that differ. A file and its session are named by the
request that made them. `init_storage` is asked again until it has once said yes,
so `ready` may become TRUE at any step that asks.

### Matching and ApiService

A text matters by how it scores against each candidate and whether it equals it
but for case and separators, so a column is three sequences. The scorer is
rapidfuzz and external; `ExtractOne` is its documented choice of the first best.
`MatchColumn`, `BestTargetName` and `GroupRows` follow the passes of the code and
are checked against `IsBest` and `IsGrouping`, which say what the answer has to
be and nothing of how it is found.

In `ApiService` a request with its own SQL session goes check, insert, refresh
or load, write; `sessions[p]` is the dictionary of process `p`, and a request is
served by any process. Deletions cascade as the foreign keys say. The queue
is never connected (`Connected`), so a job is answered with a warning.

After its commit a request that makes, edits or deletes something is at `refresh`:
committed and not answered. There it reads again what it answers with, and a lost
connection or a restart (`DatabaseFails`, `Restart`) leaves the write with nobody
told of it. So `AnsweredStays` lets an answered name give way to any edit that
committed and had not ended when this one began, and a row to any deletion,
answered or not. `same` is what an edit found done already, which the ORM does not
write, and `wrote` what it committed.

## Runs

| Run | Question | Instance | Result |
|-----|----------|----------|--------|
| `jobs` | what the row and the messages know of each other; acknowledged means shown; refinement of `StatusFeed`; a 201 finishes; what stops notifications | one job, one cancellation, any two faults | holds |
| `jobs_cancel_race` | "Only queued jobs can be cancelled" | no faults | **violated** |
| `jobs_db_drop` | announcements are shown | one lost database connection | **violated** |
| `ws` | registry, client never left behind an announced state, dead sockets dropped | two sockets, two projects, two writes, announced or not | holds |
| `mappings` | all or nothing, links agree, saves end, a commit shows itself; one after the other they duplicate nothing | two saves that may overlap or not, seven bodies of two rows | holds |
| `storage` | which of row and object can be alone, and why | two files, two deletes, one download, crashes, the project's deletion | holds |
| `access` | members, invitations, grants; refinement of `AccessPolicy` | two people, one invitation followed twice, one cancellation, one removal, a creation, two later requests | holds |
| `access_remove` | "User is not a member of this organization" | the same | **violated** |
| `sessions` | used tokens stay dead, one session for each login, which links are lost | five requests of any kinds | holds |
| `review` | edits survive each other, revoked users write nothing, pages miss nothing, account types are one save's | three requests of any kinds, two users, two projects, four mappings of which two have one moment, one failing commit | holds |
| `legacy` | what a stop in between leaves behind, what overlap undoes or hides | three requests of sixteen inputs, two projects, three users, one failed call or crash | holds |
| `api` | saves are whole and stay, edits stay, sessions; best matches | three requests, two processes, one failure or restart; every match over three scores and up to three rows | holds |

The three violations are disagreements between a sentence of the code and what
the code does; `PROJECT.json` quotes them ("findings"):

1. `cancel_job` overwrites the status of a job that started after the check;
2. one lost database connection leaves the consumer's only session unusable, and
   every later notification is refused for ever;
3. `remove_org_member` passes its two ids to `get_member` in the wrong order and
   answers 404 for every member.

Two more are known and have no run of their own. `mappings/repository.py:47` calls
the save idempotent; two overlapping saves of one suggestion, or one body that
names it twice, insert two active mappings. So `ResendIsSafe` and
`CommitIsVisible` are about saves that follow each other and bodies that name a
suggestion once (`NamesOnce`), and the latter about suggestions the body does not
also change by the id of their mapping. And a status set while a save is under way
is overwritten with `in_progress` (`mappings/service.py:38`), since the save
writes what it read.

### Bounds

Each hazard needs two requests on one object, and some a third party (a fault, a
deletion, a change of access): the instances have these and no more. Two faults
let a lost ack meet a restart or a failed read; the theorems about the pipeline
hold for any number. One job is enough for the pipeline, because jobs share
only the consumer, and what one of them can do to another there (hold it, break
its session, end it) faults do as well; `jobs_cancel_race` runs with two. Two
sockets are the smallest number with a "last socket of a key". Bodies of two
rows give both lock orders. `MaxWrites`, `MaxRows` and `MaxFaults` are the only
bounds on counters, and the theorems need none of them, nor a bound on the
number of requests.

`review`, `legacy` and `api` let every request be of any kind, so the inputs
are few of each: in `legacy` each operation whose awaits write, one of each kind
that reads twice (`detail`, `list`), and of the operations on files two that read;
the operations left out repeat awaits of these. In `access` only "approver" is
asked for: with "admin", which creators have, it is the two levels that checks
ask for, and whoever has less is refused and changes nothing. A third request is needed where
a property speaks of a cause: an edit, the edit it could undo, and the
revocation between them. The provider is S3, which can delete. `api` looks at
matching requests by themselves, as they read no state.

Symmetry is used in `access` (links followed, later requests), `sessions`,
`review` and `legacy` (requests) and `api` (requests and processes), whose
properties are invariants and action properties and name no member of the
symmetric sets; no run with a liveness property uses it. Five requests hold a
login, its use, two refreshes that overlap or follow each other, and a logout.

Runs with `CHECK_DEADLOCK FALSE` are of systems that may rightly stop: every
request has been made and answered and nobody has to make another.

### Fairness

`jobs`: an accepted request goes on (the event loop runs every ready
coroutine, and nothing in `create_job` can block for ever), JetStream pushes
what is stored, the worker works, the consumer task takes and handles. Clients,
faults and restarts are not fair. `ShownWhileConnected` exempts executions in
which the consumer has lost its database connection or its NATS client has closed
itself; `jobs_db_drop` shows what the first does. `ws`: a handler whose peer is gone
notices it, since receiving raises, and the consumer goes on.
`mappings`: a request runs on while it is not waiting for a lock, and
the database breaks a deadlock. All of it is weak fairness.

## Proofs

Checked by TLAPS for every value of the constants (any number of jobs, sockets,
saves, files, people and requests; the assumptions are the named ASSUMEs of each
module: distinctness of the "nothing" values, finiteness where a cardinality is
taken, that ids of organisations and users differ, and what a request may contain:
for `LegacyProjects` that users, roles and projects are of those sets and that a
new project's id is new, for `ApiService` that each operation has its fields and
that scores are percentages). Every invariant and action property that a passing run checks is a
theorem.

* `JobPipeline_proofs` - types, then `RowInv` (what the request and the worker
  know of the row: published implies committed), then `FeedInv` (versions
  announced, held, shown and committed, in that order), which gives
  `HandledMeansShown`, `ShownNeverRegresses` and the refinement
  `ImplementsFeed`. `FeedInv` is needed because "acknowledged means shown" is
  not inductive: between the broadcast and the ack only the consumer's state
  remembers that the broadcast happened.
* `ConnectionManager_proofs` - `RegistryInv` (the registry is exact) and
  `KnownInv`: an announced state (`told`) a client does not know is still unsent,
  pending, or in the payload on its way to that client, and a payload older than
  it is followed by another notification.
* `ProjectData_proofs` - about what a project holds.
  Of `MappingStore`: `StoreInv` says what is in a save's uncommitted rows
  (`Own`), that each row passed left its mapping or its error (`Written`), and
  that the second pass linked them (`Linked`); it gives `SavedIsLinked` and
  `AllOrNothing`. `SoloInv` says what more is known of a save that runs alone:
  the link it has looked up is still the link, it makes a mapping of a suggestion
  only while that has none, and each row passed is in what it has written, as it
  says (`Put`). It gives `ResendIsSafe` and the action property `CommitIsVisible`.
  Of `FileStorage`: `StorageInv`, a put object stays until its row is, and
  whoever removed an object is still there to be blamed; it gives all properties
  of `storage`.
* `ProjectAccess_proofs` - `OrgInv` (an acceptance under way knows that its
  invitation was sent, that its user is a member unless it adds one, and, once
  marked, that nobody deletes it) and `AccessInv` (a checked grant or update
  still has a member, or the author, as its target). All properties of the
  run are theorems, and that no access row is without its project. `MembersStay`,
  on which `GrantedAreMembers` rests, is true only because of violation 3: no
  member is ever removed. Once removal works, `remove_member` will have to revoke project access too, or that theorem fails.
  `TrailInv` adds that whoever asked for a grant under way has been an approver and
  is not its target, that the author is one from the first commit on, and that a
  row without permission has no assigner; with it every step of `AccessTrail` is a
  step of `AccessPolicy` or none (`ImplementsPolicy`): a revocation after the
  deletion, say, finds nothing to take.
* `Sessions_proofs` - `SessionsInv`: a request holds a token answered before it
  began (`Known`), so what it writes cannot revive a link (`Spent`), a refresh
  token (`Dead`), or clear a link older than its look-up that is not its own
  (`Held`); and the tokens of a login form a chain whose last member alone can be
  alive (`Chain`). All properties of the run are theorems.
* `Review_proofs` - every step is of one request that has not ended (`Moves`), so
  what it writes is later than every request that has. Hence what a request has
  read is still so or a later request changed it (`Fresh`); what access it was
  given is what the last change said, or a later one (`AccessIsSet`, `Allowed`);
  and a table of account types is covered by the rows of the saves that had not
  ended when the answered one began (`NamesFresh`, `OwnRows`, `Covered`). A mapping
  that now has its place on an answered page is on it, or has moved since the page
  was asked for (`Paged`), and a place on two pages that meet is on one of them. All four properties of the run are theorems.
* `LegacyBackend_proofs` - a running request has a suffix of its program left
  (`OnCourse`), so that what it still has to do tells what it has done, and on a
  file what it has done to it (`SoFar`). About projects the invariant has a part
  for each property: a project is closed to all until its creation is over
  (`OpenInv`); access found after a deletion swept it is of an overlapping grant
  (`StrayInv`); a project nobody can open has been given up on, or is about to be
  (`ReachInv`); a role answered as granted is there, or another request set it
  later or took it (`GrantInv`), and who was taken off is on again only by a grant
  that had not ended when the removal began (`OutInv`); the last save, if all others had
  ended before it began, has its rows and no others there (`MapsInv`); and what a
  reader has counted is still so unless a save or a deletion overlaps it
  (`ReadInv`). Several
  speak of requests that had ended when another began, so `ControlInv` keeps that
  history (`TimeOK`) and what start-up has left (`SeedOK`). All properties of
  the run are theorems.
* `ApiService_proofs` - first the algorithms of `Matching`, for any scores and any
  rows: `MatchColumn` and `BestTargetName` answer what `IsBest` asks
  for, `GroupRows` what `IsGrouping` does. The grouping goes over rows with a
  recursive function; that it is right for every prefix (`Grouped`) is proved by a least
  counterexample (`WFMin` on the naturals), which needs no induction
  theorem. Then the service: `Control` (where each operation can be), `SessionsKept`
  (a session a client was told of is in its process unless that has restarted, or
  it was dropped), and `RowsInv`: a row was made by the request that names it
  (`MadeRows`), what a request has loaded was there before (`MadeLoaded`), and a
  save is whole from its commit on (`WholeFromCommit`), which is earlier than the
  answer that `SavesAreWhole` is about. `NamesKept` says the same of an edit: from
  its commit on its rows show its name, or another edit that is not earlier has
  committed one, answered or not. All properties of `api` are theorems.

Only model-checked: liveness (`CreatedFinishes`, `ShownWhileConnected`,
`DeadAreDropped`, `SavesEnd`), since the prover has no ENABLED, and the violated
properties, which have a counterexample instead of a proof. The induction
theorems of the library cannot be used, since they take an operator as a
parameter; where data has to be walked through, definitions are recursive
functions or folds and the proof takes a least counterexample, or, as for the
best match, the definition is a choice whose witness is shown to exist.

## Hazards without a property

* A publish whose acknowledgement is late is a 500 although the job will run, and
  the client's retry makes a second job (`jobs/service.py:53`): the code has no
  notion of a retry, so nothing is promised.
* Health is answered from what was true at start-up (`main.py:126`): a constant.
* A cancellation is not announced (`jobs/service.py:99`): `CreatedFinishes`
  counts it as finished, nobody promises that it is shown, and
  `ConnectedKnowsAnnounced` is about the states that are announced.
* A slow client delays all others (`connection_manager.py:45`): no time here.
* An overlapping save (above); a body that names a suggestion twice inserts two
  mappings and links the last (`mappings/repository.py:107`).
* Two invitations at once for one address (`invitation_service.py:72`); the last
  administrator can be revoked (`projects/service.py:263`); a lost verification link cannot
  be had again (`auth/service.py:71`); without an S3 endpoint uploads are
  answered as stored (`storage/service.py:58`). Each holds by the absence of
  code, which a property would only restate.

## Not modelled

* In `src/src`: listings of jobs, projects and files, dashboards, signed URLs, and
  what only reads mappings besides the list: suggestions with their mappings,
  statistics, the workbook (the first page of the same query, 10000 rows long).
* `erp` and `email`: no state that changes; mail is sent after the commit and
  nothing depends on it.
* Logging, configuration, pagination, error pages.
* Retries of the first NATS connection: nothing is served before they end.
* In `src/legacy`: parsing of files and the ERP catalogue; the client an S3
  provider keeps after its first bucket check has failed is part of `InitStorage`,
  which may succeed or not; the front end's and the worker's configuration.
* The ML worker is not in the repository; `JobPipeline` has its protocol.

## Plan

Done, most important first: the job pipeline and its feed; the registry of
sockets; bulk saves; files; organisations and project access; one user's
sessions; the review of mappings and account types; the old backend; the
api-service and matching.

Proved: every invariant and action property of these, and the refinement of
`StatusFeed` and of `AccessPolicy`.

Next, in this order:

1. Access composed with its consumers: `JobPipeline` checks access once and acts
   later; a join with `ProjectAccess` states what a revocation promises.
2. The list of mappings composed with bulk saves, which insert rows between its
   pages.
3. An abstract specification of log-ins (one live token for each, what is dead
   stays dead) that `Sessions` implements, with its proof.
