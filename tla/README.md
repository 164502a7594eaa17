# A verification project for adacs_job_controller

The job controller (`src/src`, Rust on tokio) sits between web applications and
remote HPC clusters. Applications submit, cancel and delete jobs and download
files over HTTP; remote cluster clients, launched over SSH, call back on
WebSockets; a database holds the jobs, their history, one-time tokens and tables
that belong to the remote clusters. This directory holds TLA+ models of its
concurrent core, the TLC runs that check them on small instances, and TLAPS proofs
for all instances.

    tlc -workers 2 -config DownloadRace.cfg MCDownloadLifecycle   # a run
    tlapm JobLifecycleProofs.tla                                  # the proofs

`PROJECT.json` lists runs, mutants, the source lines behind every definition,
findings, hazards and theorems. Paths below are relative to `src/src/src`.

## 1. The system

| Component | State | Operations | What makes it correct |
|---|---|---|---|
| Download lifecycle (`cluster/file_download.rs`, `cluster/manager.rs`, `http/file.rs`) | `DownloadSession` (state, connection, reason), `file_download_map`, `file_download_clusters`, `connection_map`, the cleanup channel | `create_file_download`, admission, `trigger`, cleanup worker, `remove_connection`, exit guard, shutdown | every session is released exactly once and wholly; no socket is stranded |
| Outbound queue (`cluster/cluster.rs`) | deques by priority and source, `queued_message_size`, two `Notify`s, the watched sender | `queue_message`, scheduler, pruner, `wait_for_queue_drain`, `stop`, `terminate_download_tasks` | no lost wakeup, bounded preemption, order of a source, exact size, tasks end |
| Connections and keep-alive (`cluster/manager.rs`) | watched sender, `connection_map`, `ping_times`, `pong_times`, `missed_pongs`, `cluster_uuid` rows, `reconnect_attempts` | admission by long-term key or token, `check_pings`, `handle_pong`, `remove_connection`, `reconnect_clusters` | `is_online` is truthful, removal is exact, silent peers go, offline clusters are offered tokens |
| WebSocket server (`websocket/server.rs`) | per connection: forwarder, read loop, exit guard | `handle_socket` | every end of the loop releases what admission registered |
| Job API (`http/job.rs`) | `job`, `job_history` rows | `create_job`, `cancel_job`, `delete_job`, `get_jobs` | transitions are legal, nothing is forgotten |
| Job updates and resend (`cluster/cluster.rs`) | `job_history` rows, outbound queue | `handle_update_job`, `run_resend` | every job gets to the cluster through losses and crashes |
| Application (`app.rs`, `main.rs`) | shutdown signal | start, `begin_`/`drain_application_shutdown` | the drain ends and releases all downloads |
| File transfer and back-pressure (`http/file.rs`, `cluster.rs`) | chunk channel, `FileDownloadState` | `handle_file_chunk`, PAUSE/RESUME, body stream | the body is the file, the buffer is accounted for, every stream ends |
| File upload (`http/file.rs`, `file_upload.rs`, `manager.rs`) | `file_upload_map`, `FileUploadState`, a dedicated queue | `upload_file`, `create_file_upload`, upload admission and removal, answers | all chunks before COMPLETE, failed sessions leave nothing, every upload ends |
| File lists and cache (`http/file.rs`, `cluster.rs`, `db/file_list_cache.rs`, `http/utils.rs`) | `file_list_map`, `FileListState`, cache rows | `list_files`, `request_file_list`, background and completion tasks, `filter_files` | answers are right, the cache holds the listing of the finished job only |
| Cluster database proxy (`db/cluster_db.rs`) | the clusters' tables | the DB_* requests | rows stay with their cluster |
| Message codec (`protocol/message.rs`, `db/models.rs`) | the bytes and the cursor of a message | push, pop, `try_pop_*`, the tests of the handlers | pop inverts push; a cut message names no other row |
| SSH, auth, HTTP routing, configuration, entities, utilities | none that changes | | |

**Interaction.** HTTP handlers and WebSocket handlers call the manager, which
hands out `Cluster` objects; everything outbound goes through the queue of a
`Cluster` to the sender its watch channel holds. The HTTP side and the WebSocket
side of a download meet in the session and its cleanup primitive. Jobs meet their
cluster only through history rows, the outbound queue and `UPDATE_JOB` reports. A
transfer has a WebSocket of its own; file lists and database requests share the
connection of the master cluster, each with a request id of its own.

**What is hard.** Many tasks share maps and channels without a common lock, so
that every pair of accesses is a window: admission against cleanup, eviction
against the handler, a pong against an eviction, a request against a report,
`notify_one` against a pass over the levels, a chunk against the stream that
drains it, a listing against the end of its job. HTTP handlers can be dropped at any
await. Messages are discarded without a connection and brought back by a
periodic scan only. The process may die between a row and its message. The list
is in `PROJECT.json` under `hazards`, each at its line with the properties that
watch it.

## 2. The modules and the code

A step of every model is one access to shared state. Handlers, tasks and peers
have program counters; the values name what has been done so far.

### DownloadSession, DownloadLifecycle, DownloadRelease

`DownloadSession` is `file_download.rs`: state, bound connection, reason and the
channel to the cleanup worker, with `NewSession`, `BindSession`,
`TriggerSession`, `CompleteSession` as the operations under the lifecycle mutex. The
request to the worker is part of `TriggerSession`: the code sends it right after the
lock, without an await, and only the trigger that won sends.
`DownloadLifecycle` composes it with the parties that race:

- `http[d]` is `download_file`: `HttpEnter` .. `ArmGuard` (creation, publication,
  the pre-response guard), `AskRemote`, `WaitReady`/`WaitTimeout`, `StreamEnd`;
  `DropHandler` and `DropBody` are a client that leaves;
- `ws[c]` is `handle_socket` with `handle_new_connection`: the admission in six
  steps (`AdmitCheck`, `AdmitBind`, `AdmitLookup`, `AdmitInstall`,
  `AdmitRecheck`, `AdmitInsert`, `AdmitAccept`), `RetainSession`, the reading
  loop, grace period, `remove_connection`, the exit guard;
- `step[p]` is a run of `cleanup_file_download`, by the worker or inline in a
  handler, one action for each resource it releases;
- `arm[a]` is one of the two shutdown futures: `BeginShutdown` (the flag), the sweep
  that only the first one makes (`BeginSweep`, `TriggerNext`), the drain with its
  deadline.

Data is abstract: file contents are gone, `flags` are the booleans of
`FileDownloadState` that decide how `download_file` returns.

`DownloadRelease` is the promise without the parties: absent, live, closing,
released, in this order and for good. The mapping `phaseBar` takes a session as
released when nobody works on it and nothing of it is registered or running;
`ImplementsRelease` and `ImplementsFairRelease` say that `DownloadLifecycle`
implements it.

### MessageQueue

One `Cluster`'s queue. `SchedCheck`, `SchedWait`, `SchedWake`, `StartRound`,
`SkipSource`, `PopSource`, `SendHeld`, `PeekHigher`, `EndRound` are
`run_scheduler`, with the look of `has_higher_priority_data` at one level a step;
`PruneWake`, `PruneNext` are `run_prune`; `DrainCall` .. `DrainTimeout` are
`wait_for_queue_drain`. `dataPermit` and `sizePermit` are the single stored
permits of `Notify`; `stop` uses `notify_waiters`, which stores none. A message
counts as one unit of the size. `QueueMessage` pushes and adds to the size in one step:
the code does both under the lock of the level, but the size is read without it, so
that a drain may read it a moment earlier there; a caller who is not yet back from
`queue_message` cannot tell.

### ClusterConnections

Admission (`Connect`, `UuidLookup`, `UuidConsume`, `OnlineCheck`, `Install`,
`Insert`), the ping cycle (`PingCollect`, `PingCount`, `PingEvict`, `PingBegin`,
`PingNext`, `PingDone`), pongs (`Pong`, `PongWrite`, two steps because an eviction
fits in between), `remove_connection` (`Removes` is the exact removal that
decides who goes on, then `RemoveClose`, `RemoveClear`, `RemoveForget`), and the
reconnect scan (`ScanStart`, `ScanPurge`, `ScanIssue`, `ScanFail`,
`BackoffElapses`). Writes that follow each other without an await and go to maps that
no reader compares (`pong_times` and `missed_pongs`, the backoff counters) are one
step. SSH is a client that connects with its token, or never.

### JobLifecycle

History rows are what the database keeps: `latest[j]` is the state of the row
that `ORDER BY timestamp DESC, id DESC` finds. A writer takes its time stamp
before it inserts, so `stamped[j]` lists, in order of stamps, the writers whose
row would be newer than the latest: an insertion becomes the latest row and
removes itself and older writers, who can no longer be. `create_job` is
`CreateJob`, `CreateCheck`, `CreateSend`, `CreateStamp`, `CreateInsert`;
`cancel_job` and `delete_job` are `RequestLoad`, `RequestDecide`,
`RequestInsert`, `RequestSend`; `run_resend` is `ResendScan` and `ResendSend`;
`handle_update_job` is `UpdateStamp`, `UpdateReject`, `UpdateInsert`. The wire has
two lanes per job: the resend task queues under the empty source
(`cluster.rs:1188`), the requests under the job's. States that all tests in the
code treat alike are one: "Active" stands for Submitted, Queued, Running;
"Finished" for Completed, Error, WallTimeExceeded and OutOfMemory. The cluster
reports these, Cancelled and Deleted, of jobs that it was given; `handle_update_job` would also
insert a report of Pending, Submitting, Cancelling or Deleting, which are the
controller's own states. The cutoff of
the scan is a choice of the subset of jobs whose rows are old enough.

### DownloadStream

The data of one download. `handler` is `handle_file_chunk`, one step for each access
to the shared `FileDownloadState`: `TakeChunk`, `CountChunk`, `PushChunk`,
`CheckBuffer`, `MarkPaused`, `QueuePause`, `FinishChunk`; `TakeDetails` and
`TakeFault` are the other messages. `reader` is `download_file` from
`wait_until_data_ready` (`CheckReady`, `WakeUp`, `AnswerTimeout`) over the answer
(`Evaluate`) to the loop of the stream (`TestLoop`, `ReceiveChunk`, `LoadReceived`,
`ExchangePaused`, `QueueResume`, `YieldChunk`, `ChunkTimeout`, `EndStream`). A byte
is its position in the file, so that the body can be compared with the file. PAUSE
and RESUME have one priority but two sources, the empty one (`cluster.rs:1188`) and the
UUID (`cluster.rs:1307`), and the scheduler may send either first: `orders` counts what
is queued of each. The triggers of the session are here only as the first reason;
what they do is `DownloadLifecycle`.

### FileUpload

`put` is `upload_file` with every return: the session (`Enter`, `CreateUpload`,
`AskUpload`, `LookupUpload`), the wait for SERVER_READY, the four calls of
`check_upload_error`, the body, `wait_for_queue_drain` in its two uses (`Drain`,
`DrainAll`), `QueueChunk`, `QueueComplete`, the wait for the confirmation, and the
two orders of `remove_file_upload` and `close` that the returns have. `peer[c]` is
a connection with the session's UUID: admission in three steps, of which the
read guard of the map keeps removals out (`Unguarded`), answers, and
`remove_connection` in three steps. The queue has the two levels an upload uses;
which is served first is left open, which allows more than `MessageQueue` does.

### FileList and PathFilter

A task is a user's `list_files` or one that fills the cache, spawned by a listing
(`spawn_background_cache`) or by the completion report
(`cache_file_list_on_completion`); all of them go through a `FileListState` in
`file_list_map`. The job has one set of files while it runs and another when it has
finished, and it finishes at any time. An answer is dropped (`DropAnswer`), recorded
as an error (`HandleListError`) or read as a list (`HandleListResponse`). The loop of
`handle_file_list_response` stops without an error where the bytes end, so that the list
it stores is any part of the one that was sent; a test of the repository
(`cluster.rs:2872`) asserts this. The history variables `cut` and `cacheCut` remember
which tasks, and whether the cache, have their files from such a list. `PathFilter` is `filter_files` with
`weak_canonical` and `is_within` on sequences of path components.

### ClusterDb

The three tables of the clusters, and a handler per connection: a request is
accepted, its accesses to the database are one step each, any of which may fail,
and it is answered. Requests on different connections interleave between these
accesses, most of all in `handle_bundle_create_or_update`, which looks up and then
writes (`FindBundle`, then `UpdateBundle` or `InsertBundle`). Rows have their
keys, their cluster and one value for the rest.

### WireFormat

Here the bytes matter. A message is encoded as the client does it (`Layout` has the
fields it pushes, `Pushed` their bytes), cut at any place, and read as `from_bytes` and its handler read it: `Reader(id)` is the list
of tests and pops of the handler of that message, and each step carries out the
next. What the client sends and what the handlers pop are separate tables: that they
agree is part of what is shown. A pop that finds too few bytes gives zero and does not move the cursor;
`try_pop_string` gives up when a length prefix claims too much. Numbers are exact
below 2^24 and saturate there: what is above is only compared. `BodiesAssumption` says
what the client sends: fields of the types of its layout, ASCII strings, a source
without NUL, numbers below 2^24, a status that exists, as many row ids as announced.

External parts, modelled from how `src` uses them: the remote client (obeys,
answers, reports, sends files, or is silent), axum dropping a handler, the insert,
update and delete of the database, the crash of the process.

## 3. Runs

| Run | Shows | Bounds |
|---|---|---|
| `download_race` | nothing is left behind, one shutdown per session, accepted connections stay wired, no stranded socket, guarded returns trigger, refinement of `DownloadRelease` | one download, two connections, both shutdown futures |
| `download_live` | retained sessions get to Closed; requested shutdowns are carried out | one connection, one shutdown future |
| `queue_schedule` | no lost wakeup, preemption by at most one message, order of a source, exact size; a waiter for the drain is told, and what it is told is true | two sources, two levels, three messages, both kinds of drain |
| `queue_live` | everything leaves, arrives while online, and the tasks end | two sources, two levels, two messages, two changes of connection |
| `connections` | `is_online` is truthful, no dead ping entries, silent peers go offline | long-term key, two connections |
| `connections_offered` | offline clusters are offered tokens | one-time tokens, one connection, two tokens |
| `job_live` | what waits is carried out; no CANCEL before a SUBMIT was queued | one job, one request, two messages, one fault, no reports |
| `job_reports` | what waits is carried out while reports change the history, and the history stays behind the cluster | two jobs, one too wide for the wire, one message and one report of a job at a time, one fault |
| `transfers` | downloads: the body is the file and Complete means whole, no missed wake-up, exact buffer size, every stream ends. Uploads: COMPLETE after the whole body, failed sessions are gone, every upload ends | files of up to 4 bytes in chunks of 1 or 2, buffer limits 2 and 1, two messages under way; bodies of up to 2 chunks, no more than one of them queued, two connections with the UUID |
| `master_requests` | lists: right answers, and the final listing in the cache, whole unless a FILE_LIST was cut; every task ends. Database: rows stay with their cluster. Bytes: whole messages are read as sent, cut ones name nothing else | one user, two filling tasks, two requests, lists cut anywhere; two clusters, two requests each; every message of the protocol's two tables cut at every byte |

*Why these are enough.* A download race needs two connections with one token (the
duplicate), every cleaner (worker, inline cleanup in either handler) and the shutdown
future that sweeps beside the one that only drains. Two
downloads share nothing but the worker's channel, and the proofs cover any
number. Preemption and order need two sources, two levels and more messages than
sources. Evicting a connection while its
successor registers needs two connections. Two messages of one job on two lanes
can overtake; a fault is a crash or a lost connection, at any point. Reports and
requests together are covered by the proofs, as are larger numbers throughout. A declared size may lie within a
chunk, at its end, beyond the file or be zero, and the buffer exceeds its limit
with the second chunk; an upload's second chunk has to wait for the first to
leave; a second connection races the first for the sender. Two filling tasks let a
background task and that of the completion overlap. Two requests of a cluster are
a save and what follows it. Strings are chosen long enough for a cut in a later
prefix to get past the tests of the handlers. `MCTransfers` and `MCMasterRequests`
put components with no common state beside each other: each behaviour is one of
one component. Symmetry is used
for connections, shutdown futures and sources, which are interchangeable, in runs
without liveness. The chunks of the run have bytes; those without, which
`handle_file_chunk` forwards too, are covered by the proofs, and `StreamEnds` is not
true of a remote cluster that sends them for ever.
`CHECK_DEADLOCK FALSE` is set throughout: a finished bounded instance stops, as a
controller without clients does.

The bounds that are not in the code: `MaxMessages` and `MaxSwitches` (calls in a
behaviour), `MaxSize`, `MaxWire`, `MaxChunks`, `MaxRequests`, `Fillers`, `MaxTokens`, `MaxQueue` and `MaxReports` (per job under way),
`MaxFaults`. A full queue only delays a step; reports beyond the bound are lost,
as any may be.

### Statements of the repository that the code does not meet

Each of these runs has one property, taken from a comment or document, and TLC
finds a behaviour of the code that violates it.

| Run | Statement | What happens |
|---|---|---|
| `dropped_body` | http/file.rs:432, "response-body guard covers the body lifetime" | a dropped stream triggers nothing: the session stays open |
| `truncated_string` | cluster_db.rs:400, cut messages are dropped "rather than recording a corrupted row with defaulted string fields" | a cut within the length prefix of a later string reads as length 0: the row is saved with an empty string |

The modules define more of these statements, which TLC refutes as well when one is
put into a configuration of its module in place of the properties there:

| Definition (configuration) | Statement | What happens |
|---|---|---|
| `OneConnection` (`ConnectionsLtk.cfg`) | manager.rs:858, "check for duplicate connection" | two connections with the long-term key pass `is_online` together |
| `CancelledIsNotLive` (`JobLive.cfg`) | types.rs:19, "Job was cancelled before completion" | a Pending job whose SUBMIT is under way is recorded as Cancelled and runs |
| `FinishedIsNotHidden` (`JobReports.cfg`) | cluster.rs:1134, a terminal state "is not hidden by an older stale row" | Submitting is stamped after the message was sent, and the job is submitted again |
| `NoStall` (`Transfers.cfg`) | http/file.rs:578, "Synchronized via compare_exchange to prevent races with the WS-side PAUSE logic" | the stream drains between the back-pressure test and the store of `client_paused`: the PAUSE that follows is never resumed, and the download runs into the chunk timeout |
| `OneUploadConnection` (`Transfers.cfg`) | manager.rs:834, "Reject a duplicate connection while the upload cluster is online" | two admissions pass `is_online` together |
| `TimedOutIsClosed` (`Transfers.cfg`) | http/file.rs:946, the dedicated cluster "is cleaned up when that connection closes" | after a timeout the session is closed before it leaves the map: a connection admitted in between stays |
| `CachedListIsFull` (`MasterRequests.cfg`) | http/file.rs:1058, "cache the full root recursive listing for this job" | a FILE_LIST cut among its entries is accepted as a shorter list, cached, and answers every later request |
| `SessionIsRemoved` (`MasterRequests.cfg`) | http/file.rs:1112, "removes the session from the map on every terminal path" | a handler that is dropped while it waits removes nothing |
| `ClosedEventAtExit`, `AcceptedIsCompleted`, `TerminalPathsTrigger` (`DownloadLive.cfg`) | a closed event at every exit, completion of accepted sessions, a trigger on every terminal path | among others, shutdown begins between the check and the publication |
| `PongsAreLive` (`ConnectionsLtk.cfg`) | manager.rs:1010, pongs of connections "no longer present in `connection_map`" are ignored | an eviction between the look and the write: the entry stays for good |
| `NoneStranded` (`ConnectionsLtk.cfg`) | cluster.rs:1399, no connection without a Close | a second connection has replaced the sender of the first, which stays open without one |
| `DeletingIsNotLive` (`JobLive.cfg`), `CancelWasAllowed` (`JobLive.cfg` with `Requests = {r1, r2}`) | legal states only, no deletion of running jobs | two requests, or a request and a report, between check and insertion |
| `NoOrphan` (`JobReports.cfg`) | a row without a SUBMIT is removed | a job whose id is too wide for the wire keeps its Pending row |

`NoneStranded`, `TerminalPathsTrigger`, `CancelWasAllowed` and `FinishedIsNotHidden` are
temporal formulas and go under `PROPERTY`, the others under `INVARIANT`.

Reading the code for `ClusterDb` and `WireFormat` showed more that no document of
the repository speaks about, and that the properties are stated around: requests by
row id reach the rows of every cluster; a failed lookup of a bundle counts as "not
there" and inserts it a second time; a save that is cut after its first string is
accepted with zeros in its last fields.

### Fairness

Weak fairness of the server's own tasks: tokio polls woken tasks and fires timers.
In `transfers` these are the HTTP handlers (`Respond`, `Put`) and the two
last steps of an admission, which hold a guard that others wait for; in
`master_requests` the tasks that list. The timer of the upload's confirmation runs
through all wake-ups (strong fairness of `ConfirmTimeout`): a remote cluster that
keeps notifying does not stop it. Nothing is assumed of HTTP clients, producers,
peers or the shutdown signal; the bytes of a file need not come. Two more
kinds of strong fairness, both about retries: the database does not refuse the
same insertion (`ScanIssue`) or the same scan (`ScanSucceeds`) for ever, and a
message that is sent again and again is not lost every time (`Delivers`); without
them no retry protocol delivers. Reconnecting (`ClusterConnects`) is what
`ClusterConnections` is about.

### Mutants

Each property of a passing run has a mutant in `PROJECT.json`: a changed copy of a
mapped definition, kept just before it, under which TLC finds the property
violated (a dropped recheck, a swapped order, a permit not stored, a late count).

## 4. Proofs

The theorems hold for all sets of downloads, connections, sources, jobs, requests,
users and clusters, for files and bodies of any length, and for all bounds, under
the named ASSUMEs of the modules: distinguished values are distinct, bounds are
natural, requests and rows are records of their kind (`RequestsAssumption`,
`TablesAssumption`, `PathsAssumption`), files are paths (`FilesAssumption`), and the
empty path is the root of the job. TLC evaluates them all. Each proof module
EXTENDS the module it is about; every theorem rests on one inductive invariant.

**DownloadLifecycleProofs.** `TypeCorrect`; `Inductive`; from it `NoLeak`
(`NothingLeftBehind`), `OneShutdown`, `AcceptedOwnsTransfer`, `SocketIsClosed`,
`GuardTriggers`, `ReleaseRefined` (`ImplementsRelease`). None of the properties is
inductive: that nothing is left needs to know who is about to release it. `IInv`
says, part by part, what exists at each stage of the request (`HttpInv`,
`RegistryInv`), that one connection at most is bound and only it is installed
(`BoundInv`, `HandlerInv`), that live connections are wired (`WiredInv`), that
cleanups work on closing sessions and only one run gets past the gate
(`CleanerInv`), and that whatever a closing session still has is awaited by a queued
request, a cleanup before the step in question, or a handler that will find out in
its recheck (`ReleaseInv`, `UnmapInv`).

The refinement goes by what is left to do on a download (`Working`: a request, a run
of cleanup, an admission). `StepMoves`: a step moves one download at most, to its
next phase; a trigger leaves work behind, a run of cleanup has work until it ends, and
nothing adds work to a closing session that has none. `PhaseIs`: by the inductive
invariant, a closing session without work is released, so that `phaseBar` follows.

**MessageQueueProofs.** `QueueTypeCorrect`; `QueueInductive`; `NoLostWakeup`,
`Preemption`, `SourceFifo`, `NoForgottenDrain`, `SizeIsQueuedHolds`,
`DrainedIsEmptyHolds`. The key is `Ahead(p, s)`: from
where the scheduler is, it comes to the queue of `p` and `s` before it takes a
message of a level below `p` and before it sleeps. `WakeInv`: data is ahead or a
permit is stored. `OvertakeInv`: a message that was overtaken once is ahead, so it
is not overtaken again. `OrderInv`: queues are sorted by the order of calls. The size
is the cardinality of the set of places in the queues (`Places`): an append adds one
place, a pop or a pruned queue takes its own, and a drain that saw size 0 therefore
saw no places.

**JobLifecycleProofs.** `JobTypeCorrect`; `JobInductive`; `HistoryBehindCluster`
(`NotForgotten`), `CancelAfterSubmit` (`CancelFollowsSubmit`). `HeardInv` follows a
report from the cluster through the wire and the handler to its row: wherever it
is, the SUBMIT was delivered before. `QueuedInv` names all that may lead to a
CANCEL (a message, a row, a request with its decision, a job on the resend list)
and says that it exists only for jobs whose SUBMIT was queued; it needs
`HeardInv`, as a request may have found the job Active.

**ClusterConnectionsProofs.** `ConnTypeCorrect`, `OnlineIsRealHolds`,
`PingsAreLiveHolds`, from `ConnInductive`. Two removals of one connection, by the
handler and by an eviction, must not both clear a sender that may be the successor's
by then. `RemovalInv`: who has taken a connection out of `connection_map` is the only
one to remove it, and handlers remove their own. `ForgetInv`: when a removal comes to
the tracking maps, the sender of its cluster is another one. `TargetInv`: every token
and every connection that presented one is a cluster's.

**DownloadStreamProofs.** `BodyIsFileHolds`, `BufferAccountedHolds`,
`ReadyNotMissedHolds`, from `StreamInductive`. `ChainInv` is the order of bytes: what
the body has, what the stream holds, the chunks in the channel, the chunk in the
handler's hands and those on the wire follow one another in the file, for as long as
the socket is open and no chunk was cut at the declared length. `OutInv` is about the
body and the counters of the stream, `DetailsInv` says that the size is declared once and
before the first byte goes out. The proof joins chunks with lemmas on stretches of the
file (`Run`, `Chain`); which chunk of a chain holds a given byte is found by induction
through the least counterexample (`LeastNat`).

**FileUploadProofs.** `UploadTypeCorrect`, `FailedIsClosedHolds`,
`WholeBeforeCompleteHolds`, from `UploadInductive`. `ClosedInv`: after
`remove_file_upload` no admission is under its guard, so that the `close` that follows is
final. `BodyInv`, `ChunksInv`, `CompleteInv`: what is queued and held is one stretch of
the body that ends with the last chunk read, and COMPLETE comes after it. `GotInv`: a
single connection has got what has left the queue; `QuietInv`: nothing is queued before
it has answered.

**FileListProofs.** `CacheIsFinalHolds` (an action property) and
`AnswerIsRightHolds`, from `ListInductive`: the answers under way, the lists of the
sessions and the results that tasks have taken show the job as it was between the
request and now (`AnswersWhole`, `ListingsRight`, `ResultsRight`), for filling tasks
the finished job (`JobInv`), and only a task that has asked for everything comes to
the cache (`StoresRoot`), which holds nothing or the final listing (`CacheInv`). Each of
these says "files of the job and no others", and "all of them" for tasks that are not
in `cut`, or while `cacheCut` does not hold; what is under way from the remote cluster
is whole, so that only `HandleListResponse` loses entries.
`FilterIsListing` proves that `filter_files` is the reference definition. The theorem
about answers has a hypothesis, `PathsLead`: a request means the directory that
`weak_canonical` finds for its path. It is about what users mean, so it is no ASSUME;
the requests of the run satisfy it.

**ClusterDbProofs.** `OwnRows` (`RowsStayOwn`), from `DbInductive`: a table's ids are
bounded by its counter, so that an insertion never meets an id that was given out
before; the bundle that a handler has looked up is, until it is updated, the one that
was asked for or gone for good (`FoundInv`).

`ReadAsSentHolds` (`ReadAsSent`), from `WireInductive`, for every message that
`BodiesAssumption` allows and every cut. First the codec: `from_le_bytes` undoes
`to_le_bytes` (`LeBytes`), and a message is its fields one after the other
(`EncodeParts`), so that `Off(m, k)` is where field `k` ends. Then each of the eight
readers against its layout (`AllFit`): every pop meets a field of its type, every test
asks for no more than a whole message has, and a field that may be cut is `Covered`: by
a test before it, by a test after it (the pops in between give zero and do not move),
or because all that counts is read. The invariant says that while a message is read
the reader is `InStep` with the sender, or the message is cut and `Doomed` (a test to
come will drop it), `Settled` (the guarded fields are read) or `Listed` (row ids lost
at the end only). The header is the odd case: of a message cut within the length of its
source, `from_bytes` takes four bytes of that length for the id, and the handler this
leads to always has a test left that it cannot pass (`ReaderTests`); four bytes of the
source itself are no id, as the fourth is not zero (`TextIsNoId`): this is why the
assumption excludes NUL.

**Found by proving.** The guards of the CASE in `AfterRemove` overlapped, which
TLA+ leaves open; it is a chain of IFs in the order of the code now. The last arm of
`Matches` covered no request and is OTHER now. The requests and rows of `ClusterDb` had
no stated types. The types of the fields sent were taken from the reader in
`WireFormat`, so that the two could not disagree; the sender has its own table now,
and the messages have an assumption, which names what the property rests on. Nothing
else in the models had to change but the form of some definitions: `SizeIsQueued` and
`BufferAccounted` compare sets rather than sums, and stand in `MessageQueue` and
`DownloadStream`; `Guarded` and the bytes of a number are given by cases.

**Only model-checked.** All liveness, as fairness is out of the prover's reach:
`RetainedIsClosed`, `ImplementsFairRelease`, `EverythingLeaves`, `OnlineDelivers`,
`TasksEnd`, `SilentGoesOffline`, `OfflineIsOffered`, `CarriedOut`, `StreamEnds`,
`UploadEnds`, `ListEnds`. Every invariant and every action property of the passing
runs is proved. Induction over numbers goes through the least counterexample
(`LeastNat`, `SetInduction`), and the recursive function of `Pushed` is shown to exist
before it is unfolded (`JoinExists`, `PushedBytes`).

## 5. Not modelled

- `get_jobs` and other reads; SQL filters; authentication, routing,
  configuration: no state that changes.
- SSH sessions, keys, migrations: I/O or generated.
- The rejection of HTTP requests during shutdown, except for downloads and uploads.
- Removal of jobs with their rows by operators: no code does it.
- The bytes of FILE_* messages: they are read with the operations `WireFormat` has,
  and the transfer modules take them as whole or faulty, `FileList` as cut anywhere.
- Several transfers at a time: they share no state but the pause lock, which one
  side only takes, and the cleanup channel, which `DownloadLifecycle` has.

## 6. Plan

All components of the plan are modelled, and every safety property of a passing run is
proved. What may still be added:

1. Statements about several components together: that the transfer of `DownloadStream`
   triggers what `DownloadLifecycle` expects of `http[d]`.
2. The codec for numbers from 2^24 on and for strings beyond ASCII.
