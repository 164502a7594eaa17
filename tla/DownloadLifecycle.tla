-------------------------- MODULE DownloadLifecycle --------------------------
(***************************************************************************)
(* Dedicated file downloads: one GET /job/apiv1/file/ request creates a    *)
(* DownloadSession and a dedicated cluster, the remote cluster answers by  *)
(* opening a WebSocket whose token is the session UUID, and five parties   *)
(* then race to release what was registered:                               *)
(*                                                                         *)
(*   - the HTTP handler and its response stream (src/src/src/http/file.rs) *)
(*   - the WebSocket handlers (src/src/src/websocket/server.rs), which     *)
(*     run admission and removal in the manager (cluster/manager.rs)       *)
(*   - the manager's cleanup worker                                        *)
(*   - the shutdown futures of the two axum servers (src/src/src/app.rs)   *)
(*   - the peers: the HTTP client and the remote cluster                   *)
(*                                                                         *)
(* A step is one access to shared state (a DashMap operation, the          *)
(* lifecycle mutex, a watch or an mpsc channel).  Consecutive accesses are *)
(* one step where only the last of them decides the outcome: an entry of   *)
(* file_download_map or connection_map is removed only after its session   *)
(* has left Connected, so a lookup that is followed by a lifecycle check   *)
(* takes effect at that check.                                             *)
(***************************************************************************)
EXTENDS DownloadSession, FiniteSets

CONSTANTS
    Arms,       \* the two axum::serve futures that await the same signal
    Worker,     \* the task of start_download_cleanup_worker
    NoDownload  \* no download

ASSUME WorkerAssumption == Worker \notin Conns
ASSUME NoDownloadAssumption == NoDownload \notin Downloads

VARIABLES
    downloadMap,      \* file_download_map: published sessions
    downloadClusters, \* file_download_clusters: keyed by the session's address
    connMap,          \* connection_map: connections mapped to their cluster
    sender,           \* the watch channel of each dedicated cluster
    tasks,            \* its scheduler and prune tasks
    http,             \* where the HTTP handler of each download is
    armed,            \* whether it holds a DownloadCleanupTrigger
    asked,            \* downloads whose DOWNLOAD_FILE has been sent
    flags,            \* the AtomicBools of FileDownloadState
    ws,               \* where each WebSocket handler is
    token,            \* the token its connection presented
    holds,            \* whether its HandlerExitGuard holds the session
    closeFrame,       \* WsOutbound::Close of its outbound channel
    closedEvents,     \* "WS: Closed connection" events it has logged
    step,             \* where each run of cleanup_file_download is
    job,              \* and the download it cleans up
    started,          \* "File download shutdown started" events logged
    shutdown,         \* shutdown_initiated
    arm,              \* where each shutdown future is
    todo              \* the entries its current iteration has yet to visit

registryVars == <<downloadMap, downloadClusters, connMap>>
clusterVars  == <<sender, tasks>>
httpVars     == <<http, armed, asked, flags>>
wsVars       == <<ws, token, holds, closeFrame, closedEvents>>
cleanupVars  == <<step, job, started>>
shutdownVars == <<shutdown, arm, todo>>

vars == <<sessionVars, registryVars, clusterVars, httpVars, wsVars,
          cleanupVars, shutdownVars>>

-----------------------------------------------------------------------------
(* Types and the initial state                                             *)

HttpSteps == {"idle", "admitted", "building", "publishing", "created",
              "armed", "asked", "waiting", "streaming", "dropped", "done"}

Flags == {"data_ready", "error", "received_data", "empty", "last_chunk"}

WsSteps == {"idle", "checking", "binding", "bound", "found", "wired",
            "checked", "mapped", "accepted", "reading", "grace", "cleaning",
            "finishing", "done", "rejected"}

CleanupSteps == {"idle", "lookup", "gate", "unregister", "disconnect",
                 "close", "detach", "terminate", "complete"}

Cleaners == Conns \cup {Worker}

TypeOK ==
    /\ SessionTypeOK
    /\ downloadMap \subseteq Downloads
    /\ downloadClusters \subseteq Downloads
    /\ connMap \subseteq Conns
    /\ sender \in [Downloads -> Conns \cup {NoConn}]
    /\ tasks \in [Downloads -> {"none", "running", "terminated"}]
    /\ http \in [Downloads -> HttpSteps]
    /\ armed \in [Downloads -> BOOLEAN]
    /\ asked \subseteq Downloads
    /\ flags \in [Downloads -> SUBSET Flags]
    /\ ws \in [Conns -> WsSteps]
    /\ token \in [Conns -> Downloads \cup {NoDownload}]
    /\ holds \in [Conns -> BOOLEAN]
    /\ closeFrame \in [Conns -> {"none", "queued", "sent", "failed"}]
    /\ closedEvents \in [Conns -> Nat]
    /\ step \in [Cleaners -> CleanupSteps]
    /\ job \in [Cleaners -> Downloads \cup {NoDownload}]
    /\ started \in [Downloads -> Nat]
    /\ shutdown \in BOOLEAN
    /\ arm \in [Arms -> {"serving", "swapped", "triggering", "draining",
                        "drained"}]
    /\ todo \in [Arms -> SUBSET Downloads]

Init ==
    /\ SessionInit
    /\ downloadMap = {} /\ downloadClusters = {} /\ connMap = {}
    /\ sender = [d \in Downloads |-> NoConn]
    /\ tasks = [d \in Downloads |-> "none"]
    /\ http = [d \in Downloads |-> "idle"]
    /\ armed = [d \in Downloads |-> FALSE]
    /\ asked = {}
    /\ flags = [d \in Downloads |-> {}]
    /\ ws = [c \in Conns |-> "idle"]
    /\ token = [c \in Conns |-> NoDownload]
    /\ holds = [c \in Conns |-> FALSE]
    /\ closeFrame = [c \in Conns |-> "none"]
    /\ closedEvents = [c \in Conns |-> 0]
    /\ step = [p \in Cleaners |-> "idle"]
    /\ job = [p \in Cleaners |-> NoDownload]
    /\ started = [d \in Downloads |-> 0]
    /\ shutdown = FALSE
    /\ arm = [a \in Arms |-> "serving"]
    /\ todo = [a \in Arms |-> {}]

-----------------------------------------------------------------------------
(* The HTTP handler, download_file                                         *)

HttpGoto(d, s) == http' = [http EXCEPT ![d] = s]

\* fire_guard, fire_stream_trigger and PreResponseGuard::drop: nothing is
\* triggered when no trigger could be obtained.
FireGuard(d, r) ==
    IF armed[d] THEN TriggerSession(d, r) ELSE UNCHANGED sessionVars

\* download_file up to get_online_cluster.  The request is refused during
\* shutdown, without a record, or when the cluster is offline.
HttpEnter(d) ==
    /\ http[d] = "idle"
    /\ \/ ~shutdown /\ HttpGoto(d, "admitted")
       \/ HttpGoto(d, "done")
    /\ UNCHANGED <<sessionVars, registryVars, clusterVars, armed, asked, flags,
                   wsVars, cleanupVars, shutdownVars>>

\* create_file_download up to DownloadSession::new.  During shutdown it
\* returns without a session and the handler goes on regardless.
CreateSession(d) ==
    /\ http[d] = "admitted"
    /\ IF shutdown
         THEN /\ HttpGoto(d, "created")
              /\ UNCHANGED <<sessionVars, tasks>>
         ELSE /\ HttpGoto(d, "building")
              /\ tasks' = [tasks EXCEPT ![d] = "running"]
              /\ NewSession(d)
    /\ UNCHANGED <<registryVars, sender, armed, asked, flags, wsVars,
                   cleanupVars, shutdownVars>>

\* file_download_clusters.insert
RegisterCluster(d) ==
    /\ http[d] = "building"
    /\ HttpGoto(d, "publishing")
    /\ downloadClusters' = downloadClusters \cup {d}
    /\ UNCHANGED <<sessionVars, downloadMap, connMap, clusterVars, armed, asked,
                   flags, wsVars, cleanupVars, shutdownVars>>

\* file_download_map.insert
PublishSession(d) ==
    /\ http[d] = "publishing"
    /\ HttpGoto(d, "created")
    /\ downloadMap' = downloadMap \cup {d}
    /\ UNCHANGED <<sessionVars, downloadClusters, connMap, clusterVars, armed,
                   asked, flags, wsVars, cleanupVars, shutdownVars>>

\* file_download_entry: no session is handed out once shutdown has begun.
Lookup(d) == ~shutdown /\ d \in downloadMap

\* get_file_download_cleanup_trigger and PreResponseGuard::new
ArmGuard(d) ==
    /\ http[d] = "created"
    /\ HttpGoto(d, "armed")
    /\ armed' = [armed EXCEPT ![d] = Lookup(d)]
    /\ UNCHANGED <<sessionVars, registryVars, clusterVars, asked, flags, wsVars,
                   cleanupVars, shutdownVars>>

\* DOWNLOAD_FILE is queued for the cluster, or the stored job id is invalid.
AskRemote(d) ==
    /\ http[d] = "armed"
    /\ \/ HttpGoto(d, "asked") /\ asked' = asked \cup {d}
          /\ UNCHANGED sessionVars
       \/ HttpGoto(d, "done") /\ FireGuard(d, "ResponseError")
          /\ UNCHANGED asked
    /\ UNCHANGED <<registryVars, clusterVars, armed, flags, wsVars,
                   cleanupVars, shutdownVars>>

\* get_file_download
LookupTransfer(d) ==
    /\ http[d] = "asked"
    /\ IF Lookup(d)
         THEN HttpGoto(d, "waiting") /\ UNCHANGED sessionVars
         ELSE HttpGoto(d, "done") /\ FireGuard(d, "ResponseError")
    /\ UNCHANGED <<registryVars, clusterVars, armed, asked, flags, wsVars,
                   cleanupVars, shutdownVars>>

\* wait_until_data_ready runs into its timeout.
WaitTimeout(d) ==
    /\ http[d] = "waiting" /\ "data_ready" \notin flags[d]
    /\ HttpGoto(d, "done")
    /\ flags' = [flags EXCEPT ![d] = @ \cup {"error"}]
    /\ FireGuard(d, "FileError")
    /\ UNCHANGED <<registryVars, clusterVars, armed, asked, wsVars,
                   cleanupVars, shutdownVars>>

\* The first answer has arrived: fail, finish an empty file, or build the
\* response stream.
WaitReady(d) ==
    /\ http[d] = "waiting" /\ "data_ready" \in flags[d]
    /\ \/ /\ "error" \in flags[d]
          /\ HttpGoto(d, "done") /\ FireGuard(d, "FileError")
       \/ /\ flags[d] \cap {"error", "received_data"} = {}
          /\ HttpGoto(d, "done") /\ FireGuard(d, "ClusterOffline")
       \/ /\ flags[d] \cap {"error", "received_data", "empty"}
               = {"received_data", "empty"}
          /\ HttpGoto(d, "done") /\ FireGuard(d, "Complete")
       \/ /\ flags[d] \cap {"error", "received_data", "empty"}
               = {"received_data"}
          /\ HttpGoto(d, "streaming") /\ UNCHANGED sessionVars
    /\ UNCHANGED <<registryVars, clusterVars, armed, asked, flags, wsVars,
                   cleanupVars, shutdownVars>>

\* The response stream ends by itself: the last byte was taken, no chunk came
\* within the timeout, or the error flag was seen at the head of the loop.
StreamEnd(d) ==
    /\ http[d] = "streaming"
    /\ \/ "last_chunk" \in flags[d] /\ FireGuard(d, "Complete")
       \/ "last_chunk" \notin flags[d] /\ FireGuard(d, "ChunkTimeout")
       \/ "error" \in flags[d] /\ FireGuard(d, "FileError")
    /\ HttpGoto(d, "done")
    /\ UNCHANGED <<registryVars, clusterVars, armed, asked, flags, wsVars,
                   cleanupVars, shutdownVars>>

\* Mutant of DropHandler: the guard has no Drop.
DropHandlerSilent(d) ==
    /\ http[d] \in {"admitted", "armed", "waiting"}
    /\ HttpGoto(d, "done")
    /\ UNCHANGED <<sessionVars, registryVars, clusterVars, armed, asked, flags,
                   wsVars, cleanupVars, shutdownVars>>

\* The client disconnects and hyper drops the handler at an await: before
\* the session exists, while DOWNLOAD_FILE is being queued or while waiting.
\* Drop of the pre-response guard fires ResponseError.
DropHandler(d) ==
    /\ http[d] \in {"admitted", "armed", "waiting"}
    /\ HttpGoto(d, "done")
    /\ FireGuard(d, "ResponseError")
    /\ UNCHANGED <<registryVars, clusterVars, armed, asked, flags, wsVars,
                   cleanupVars, shutdownVars>>

\* The client disconnects while the body is streamed: hyper drops the stream.
\* into_trigger has disarmed the pre-response guard and the stream owns only
\* a DownloadCleanupTrigger, which has no Drop, so nothing is triggered.
DropBody(d) ==
    /\ http[d] = "streaming"
    /\ HttpGoto(d, "dropped")
    /\ UNCHANGED <<sessionVars, registryVars, clusterVars, armed, asked, flags,
                   wsVars, cleanupVars, shutdownVars>>

HttpStep(d) ==
    \/ CreateSession(d) \/ RegisterCluster(d) \/ PublishSession(d)
    \/ ArmGuard(d) \/ AskRemote(d) \/ LookupTransfer(d) \/ WaitTimeout(d)
    \/ WaitReady(d) \/ StreamEnd(d)

-----------------------------------------------------------------------------
(* cleanup_file_download, run by the worker and inline by remove_connection *)

CleanGoto(p, s) == step' = [step EXCEPT ![p] = s]

\* The worker receives the next request.
WorkerTake ==
    /\ step[Worker] = "idle" /\ cleanups # <<>>
    /\ CleanGoto(Worker, "lookup")
    /\ job' = [job EXCEPT ![Worker] = Head(cleanups)]
    /\ cleanups' = Tail(cleanups)
    /\ UNCHANGED <<state, connection, reason, registryVars, clusterVars,
                   httpVars, wsVars, started, shutdownVars>>

\* The cluster of the exact session, or return.
CleanupLookup(p) ==
    /\ step[p] = "lookup"
    /\ CleanGoto(p, IF job[p] \in downloadClusters THEN "gate" ELSE "idle")
    /\ UNCHANGED <<sessionVars, registryVars, clusterVars, httpVars, wsVars,
                   job, started, shutdownVars>>

\* Mutant of CleanupGate: the result of the removal is ignored.
CleanupGateIgnored(p) ==
    /\ step[p] = "gate"
    /\ CleanGoto(p, "unregister")
    /\ downloadMap' = downloadMap \ {job[p]}
    /\ UNCHANGED <<sessionVars, downloadClusters, connMap, clusterVars,
                   httpVars, wsVars, job, started, shutdownVars>>

\* remove_exact_download_session: whoever removes the entry owns the rest.
CleanupGate(p) ==
    /\ step[p] = "gate"
    /\ CleanGoto(p, IF job[p] \in downloadMap THEN "unregister" ELSE "idle")
    /\ downloadMap' = downloadMap \ {job[p]}
    /\ UNCHANGED <<sessionVars, downloadClusters, connMap, clusterVars,
                   httpVars, wsVars, job, started, shutdownVars>>

\* file_download_clusters.remove.  The session is still owned here, so its
\* address cannot have been reused as another session's key.
CleanupUnregister(p) ==
    /\ step[p] = "unregister"
    /\ CleanGoto(p, IF connection[job[p]] = NoConn THEN "detach" ELSE "disconnect")
    /\ downloadClusters' = downloadClusters \ {job[p]}
    /\ started' = [started EXCEPT ![job[p]] = @ + 1]
    /\ UNCHANGED <<sessionVars, downloadMap, connMap, clusterVars, httpVars,
                   wsVars, job, shutdownVars>>

\* remove_exact_connection for the connection of the request
CleanupDisconnect(p) ==
    /\ step[p] = "disconnect"
    /\ CleanGoto(p, "close")
    /\ connMap' = connMap \ {connection[job[p]]}
    /\ UNCHANGED <<sessionVars, downloadMap, downloadClusters, clusterVars,
                   httpVars, wsVars, job, started, shutdownVars>>

\* Mutant of CleanupClose: the watch channel is cleared first, so there is no
\* sender left to queue the Close frame with.
CleanupCloseClearFirst(p) ==
    /\ step[p] = "close"
    /\ CleanGoto(p, "terminate")
    /\ sender' = [sender EXCEPT ![job[p]] = NoConn]
    /\ UNCHANGED <<sessionVars, registryVars, tasks, httpVars, wsVars, job,
                   started, shutdownVars>>

\* Cluster::close: queue a Close frame with the installed sender, then clear it.
CleanupClose(p) ==
    /\ step[p] = "close"
    /\ CleanGoto(p, "terminate")
    /\ LET c == sender[job[p]] IN
         closeFrame' = IF c # NoConn /\ closeFrame[c] = "none"
                         THEN [closeFrame EXCEPT ![c] = "queued"]
                         ELSE closeFrame
    /\ sender' = [sender EXCEPT ![job[p]] = NoConn]
    /\ UNCHANGED <<sessionVars, registryVars, tasks, httpVars, ws, token, holds,
                   closedEvents, job, started, shutdownVars>>

\* The session never had a connection: set_connection(None).
CleanupDetach(p) ==
    /\ step[p] = "detach"
    /\ CleanGoto(p, "terminate")
    /\ sender' = [sender EXCEPT ![job[p]] = NoConn]
    /\ UNCHANGED <<sessionVars, registryVars, tasks, httpVars, wsVars, job,
                   started, shutdownVars>>

\* terminate_download_tasks
CleanupTerminate(p) ==
    /\ step[p] = "terminate"
    /\ CleanGoto(p, IF connection[job[p]] = NoConn THEN "complete" ELSE "idle")
    /\ tasks' = [tasks EXCEPT ![job[p]] = "terminated"]
    /\ UNCHANGED <<sessionVars, registryVars, sender, httpVars, wsVars, job,
                   started, shutdownVars>>

\* session.complete(None)
CleanupComplete(p) ==
    /\ step[p] = "complete"
    /\ CleanGoto(p, "idle")
    /\ CompleteSession(job[p], NoConn)
    /\ UNCHANGED <<registryVars, clusterVars, httpVars, wsVars, job, started,
                   shutdownVars>>

CleanupStep(p) ==
    \/ CleanupLookup(p) \/ CleanupGate(p) \/ CleanupUnregister(p)
    \/ CleanupDisconnect(p) \/ CleanupClose(p) \/ CleanupDetach(p)
    \/ CleanupTerminate(p) \/ CleanupComplete(p)

-----------------------------------------------------------------------------
(* The WebSocket handler: the download branch of handle_new_connection      *)

WsGoto(c, s) == ws' = [ws EXCEPT ![c] = s]

\* The remote cluster received DOWNLOAD_FILE and opens a connection with the
\* session UUID as its token.  It may try more than once.
Connect(c, d) ==
    /\ ws[c] = "idle" /\ d \in asked
    /\ WsGoto(c, "checking")
    /\ token' = [token EXCEPT ![c] = d]
    /\ UNCHANGED <<sessionVars, registryVars, clusterVars, httpVars, holds,
                   closeFrame, closedEvents, cleanupVars, shutdownVars>>

\* Dedicated admission is rejected during application shutdown.
AdmitCheck(c) ==
    /\ ws[c] = "checking"
    /\ WsGoto(c, IF shutdown /\ token[c] \in downloadMap
                   THEN "rejected" ELSE "binding")
    /\ UNCHANGED <<sessionVars, registryVars, clusterVars, httpVars, token,
                   holds, closeFrame, closedEvents, cleanupVars, shutdownVars>>

\* Mutant of AdmitBind: a rejected duplicate clears the cluster's connection.
AdmitBindClearing(c) ==
    /\ ws[c] = "binding"
    /\ IF token[c] \in downloadMap /\ CanBind(token[c])
         THEN /\ WsGoto(c, "bound") /\ BindSession(token[c], c)
              /\ UNCHANGED sender
         ELSE /\ WsGoto(c, "rejected") /\ UNCHANGED sessionVars
              /\ sender' = [sender EXCEPT ![token[c]] = NoConn]
    /\ UNCHANGED <<registryVars, tasks, httpVars, token, holds,
                   closeFrame, closedEvents, cleanupVars, shutdownVars>>

\* file_download_map.get and bind_connection.  Without an entry the token
\* matches neither an upload nor a cluster and is rejected as invalid.
AdmitBind(c) ==
    /\ ws[c] = "binding"
    /\ IF token[c] \in downloadMap /\ CanBind(token[c])
         THEN WsGoto(c, "bound") /\ BindSession(token[c], c)
         ELSE WsGoto(c, "rejected") /\ UNCHANGED sessionVars
    /\ UNCHANGED <<registryVars, clusterVars, httpVars, token, holds,
                   closeFrame, closedEvents, cleanupVars, shutdownVars>>

\* file_download_clusters.get
AdmitLookup(c) ==
    /\ ws[c] = "bound"
    /\ IF token[c] \in downloadClusters
         THEN WsGoto(c, "found") /\ UNCHANGED sessionVars
         ELSE WsGoto(c, "rejected") /\ TriggerSession(token[c], "ClusterOffline")
    /\ UNCHANGED <<registryVars, clusterVars, httpVars, token, holds,
                   closeFrame, closedEvents, cleanupVars, shutdownVars>>

\* cluster.set_connection(Some(ws_sender))
AdmitInstall(c) ==
    /\ ws[c] = "found"
    /\ WsGoto(c, "wired")
    /\ sender' = [sender EXCEPT ![token[c]] = c]
    /\ UNCHANGED <<sessionVars, registryVars, tasks, httpVars, token, holds,
                   closeFrame, closedEvents, cleanupVars, shutdownVars>>

\* First recheck.  A session that left Connected(c) never returns to it, so
\* the check and the undoing of AdmitInstall are one step.
AdmitRecheck(c) ==
    /\ ws[c] = "wired"
    /\ IF IsConnected(token[c], c)
         THEN WsGoto(c, "checked") /\ UNCHANGED sender
         ELSE /\ WsGoto(c, "rejected")
              /\ sender' = [sender EXCEPT ![token[c]] = NoConn]
    /\ UNCHANGED <<sessionVars, registryVars, tasks, httpVars, token, holds,
                   closeFrame, closedEvents, cleanupVars, shutdownVars>>

\* connection_map.insert
AdmitInsert(c) ==
    /\ ws[c] = "checked"
    /\ WsGoto(c, "mapped")
    /\ connMap' = connMap \cup {c}
    /\ UNCHANGED <<sessionVars, downloadMap, downloadClusters, clusterVars,
                   httpVars, token, holds, closeFrame, closedEvents,
                   cleanupVars, shutdownVars>>

\* Mutant of AdmitAccept: no second recheck.
AdmitAcceptUnchecked(c) ==
    /\ ws[c] = "mapped"
    /\ WsGoto(c, "accepted")
    /\ UNCHANGED <<sessionVars, registryVars, clusterVars, httpVars, token,
                   holds, closeFrame, closedEvents, cleanupVars, shutdownVars>>

\* Second recheck, undoing both AdmitInsert and AdmitInstall.
AdmitAccept(c) ==
    /\ ws[c] = "mapped"
    /\ IF IsConnected(token[c], c)
         THEN WsGoto(c, "accepted") /\ UNCHANGED <<sender, connMap>>
         ELSE /\ WsGoto(c, "rejected")
              /\ connMap' = connMap \ {c}
              /\ sender' = [sender EXCEPT ![token[c]] = NoConn]
    /\ UNCHANGED <<sessionVars, downloadMap, downloadClusters, tasks, httpVars,
                   token, holds, closeFrame, closedEvents, cleanupVars,
                   shutdownVars>>

-----------------------------------------------------------------------------
(* The WebSocket handler: handle_socket once the connection is accepted     *)

\* get_file_download_admission: the exit guard retains the session when it is
\* still Connected(c).  The forwarder is spawned and the read loop begins.
RetainSession(c) ==
    /\ ws[c] = "accepted"
    /\ WsGoto(c, "reading")
    /\ holds' = [holds EXCEPT ![c] = IsConnected(token[c], c)]
    /\ UNCHANGED <<sessionVars, registryVars, clusterVars, httpVars, token,
                   closeFrame, closedEvents, cleanupVars, shutdownVars>>

\* handle_file_details, handle_file_chunk and the error handlers on the
\* FileDownloadState; `last` is the chunk that completes the file.
ReceiveFile(c) ==
    /\ ws[c] = "reading"
    /\ LET d == token[c] IN
         \/ flags' = [flags EXCEPT ![d] = (@ \ {"empty"})
                                     \cup {"data_ready", "received_data"}]
         \/ flags' = [flags EXCEPT ![d] =
                        @ \cup {"data_ready", "received_data", "empty"}]
         \/ flags' = [flags EXCEPT ![d] = @ \cup {"data_ready"}]
         \/ flags' = [flags EXCEPT ![d] = @ \cup {"data_ready", "last_chunk"}]
         \/ flags' = [flags EXCEPT ![d] = @ \cup {"data_ready", "error"}]
    /\ UNCHANGED <<sessionVars, registryVars, clusterVars, http, armed, asked,
                   wsVars, cleanupVars, shutdownVars>>

\* The forwarder writes the Close frame, or the sink has failed; it exits in
\* both cases and wakes the read loop only in the first.
ForwardClose(c) ==
    /\ ws[c] = "reading" /\ closeFrame[c] = "queued"
    /\ \E outcome \in {"sent", "failed"} :
         closeFrame' = [closeFrame EXCEPT ![c] = outcome]
    /\ UNCHANGED <<sessionVars, registryVars, clusterVars, httpVars, ws, token,
                   holds, closedEvents, cleanupVars, shutdownVars>>

\* close_initiated: the read loop enters its grace period.
EnterGrace(c) ==
    /\ ws[c] = "reading" /\ closeFrame[c] = "sent"
    /\ WsGoto(c, "grace")
    /\ UNCHANGED <<sessionVars, registryVars, clusterVars, httpVars, token,
                   holds, closeFrame, closedEvents, cleanupVars, shutdownVars>>

\* remove_connection on behalf of the handler: win the trigger and clean up
\* inline, or leave it to whoever won.
RemoveConnection(c, r) ==
    LET d == token[c] IN
    /\ IF c \in connMap /\ d \in downloadMap /\ IsConnected(d, c)
         THEN /\ WsGoto(c, "cleaning")
              /\ TriggerSession(d, r)
              /\ CleanGoto(c, "lookup")
              /\ job' = [job EXCEPT ![c] = d]
         ELSE /\ WsGoto(c, "finishing")
              /\ UNCHANGED <<sessionVars, step, job>>
    /\ UNCHANGED <<registryVars, clusterVars, httpVars, token, holds, closeFrame,
                   closedEvents, started, shutdownVars>>

\* The peer closes, ends the stream, or breaks it.
PeerLeaves(c) ==
    /\ ws[c] = "reading"
    /\ \E r \in {"WebSocketClosed", "WebSocketError"} : RemoveConnection(c, r)

\* The transport is broken after a failed Close frame: reading fails too.
ReadFails(c) ==
    /\ ws[c] = "reading" /\ closeFrame[c] = "failed"
    /\ RemoveConnection(c, "WebSocketError")

\* The peer answers within the grace period, or the period elapses.
GraceEnds(c) ==
    /\ ws[c] = "grace"
    /\ \E r \in {"WebSocketClosed", "WebSocketError"} : RemoveConnection(c, r)

\* The inline cleanup_file_download has returned.
CleaningDone(c) ==
    /\ ws[c] = "cleaning" /\ step[c] = "idle"
    /\ WsGoto(c, "finishing")
    /\ UNCHANGED <<sessionVars, registryVars, clusterVars, httpVars, token,
                   holds, closeFrame, closedEvents, cleanupVars, shutdownVars>>

\* Mutant of GuardComplete: the guard completes a session without connection.
GuardCompleteNone(c) ==
    IF holds[c] THEN CompleteSession(token[c], NoConn)
                ELSE UNCHANGED sessionVars

\* HandlerExitGuard::complete, for the session the guard retains
GuardComplete(c) ==
    IF holds[c] THEN CompleteSession(token[c], c) ELSE UNCHANGED sessionVars

\* emit_closed_event: nothing is logged when closed_event_emitted is set.
EmitClosedEvent(c, alreadyEmitted) ==
    closedEvents' = [closedEvents EXCEPT ![c] =
                       IF alreadyEmitted THEN @ ELSE @ + 1]

\* The end of handle_socket: mark_closed_emitted, complete, and the guard's
\* Drop, which completes again (a no-op) and emits the closed event unless it
\* is marked as emitted.
HandlerExit(c) ==
    /\ ws[c] = "finishing"
    /\ WsGoto(c, "done")
    /\ GuardComplete(c)
    /\ EmitClosedEvent(c, TRUE)
    /\ UNCHANGED <<registryVars, clusterVars, httpVars, token, holds, closeFrame,
                   cleanupVars, shutdownVars>>

\* What a handler does on its own, without the peer.
WsStep(c) ==
    \/ AdmitCheck(c) \/ AdmitBind(c) \/ AdmitLookup(c) \/ AdmitInstall(c)
    \/ AdmitRecheck(c) \/ AdmitInsert(c) \/ AdmitAccept(c) \/ RetainSession(c)
    \/ ForwardClose(c) \/ EnterGrace(c) \/ ReadFails(c) \/ GraceEnds(c)
    \/ CleaningDone(c) \/ HandlerExit(c)

-----------------------------------------------------------------------------
(* Application shutdown: each of the two servers awaits its own future of   *)
(* drain_application_shutdown                                              *)

\* begin_application_shutdown: only the call that sets the flag goes on to
\* iterate over file_download_map; the other one is at its drain already.
BeginShutdown(a) ==
    /\ arm[a] = "serving"
    /\ arm' = [arm EXCEPT ![a] = IF shutdown THEN "triggering" ELSE "swapped"]
    /\ shutdown' = TRUE
    /\ UNCHANGED <<sessionVars, registryVars, clusterVars, httpVars, wsVars,
                   cleanupVars, todo>>

\* The iteration starts, after the swap: a session published in between is in it.
BeginSweep(a) ==
    /\ arm[a] = "swapped"
    /\ arm' = [arm EXCEPT ![a] = "triggering"]
    /\ todo' = [todo EXCEPT ![a] = downloadMap]
    /\ UNCHANGED <<sessionVars, registryVars, clusterVars, httpVars, wsVars,
                   cleanupVars, shutdown>>

\* The iteration reaches an entry.  DashMap iteration is weakly consistent:
\* an entry inserted meanwhile may be reached as well.
TriggerNext(a, d) ==
    /\ arm[a] = "triggering" /\ todo[a] # {} /\ d \in downloadMap
    /\ todo' = [todo EXCEPT ![a] = @ \ {d}]
    /\ TriggerSession(d, "ApplicationShutdown")
    /\ UNCHANGED <<registryVars, clusterVars, httpVars, wsVars, cleanupVars,
                   shutdown, arm>>

\* Every entry still present has been visited; dedicated_download_clusters.
BeginDrain(a) ==
    /\ arm[a] = "triggering" /\ todo[a] \cap downloadMap = {}
    /\ arm' = [arm EXCEPT ![a] = "draining"]
    /\ todo' = [todo EXCEPT ![a] = downloadClusters]
    /\ UNCHANGED <<sessionVars, registryVars, clusterVars, httpVars, wsVars,
                   cleanupVars, shutdown>>

\* terminate_download_tasks of one cluster of the snapshot
DrainNext(a, d) ==
    /\ arm[a] = "draining" /\ d \in todo[a]
    /\ todo' = [todo EXCEPT ![a] = @ \ {d}]
    /\ tasks' = [tasks EXCEPT ![d] = "terminated"]
    /\ UNCHANGED <<sessionVars, registryVars, sender, httpVars, wsVars,
                   cleanupVars, shutdown, arm>>

\* The deadline of WS_CLOSE_HANDSHAKE_GRACE_SECONDS
DrainDeadline(a) ==
    /\ arm[a] = "draining"
    /\ arm' = [arm EXCEPT ![a] = "drained"]
    /\ todo' = [todo EXCEPT ![a] = {}]
    /\ UNCHANGED <<sessionVars, registryVars, clusterVars, httpVars, wsVars,
                   cleanupVars, shutdown>>

ShutdownStep(a) ==
    \/ BeginSweep(a) \/ BeginDrain(a) \/ DrainDeadline(a)
    \/ \E d \in Downloads : TriggerNext(a, d) \/ DrainNext(a, d)

-----------------------------------------------------------------------------
(* The specification                                                       *)

Next ==
    \/ \E d \in Downloads :
         HttpEnter(d) \/ HttpStep(d) \/ DropHandler(d) \/ DropBody(d)
    \/ \E c \in Conns, d \in Downloads : Connect(c, d)
    \/ \E c \in Conns : WsStep(c) \/ ReceiveFile(c) \/ PeerLeaves(c)
    \/ WorkerTake
    \/ \E p \in Cleaners : CleanupStep(p)
    \/ \E a \in Arms : BeginShutdown(a) \/ ShutdownStep(a)

Spec == Init /\ [][Next]_vars

\* Tokio runs every ready task and fires every timer, so the server's own
\* steps are weakly fair.  Nothing is assumed of the HTTP client or of the
\* remote cluster: requests, connections, data, departures and the shutdown
\* signal may never come.
Fairness ==
    /\ \A d \in Downloads : WF_vars(HttpStep(d))
    /\ \A c \in Conns : WF_vars(WsStep(c))
    /\ WF_vars(WorkerTake)
    /\ \A p \in Cleaners : WF_vars(CleanupStep(p))
    /\ \A a \in Arms : WF_vars(ShutdownStep(a))

FairSpec == Spec /\ Fairness

-----------------------------------------------------------------------------
(* Properties                                                              *)

\* A handler between bind_connection and the end of handle_new_connection.
Admitting(c) == ws[c] \in {"bound", "found", "wired", "checked", "mapped"}

\* Nobody is working on the download: no request is queued, no cleanup of it
\* runs and no admission to it is under way.
Settled(d) ==
    /\ \A i \in DOMAIN cleanups : cleanups[i] # d
    /\ \A p \in Cleaners : step[p] # "idle" => job[p] # d
    /\ \A c \in Conns : token[c] = d => ~Admitting(c)

\* Nothing of the download is registered or running any more.
Released(d) ==
    /\ d \notin downloadMap
    /\ d \notin downloadClusters
    /\ \A c \in connMap : token[c] # d
    /\ sender[d] = NoConn
    /\ tasks[d] = "terminated"

\* Once shutdown of a session has been requested and all work on it is over,
\* nothing is left behind, whatever the order in which admission, the inline
\* cleanup of the handler, the cleanup worker and application shutdown ran
\* (cleanup_file_download and the two rechecks of handle_new_connection).
NothingLeftBehind ==
    \A d \in Downloads :
        state[d] \in {"Closing", "Closed"} /\ Settled(d) => Released(d)

\* "File download shutdown started" is logged at most once per session, and
\* before a settled session is gone: the worker and remove_connection never
\* both get past remove_exact_download_session.
ShutdownStartedOnce ==
    \A d \in Downloads :
        /\ started[d] <= 1
        /\ state[d] \in {"Closing", "Closed"} /\ Settled(d) => started[d] = 1

\* A connection that was accepted and whose session is still Connected owns
\* everything a transfer needs; neither a duplicate connection nor a late
\* cleanup can have taken it away.
AcceptedIsWired ==
    \A c \in Conns :
        LET d == token[c] IN
        ws[c] \in {"accepted", "reading"} /\ IsConnected(d, c) =>
            /\ d \in downloadMap /\ d \in downloadClusters
            /\ c \in connMap
            /\ sender[d] = c

\* When all cleanup work on a session is over, the handler of its connection
\* has a Close frame on its way or has left: no accepted socket is stranded
\* half-open (the order of the two sends in Cluster::close).
NoStrandedSocket ==
    \A c \in Conns :
        LET d == token[c] IN
        /\ ws[c] \in {"accepted", "reading"}
        /\ state[d] \in {"Closing", "Closed"} /\ Settled(d)
        => closeFrame[c] # "none"

\* Every end of download_file that holds a trigger leaves the session closing
\* or closed, a body dropped while it streams excepted.
GuardedPathsTrigger ==
    \A d \in Downloads : http[d] = "done" /\ armed[d] => ~Open(d)

\* A session retained by the guard of its handler reaches Closed once its
\* shutdown was requested, even if the peer never answers the Close frame.
RetainedIsClosed ==
    \A c \in Conns, d \in Downloads :
        holds[c] /\ token[c] = d /\ state[d] = "Closing" ~> state[d] = "Closed"

\* The refinement mapping to DownloadRelease
phaseBar ==
    [d \in Downloads |->
        IF state[d] = "Absent" THEN "absent"
        ELSE IF Open(d) THEN "live"
        ELSE IF Settled(d) /\ Released(d) THEN "released"
        ELSE "closing"]

Abstract == INSTANCE DownloadRelease WITH phase <- phaseBar

\* The composed system implements DownloadRelease: the race of handler, worker
\* and shutdown futures looks like one release per download, which is final.
ImplementsRelease == Abstract!ReleaseSpec

\* It also implements the promise that every requested shutdown is carried out.
ImplementsFairRelease == Abstract!FairReleaseSpec

-----------------------------------------------------------------------------
(* Statements of the repository that the code does not meet                *)

\* websocket/server.rs:115 - the exit guard "emits the single authoritative
\* `WS: Closed connection` event for every accepted dedicated download
\* connection".
ClosedEventAtExit ==
    \A c \in Conns : ws[c] = "done" => closedEvents[c] = 1

\* websocket/server.rs:114 - the exit guard "performs exact idempotent session
\* completion ... for every accepted dedicated download connection".
AcceptedIsCompleted ==
    \A c \in Conns : ws[c] = "done" => state[token[c]] = "Closed"

\* http/file.rs:429 - "every terminal path must trigger the session's cleanup
\* primitive": when download_file has returned, its session does not stay open.
TerminalPathsTrigger ==
    \A d \in Downloads : http[d] = "done" ~> ~Open(d)

\* http/file.rs:431 - "the response-body guard covers the body lifetime": a
\* body that the client abandoned gets its session shut down.
DroppedBodyIsShutDown ==
    \A d \in Downloads : http[d] = "dropped" ~> ~Open(d)

==============================================================================
