--------------------------- MODULE DownloadSession ---------------------------
(***************************************************************************)
(* The lifecycle object of one dedicated file download,                    *)
(* `DownloadSession` of src/src/src/cluster/file_download.rs, for a set of *)
(* downloads.  A download is named by its session UUID, which              *)
(* `download_file` generates afresh for every request, so the UUID stands  *)
(* for the `Arc<DownloadSession>` allocation as well.                      *)
(*                                                                         *)
(* Every operation takes the `lifecycle` mutex for its whole body and is   *)
(* therefore one atomic step.  `TriggerSession` and `BindSession` are used *)
(* by the manager, the HTTP handler and the WebSocket handler, which       *)
(* DownloadLifecycle composes with this object.                            *)
(***************************************************************************)
EXTENDS Naturals, Sequences

CONSTANTS
    Downloads,  \* session UUIDs, one per GET /job/apiv1/file/ request
    Conns,      \* WebSocket connection ids (`ConnectionId`, never reused)
    NoConn      \* `None` where an `Option<ConnectionId>` is kept

ASSUME NoConnAssumption == NoConn \notin Conns

VARIABLES
    state,      \* `DownloadSessionState`; "Absent" before DownloadSession::new
    connection, \* the connection id carried by Connected/Closing/Closed
    reason,     \* the `DownloadShutdownReason` carried by Closing/Closed
    cleanups    \* the unbounded channel of `DownloadCleanupRequest`s

sessionVars == <<state, connection, reason, cleanups>>

SessionStates == {"Absent", "Pending", "Connected", "Closing", "Closed"}

ShutdownReasons ==
    {"Complete", "ChunkTimeout", "FileError", "ClusterOffline",
     "WebSocketClosed", "WebSocketError", "ResponseError",
     "ApplicationShutdown"}

NoReason == "none"

SessionTypeOK ==
    /\ state \in [Downloads -> SessionStates]
    /\ connection \in [Downloads -> Conns \cup {NoConn}]
    /\ reason \in [Downloads -> ShutdownReasons \cup {NoReason}]
    /\ cleanups \in Seq(Downloads)

SessionInit ==
    /\ state = [d \in Downloads |-> "Absent"]
    /\ connection = [d \in Downloads |-> NoConn]
    /\ reason = [d \in Downloads |-> NoReason]
    /\ cleanups = <<>>

\* The session is open: neither Closing nor Closed.
Open(d) == state[d] \in {"Pending", "Connected"}

\* `session.state() == DownloadSessionState::Connected(c)`
IsConnected(d, c) == state[d] = "Connected" /\ connection[d] = c

\* DownloadSession::new
NewSession(d) ==
    /\ state' = [state EXCEPT ![d] = "Pending"]
    /\ UNCHANGED <<connection, reason, cleanups>>

\* The successful branch of `bind_connection`; it fails when not Pending.
CanBind(d) == state[d] = "Pending"

BindSession(d, c) ==
    /\ state' = [state EXCEPT ![d] = "Connected"]
    /\ connection' = [connection EXCEPT ![d] = c]
    /\ UNCHANGED <<reason, cleanups>>

\* Mutant of CanTrigger: only a Closed session ignores the trigger.
CanTriggerAgain(d) == state[d] \in {"Pending", "Connected", "Closing"}

\* Whether `trigger` transitions: only out of Pending and Connected.
CanTrigger(d) == Open(d)

\* Mutant of TriggerSession: the cleanup request is not sent.
TriggerSessionUnsent(d, r) ==
    IF CanTrigger(d)
      THEN /\ state' = [state EXCEPT ![d] = "Closing"]
           /\ reason' = [reason EXCEPT ![d] = r]
           /\ UNCHANGED <<connection, cleanups>>
      ELSE UNCHANGED sessionVars

\* `trigger(reason)`: the first call moves the session to Closing, records
\* the reason and emits one cleanup request; later calls change nothing.
\* The request's connection id is `connection[d]`, fixed from here on.
TriggerSession(d, r) ==
    IF CanTrigger(d)
      THEN /\ state' = [state EXCEPT ![d] = "Closing"]
           /\ reason' = [reason EXCEPT ![d] = r]
           /\ cleanups' = Append(cleanups, d)
           /\ UNCHANGED connection
      ELSE UNCHANGED sessionVars

\* `complete(connection_id)`: Closing -> Closed for the recorded connection.
CompleteSession(d, c) ==
    IF state[d] = "Closing" /\ connection[d] = c
      THEN /\ state' = [state EXCEPT ![d] = "Closed"]
           /\ UNCHANGED <<connection, reason, cleanups>>
      ELSE UNCHANGED sessionVars

==============================================================================
