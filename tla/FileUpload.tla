----------------------------- MODULE FileUpload -----------------------------
(***************************************************************************)
(* One upload, PUT /job/apiv1/file/upload/: upload_file of                 *)
(* src/src/src/http/file.rs creates a dedicated cluster and an entry of    *)
(* file_upload_map, the remote cluster answers by opening a WebSocket with *)
(* the session's UUID (cluster/manager.rs), and the body goes out over the *)
(* queue of the dedicated cluster, chunk by chunk.                         *)
(*                                                                         *)
(* The UUID is all a connection has to present, so that a remote cluster   *)
(* which retries opens several.  handle_new_connection holds a read guard  *)
(* of file_upload_map from the lookup to its return: remove_file_upload    *)
(* waits for it, other admissions do not.  A chunk is its number, and the  *)
(* scheduler and wait_for_queue_drain are what MessageQueue shows of them. *)
(***************************************************************************)
EXTENDS Integers, Sequences

CONSTANTS
    UploadConns,  \* connections that present the session's UUID
    NoUploadConn, \* `None` in the watch channel
    MaxChunks,    \* bound: chunks of the body
    UploadMax,    \* MAX_FILE_BUFFER_SIZE, in chunks
    UploadMin     \* MIN_FILE_BUFFER_SIZE, in chunks

ASSUME NoUploadConnAssumption == NoUploadConn \notin UploadConns
ASSUME ChunksAssumption == MaxChunks \in Nat
ASSUME UploadBufferAssumption ==
    UploadMin \in Nat /\ UploadMax \in Nat /\ UploadMin <= UploadMax

VARIABLES
    put,         \* where upload_file is
    length,      \* the chunks of the body, from Content-Length
    totalRead,   \* the chunks queued so far
    entry,       \* whether file_upload_map has the session
    asked,       \* whether UPLOAD_FILE has been queued to the master cluster
    stopping,    \* shutdown_initiated
    ready,       \* data_ready
    uploadError, \* error
    complete,    \* complete
    permit,      \* the stored permit of data_notify
    lowest,      \* FILE_UPLOAD_CHUNKs queued, at Priority::Lowest
    highest,     \* FILE_UPLOAD_COMPLETE queued, at Priority::Highest
    held,        \* what the scheduler has taken out
    sender,      \* the connection in the watch channel
    peer,        \* where the handler of each connection is
    registered,  \* connection_map
    told,        \* connections that WsOutbound::Close was sent to
    got          \* history: what each connection was handed

putVars    == <<put, length, totalRead, asked>>
flagVars   == <<ready, uploadError, complete, permit>>
queueVars  == <<lowest, highest, held, got>>
socketVars == <<sender, peer, registered, told>>

uploadVars == <<putVars, entry, stopping, flagVars, queueVars, socketVars>>

Complete == MaxChunks + 1
Nothing  == 0
Payloads == 1..Complete

PutSteps ==
    {"none", "start", "admitted", "created", "asked", "wait", "asleep",
     "check ready", "body", "drain", "draining", "check chunk", "chunk",
     "drain all", "check empty", "complete", "confirm", "confirming", "check end",
     "remove, close", "close, remove", "close", "remove", "finish",
     "refused", "failed", "timed out", "done", "gone"}

PeerSteps == {"idle", "checked", "installed", "open", "detaching", "removing",
              "closed", "rejected"}

UploadTypeOK ==
    /\ put \in PutSteps
    /\ length \in 0..MaxChunks /\ totalRead \in 0..MaxChunks
    /\ entry \in BOOLEAN /\ asked \in BOOLEAN /\ stopping \in BOOLEAN
    /\ ready \in BOOLEAN /\ uploadError \in BOOLEAN /\ complete \in BOOLEAN
    /\ permit \in BOOLEAN
    /\ lowest \in Seq(Payloads) /\ highest \in Seq(Payloads)
    /\ held \in Payloads \cup {Nothing}
    /\ sender \in UploadConns \cup {NoUploadConn}
    /\ peer \in [UploadConns -> PeerSteps]
    /\ registered \subseteq UploadConns /\ told \subseteq UploadConns
    /\ got \in [UploadConns -> Seq(Payloads)]

\* The handler at p, and FileUploadState::new
UploadStart(p) ==
    /\ put = p /\ length \in (IF p = "none" THEN {0} ELSE 0..MaxChunks)
    /\ totalRead = 0
    /\ entry = FALSE /\ asked = FALSE /\ stopping = FALSE
    /\ ready = FALSE /\ uploadError = FALSE /\ complete = FALSE /\ permit = FALSE
    /\ lowest = <<>> /\ highest = <<>> /\ held = Nothing
    /\ sender = NoUploadConn
    /\ peer = [c \in UploadConns |-> "idle"]
    /\ registered = {} /\ told = {}
    /\ got = [c \in UploadConns |-> <<>>]

UploadInit == UploadStart("start")

\* No upload is under way.
UploadIdle == UploadStart("none")

-----------------------------------------------------------------------------
(* upload_file: the session and the remote cluster's answer                *)

PutGoto(s) ==
    /\ put' = s
    /\ UNCHANGED <<length, totalRead, asked>>

\* Refused during shutdown, without a usable request, or offline
Enter ==
    /\ put = "start"
    /\ \/ ~stopping /\ PutGoto("admitted")
       \/ PutGoto("refused")
    /\ UNCHANGED <<entry, stopping, flagVars, queueVars, socketVars>>

\* create_file_upload: the check of the shutdown flag is repeated
CreateUpload ==
    /\ put = "admitted"
    /\ entry' = ~stopping
    /\ PutGoto("created")
    /\ UNCHANGED <<stopping, flagVars, queueVars, socketVars>>

AskUpload ==
    /\ put = "created"
    /\ put' = "asked" /\ asked' = TRUE
    /\ UNCHANGED <<length, totalRead, entry, stopping, flagVars, queueVars,
                   socketVars>>

\* get_file_upload: a connection that came and went has removed the entry.
LookupUpload ==
    /\ put = "asked"
    /\ PutGoto(IF entry THEN "wait" ELSE "refused")
    /\ UNCHANGED <<entry, stopping, flagVars, queueVars, socketVars>>

\* wait_until_data_ready, and the loop that awaits the confirmation
CheckUploadReady ==
    /\ \/ /\ put = "wait"
          /\ PutGoto(IF ready THEN "check ready" ELSE "asleep")
       \/ /\ put = "confirm"
          /\ PutGoto(IF complete \/ uploadError THEN "check end" ELSE "confirming")
    /\ UNCHANGED <<entry, stopping, flagVars, queueVars, socketVars>>

UploadWakes ==
    /\ permit /\ permit' = FALSE
    /\ \/ put = "asleep" /\ PutGoto("wait")
       \/ put = "confirming" /\ PutGoto("confirm")
    /\ UNCHANGED <<entry, stopping, ready, uploadError, complete, queueVars,
                   socketVars>>

ReadyTimeout ==
    /\ put = "asleep"
    /\ uploadError' = TRUE
    /\ PutGoto("check ready")
    /\ UNCHANGED <<entry, stopping, ready, complete, permit, queueVars, socketVars>>

\* check_upload_error, in its four places
CheckUploadError ==
    /\ \/ put = "check ready" /\ PutGoto(IF uploadError THEN "remove, close" ELSE "body")
       \/ put = "check chunk" /\ PutGoto(IF uploadError THEN "remove, close" ELSE "chunk")
       \/ put = "check empty" /\ PutGoto(IF uploadError THEN "remove, close" ELSE "complete")
       \/ put = "check end" /\ PutGoto(IF uploadError THEN "remove, close" ELSE "finish")
    /\ UNCHANGED <<entry, stopping, flagVars, queueVars, socketVars>>

-----------------------------------------------------------------------------
(* upload_file: the body                                                   *)

\* to_bytes fails, or the body is not as long as Content-Length says.
ReadBody ==
    /\ put = "body"
    /\ \/ PutGoto(IF length = 0 THEN "drain all" ELSE "drain")
       \/ PutGoto("remove, close")
    /\ UNCHANGED <<entry, stopping, flagVars, queueVars, socketVars>>

Queued == Len(lowest) + Len(highest)

\* Mutant of DrainAll: COMPLETE does not wait for the queue to drain.
DrainNothing ==
    /\ put = "drain all"
    /\ PutGoto("check empty")
    /\ UNCHANGED <<entry, stopping, flagVars, queueVars, socketVars>>

\* wait_for_queue_drain(true), after the last chunk: it returns when the
\* queue is empty, or false at its deadline.
DrainAll ==
    /\ put = "drain all"
    /\ \/ Queued = 0 /\ PutGoto("check empty")
       \/ Queued > 0 /\ PutGoto("close, remove")
    /\ UNCHANGED <<entry, stopping, flagVars, queueVars, socketVars>>

\* wait_for_queue_drain(false), before each chunk: a queue that is too long
\* must drain to MIN_FILE_BUFFER_SIZE before the deadline.
Drain ==
    /\ \/ put = "drain"
          /\ PutGoto(IF Queued <= UploadMax THEN "check chunk" ELSE "draining")
       \/ put = "draining" /\ Queued <= UploadMin /\ PutGoto("check chunk")
       \/ put = "draining" /\ Queued > UploadMin /\ PutGoto("close, remove")
    /\ UNCHANGED <<entry, stopping, flagVars, queueVars, socketVars>>

QueueChunk ==
    /\ put = "chunk"
    /\ totalRead' = totalRead + 1
    /\ lowest' = Append(lowest, totalRead + 1)
    /\ put' = IF totalRead + 1 < length THEN "drain" ELSE "drain all"
    /\ UNCHANGED <<length, asked, entry, stopping, flagVars, highest, held, got,
                   socketVars>>

QueueComplete ==
    /\ put = "complete"
    /\ highest' = Append(highest, Complete)
    /\ PutGoto("confirm")
    /\ UNCHANGED <<entry, stopping, flagVars, lowest, held, got, socketVars>>

\* Mutant of ConfirmTimeout: only a socket that is gone ends the wait.
ConfirmUntimed ==
    /\ put = "confirming" /\ sender = NoUploadConn
    /\ PutGoto("close, remove")
    /\ UNCHANGED <<entry, stopping, flagVars, queueVars, socketVars>>

ConfirmTimeout ==
    /\ put = "confirming"
    /\ PutGoto("close, remove")
    /\ UNCHANGED <<entry, stopping, flagVars, queueVars, socketVars>>

\* Mutant of Unguarded: an admission lets go of the entry when it has cloned
\* the cluster.
GuardReleased == TRUE

\* No admission holds its read guard.
Unguarded == \A c \in UploadConns : peer[c] \notin {"checked", "installed"}

\* remove_file_upload: before close where an error was found or the body
\* could not be read, after it where a wait has timed out, and alone when
\* the upload has succeeded.
RemoveUpload ==
    /\ put \in {"remove, close", "remove", "finish"}
    /\ Unguarded
    /\ entry' = FALSE
    /\ PutGoto(CASE put = "remove, close" -> "close"
                 [] put = "remove" -> "timed out"
                 [] put = "finish" -> "done")
    /\ UNCHANGED <<stopping, flagVars, queueVars, socketVars>>

\* Cluster::close: the current connection is told and forgotten.
TellSender == told' = told \cup ({sender} \ {NoUploadConn}) /\ sender' = NoUploadConn

CloseUpload ==
    /\ put \in {"close", "close, remove"}
    /\ TellSender
    /\ PutGoto(IF put = "close" THEN "failed" ELSE "remove")
    /\ UNCHANGED <<entry, stopping, flagVars, queueVars, peer, registered>>

\* The client goes away: the handler is dropped where it awaits, and leaves
\* everything as it is.
DropUpload ==
    /\ put \in {"asleep", "body", "draining", "drain all", "confirming"}
    /\ PutGoto("gone")
    /\ UNCHANGED <<entry, stopping, flagVars, queueVars, socketVars>>

\* The shutdown flag is set: it is not read once the session is created.
BeginShutdown ==
    /\ put \in {"start", "admitted"} /\ ~stopping
    /\ stopping' = TRUE
    /\ UNCHANGED <<putVars, entry, flagVars, queueVars, socketVars>>

-----------------------------------------------------------------------------
(* The scheduler of the dedicated cluster                                  *)

\* MessageQueue shows in which order the levels are served: the choice made
\* here allows more.
TakeQueued ==
    /\ held = Nothing
    /\ \/ /\ lowest # <<>> /\ held' = Head(lowest) /\ lowest' = Tail(lowest)
          /\ UNCHANGED highest
       \/ /\ highest # <<>> /\ held' = Head(highest) /\ highest' = Tail(highest)
          /\ UNCHANGED lowest
    /\ UNCHANGED <<putVars, entry, stopping, flagVars, got, socketVars>>

\* Without a connection, or when its receiver is gone, the message is lost.
SendHeld ==
    /\ held # Nothing
    /\ held' = Nothing
    /\ got' = IF sender # NoUploadConn /\ peer[sender] \in {"installed", "open"}
                THEN [got EXCEPT ![sender] = Append(@, held)] ELSE got
    /\ UNCHANGED <<putVars, entry, stopping, flagVars, lowest, highest, socketVars>>

-----------------------------------------------------------------------------
(* The WebSocket handlers                                                  *)

PeerGoto(c, s) == peer' = [peer EXCEPT ![c] = s]

\* handle_new_connection, from the lookup in file_upload_map to is_online
AdmitUpload(c) ==
    /\ peer[c] = "idle" /\ asked
    /\ PeerGoto(c, IF entry /\ sender = NoUploadConn THEN "checked" ELSE "rejected")
    /\ UNCHANGED <<putVars, entry, stopping, flagVars, queueVars, sender,
                   registered, told>>

InstallUpload(c) ==
    /\ peer[c] = "checked"
    /\ sender' = c
    /\ PeerGoto(c, "installed")
    /\ UNCHANGED <<putVars, entry, stopping, flagVars, queueVars, registered, told>>

RegisterUpload(c) ==
    /\ peer[c] = "installed"
    /\ registered' = registered \cup {c}
    /\ PeerGoto(c, "open")
    /\ UNCHANGED <<putVars, entry, stopping, flagVars, queueVars, sender, told>>

\* handle_server_ready, handle_file_upload_error and
\* handle_file_upload_complete: a remote cluster confirms what it has been
\* told is complete.
ReceiveAnswer(c) ==
    /\ peer[c] = "open"
    /\ \/ UNCHANGED <<uploadError, complete>>
       \/ uploadError' = TRUE /\ UNCHANGED complete
       \/ /\ \E i \in 1..Len(got[c]) : got[c][i] = Complete
          /\ complete' = TRUE /\ UNCHANGED uploadError
    /\ ready' = TRUE /\ permit' = TRUE
    /\ UNCHANGED <<putVars, entry, stopping, queueVars, socketVars>>

\* remove_connection: the connection leaves connection_map ...
LeaveUpload(c) ==
    /\ peer[c] = "open"
    /\ registered' = registered \ {c}
    /\ PeerGoto(c, "detaching")
    /\ UNCHANGED <<putVars, entry, stopping, flagVars, queueVars, sender, told>>

\* ... close, after a read error, and set_connection(None) ...
DetachUpload(c) ==
    /\ peer[c] = "detaching"
    /\ \/ TellSender
       \/ sender' = NoUploadConn /\ UNCHANGED told
    /\ PeerGoto(c, "removing")
    /\ UNCHANGED <<putVars, entry, stopping, flagVars, queueVars, registered>>

\* ... and the session leaves file_upload_map.
ForgetUpload(c) ==
    /\ peer[c] = "removing" /\ Unguarded
    /\ entry' = FALSE
    /\ PeerGoto(c, "closed")
    /\ UNCHANGED <<putVars, stopping, flagVars, queueVars, sender, registered, told>>

-----------------------------------------------------------------------------
(* The specification                                                       *)

Put ==
    \/ Enter \/ CreateUpload \/ AskUpload \/ LookupUpload \/ CheckUploadReady
    \/ UploadWakes \/ ReadyTimeout \/ CheckUploadError \/ ReadBody \/ Drain
    \/ DrainAll \/ QueueChunk \/ QueueComplete \/ ConfirmTimeout
    \/ RemoveUpload \/ CloseUpload

Schedule == TakeQueued \/ SendHeld

Admit(c) == AdmitUpload(c) \/ InstallUpload(c) \/ RegisterUpload(c)

RemovePeer(c) == DetachUpload(c) \/ ForgetUpload(c)

UploadNext ==
    \/ Put \/ Schedule \/ DropUpload \/ BeginShutdown
    \/ \E c \in UploadConns :
          Admit(c) \/ ReceiveAnswer(c) \/ LeaveUpload(c) \/ RemovePeer(c)

UploadSpec == UploadInit /\ [][UploadNext]_uploadVars

\* Tasks that can run do, timers included: the one that bounds the wait for
\* the confirmation spans all its wake-ups.  Nothing is assumed of the peers.
UploadFairness ==
    /\ WF_uploadVars(Put) /\ SF_uploadVars(ConfirmTimeout)
    /\ \A c \in UploadConns : WF_uploadVars(InstallUpload(c) \/ RegisterUpload(c))

-----------------------------------------------------------------------------
(* Properties                                                              *)

\* COMPLETE has the highest priority and the chunks the lowest, and it is
\* wait_for_queue_drain that keeps it behind them: a connection that is
\* handed COMPLETE has been handed the whole body, in order, unless the
\* remote cluster has opened a second one.
WholeBeforeComplete ==
    \A c \in UploadConns :
       /\ \E i \in 1..Len(got[c]) : got[c][i] = Complete
       /\ \A d \in UploadConns \ {c} : peer[d] \in {"idle", "rejected"}
       => got[c] = [i \in 1..length |-> i] \o <<Complete>>

\* When the handler has returned because of an error that was reported, or a
\* body it could not read, the session has no entry that admits another
\* connection, and no current connection that waits for chunks: remove and
\* close, in this order, beat every admission under way.
FailedIsClosed == put = "failed" => ~entry /\ sender = NoUploadConn

\* The same where a wait has timed out, and close comes first: file.rs:947
\* says of the dedicated cluster that it "is cleaned up when that connection
\* closes".  A connection that is admitted between close and remove stays.
TimedOutIsClosed == put = "timed out" => ~entry /\ sender = NoUploadConn

\* manager.rs:834: "Reject a duplicate connection while the upload cluster is
\* online".  Two admissions that check is_online together both pass.
OneUploadConnection ==
    \A c, d \in registered : peer[c] = "open" /\ peer[d] = "open" => c = d

\* Every upload is answered, whatever the connections do.
UploadEnds ==
    put = "start" ~> put \in {"refused", "failed", "timed out", "done", "gone"}

=============================================================================
