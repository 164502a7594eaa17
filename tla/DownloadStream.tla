--------------------------- MODULE DownloadStream ---------------------------
(***************************************************************************)
(* The data of one dedicated download, once its WebSocket is accepted:     *)
(* the FileDownloadState that the WebSocket handler fills                  *)
(* (src/src/src/cluster/cluster.rs) and the response stream of             *)
(* download_file empties (src/src/src/http/file.rs), with the PAUSE and    *)
(* RESUME messages that hold the remote cluster back.  Registration and    *)
(* release of the session are DownloadLifecycle's.                         *)
(*                                                                         *)
(* A byte is its position in the file, a chunk a sequence of bytes.  A     *)
(* step is one access to the shared state; accesses are one step where the *)
(* other side cannot tell them apart.  PAUSE and RESUME are queued on the  *)
(* dedicated cluster with the same priority but under two sources, the     *)
(* empty one (send_message_internal) and the UUID (send_message): the      *)
(* scheduler may send either first.                                        *)
(***************************************************************************)
EXTENDS Integers, Sequences

CONSTANTS
    MaxSize,      \* bound: bytes of the file, declared or sent
    ChunkSizes,   \* the lengths of the chunks the remote cluster sends
    MaxFileBuffer,\* MAX_FILE_BUFFER_SIZE
    MinFileBuffer,\* MIN_FILE_BUFFER_SIZE
    MaxWire       \* bound: messages under way from the remote cluster

ASSUME SizesAssumption == MaxSize \in Nat /\ ChunkSizes \subseteq 0..MaxSize
ASSUME FileBufferAssumption ==
    MinFileBuffer \in Nat /\ MaxFileBuffer \in Nat /\ MinFileBuffer <= MaxFileBuffer
ASSUME WireAssumption == MaxWire \in Nat \ {0}

VARIABLES
    received,     \* received_bytes
    sentBytes,    \* sent_bytes, and the stream's own `sent`
    clientPaused, \* client_paused
    failed,       \* error
    fileSize,     \* file_size
    receivedData, \* received_data
    dataReady,    \* data_ready
    wakeup,       \* the stored permit of data_notify
    chunks,       \* the unbounded chunk channel
    handler,      \* where the WebSocket handler is in handle_file_chunk
    inHand,       \* the chunk it handles
    reader,       \* where download_file and its stream are
    output,       \* the chunk the stream is about to yield
    seen,         \* the received_bytes it has loaded
    ended,        \* the reason of the session's first trigger
    socket,       \* whether the WebSocket is open
    orders,       \* how many PAUSE_ and RESUME_FILE_CHUNK_STREAM are queued
    wire,         \* messages from the remote cluster, in the order sent
    declared,     \* whether the remote cluster has sent FILE_DETAILS
    offset,       \* the bytes it has sent
    halted,       \* whether it is paused
    body          \* history: the bytes the client has got

stateVars  == <<received, sentBytes, clientPaused, failed, fileSize,
                receivedData, dataReady, wakeup, chunks>>
handlerVars == <<handler, inHand>>
readerVars == <<reader, output, seen, ended, body>>
remoteVars == <<declared, offset, halted>>

streamVars == <<stateVars, handlerVars, readerVars, orders, socket, wire,
                remoteVars>>

Bytes == 1..MaxSize

NoReasonYet == "none"

\* Messages of the remote cluster: a chunk; FILE_DETAILS with a size;
\* FILE_ERROR, or a chunk or details cut short.
Chunk(b) == [type |-> "chunk", bytes |-> b]
Details(n) == [type |-> "details", size |-> n]
Fault == [type |-> "fault"]

Messages ==
    {Fault} \cup [type : {"details"}, size : 0..MaxSize]
            \cup [type : {"chunk"}, bytes : Seq(Bytes)]

Orders == {"pause", "resume"}

NoOrders == [o \in Orders |-> 0]

HandlerSteps == {"idle", "count", "push", "check", "mark", "pause", "ready"}

ReaderSteps == {"none", "wait", "asleep", "evaluate", "loop", "recv", "load",
                "cas", "resume", "yield", "last", "end", "refused", "done", "gone"}

StreamTypeOK ==
    /\ received \in Nat /\ sentBytes \in 0..MaxSize /\ fileSize \in 0..MaxSize
    /\ clientPaused \in BOOLEAN /\ failed \in BOOLEAN /\ receivedData \in BOOLEAN
    /\ dataReady \in BOOLEAN /\ wakeup \in BOOLEAN
    /\ chunks \in Seq(Seq(Bytes))
    /\ handler \in HandlerSteps /\ inHand \in Seq(Bytes)
    /\ reader \in ReaderSteps /\ output \in Seq(Bytes) /\ seen \in Nat
    /\ ended \in {NoReasonYet, "Complete", "ChunkTimeout", "FileError",
                  "ClusterOffline", "WebSocketClosed", "ResponseError"}
    /\ socket \in BOOLEAN /\ orders \in [Orders -> Nat]
    /\ wire \in Seq(Messages)
    /\ declared \in BOOLEAN /\ offset \in 0..MaxSize /\ halted \in BOOLEAN
    /\ body \in Seq(Bytes)

\* FileDownloadState::new, with the HTTP handler at r
StreamStart(r) ==
    /\ received = 0 /\ sentBytes = 0 /\ fileSize = 0
    /\ clientPaused = FALSE /\ failed = FALSE /\ receivedData = FALSE
    /\ dataReady = FALSE /\ wakeup = FALSE
    /\ chunks = <<>> /\ handler = "idle" /\ inHand = <<>>
    /\ reader = r /\ output = <<>> /\ seen = 0 /\ ended = NoReasonYet
    /\ socket = (r # "none") /\ orders = NoOrders
    /\ wire = <<>> /\ declared = FALSE /\ offset = 0 /\ halted = FALSE
    /\ body = <<>>

StreamInit == StreamStart("wait")

\* No download is under way.
StreamIdle == StreamStart("none")

\* A trigger of the session: the first reason stands.
EndSession(r) == ended' = IF ended = NoReasonYet THEN r ELSE ended

-----------------------------------------------------------------------------
(* The WebSocket handler                                                   *)

\* Mutant of MarkReady: the waiting handler is not notified.
MarkReadySilently == dataReady' = TRUE /\ UNCHANGED wakeup

\* data_ready.store and data_notify.notify_one
MarkReady == dataReady' = TRUE /\ wakeup' = TRUE

\* record_transfer_error
RecordTransferError == failed' = TRUE /\ MarkReady

\* A FILE_CHUNK is taken from the socket; fetch_add on received_bytes comes
\* before the chunk is in the channel.
TakeChunk ==
    /\ socket /\ handler = "idle" /\ wire # <<>> /\ Head(wire).type = "chunk"
    /\ inHand' = Head(wire).bytes
    /\ wire' = Tail(wire)
    /\ handler' = "count"
    /\ UNCHANGED <<stateVars, readerVars, orders, socket, remoteVars>>

\* Mutant of CountChunk: chunks are counted, not their bytes.
CountMessage ==
    /\ handler = "count"
    /\ received' = received + 1
    /\ handler' = "push"
    /\ UNCHANGED <<sentBytes, clientPaused, failed, fileSize, receivedData,
                   dataReady, wakeup, chunks, inHand, readerVars, orders,
                   socket, wire, remoteVars>>

CountChunk ==
    /\ handler = "count"
    /\ received' = received + Len(inHand)
    /\ handler' = "push"
    /\ UNCHANGED <<sentBytes, clientPaused, failed, fileSize, receivedData,
                   dataReady, wakeup, chunks, inHand, readerVars, orders,
                   socket, wire, remoteVars>>

\* chunk_sender.send: the receiver belongs to the same FileDownloadState as
\* the sender, so that sending never fails.
PushChunk ==
    /\ handler = "push"
    /\ chunks' = Append(chunks, inHand)
    /\ handler' = "check"
    /\ UNCHANGED <<received, sentBytes, clientPaused, failed, fileSize,
                   receivedData, dataReady, wakeup, inHand, readerVars, orders,
                   socket, wire, remoteVars>>

\* The three loads of the back-pressure test: only this handler sets
\* client_paused and received_bytes, so that sent_bytes decides.
CheckBuffer ==
    /\ handler = "check"
    /\ handler' = IF ~clientPaused /\ received - sentBytes > MaxFileBuffer
                    THEN "mark" ELSE "ready"
    /\ UNCHANGED <<stateVars, inHand, readerVars, orders, socket, wire,
                   remoteVars>>

MarkPaused ==
    /\ handler = "mark"
    /\ clientPaused' = TRUE
    /\ handler' = "pause"
    /\ UNCHANGED <<received, sentBytes, failed, fileSize, receivedData,
                   dataReady, wakeup, chunks, inHand, readerVars, orders,
                   socket, wire, remoteVars>>

QueuePause ==
    /\ handler = "pause"
    /\ orders' = [orders EXCEPT !["pause"] = @ + 1]
    /\ handler' = "ready"
    /\ UNCHANGED <<stateVars, inHand, readerVars, socket, wire,
                   remoteVars>>

FinishChunk ==
    /\ handler = "ready"
    /\ MarkReady
    /\ handler' = "idle" /\ inHand' = <<>>
    /\ UNCHANGED <<received, sentBytes, clientPaused, failed, fileSize,
                   receivedData, chunks, readerVars, orders, socket, wire,
                   remoteVars>>

\* handle_file_details
TakeDetails ==
    /\ socket /\ handler = "idle" /\ wire # <<>> /\ Head(wire).type = "details"
    /\ fileSize' = Head(wire).size
    /\ receivedData' = TRUE
    /\ MarkReady
    /\ wire' = Tail(wire)
    /\ UNCHANGED <<received, sentBytes, clientPaused, failed, chunks,
                   handlerVars, readerVars, orders, socket, remoteVars>>

\* handle_file_error, and the truncated cases of the two handlers above
TakeFault ==
    /\ socket /\ handler = "idle" /\ wire # <<>> /\ Head(wire).type = "fault"
    /\ RecordTransferError
    /\ wire' = Tail(wire)
    /\ UNCHANGED <<received, sentBytes, clientPaused, fileSize, receivedData,
                   chunks, handlerVars, readerVars, orders, socket, remoteVars>>

\* The socket goes: the remote cluster leaves, or the cleanup of a session
\* that has ended closes it.  What is under way is lost.
CloseSocket ==
    /\ socket /\ handler = "idle"
    /\ socket' = FALSE
    /\ EndSession("WebSocketClosed")
    /\ wire' = <<>> /\ orders' = NoOrders
    /\ UNCHANGED <<stateVars, handlerVars, reader, output, seen, body, remoteVars>>

-----------------------------------------------------------------------------
(* download_file: wait_until_data_ready and the answer                     *)

\* data_ready is loaded, and the handler answers or awaits a notification.
CheckReady ==
    /\ reader = "wait"
    /\ reader' = IF dataReady THEN "evaluate" ELSE "asleep"
    /\ UNCHANGED <<stateVars, handlerVars, output, seen, ended, body, orders,
                   socket, wire, remoteVars>>

WakeUp ==
    /\ reader = "asleep" /\ wakeup
    /\ wakeup' = FALSE
    /\ reader' = "wait"
    /\ UNCHANGED <<received, sentBytes, clientPaused, failed, fileSize,
                   receivedData, dataReady, chunks, handlerVars, output, seen,
                   ended, body, orders, socket, wire, remoteVars>>

\* CLIENT_TIMEOUT_SECONDS pass: the handler records the error itself.
AnswerTimeout ==
    /\ reader = "asleep"
    /\ failed' = TRUE
    /\ reader' = "evaluate"
    /\ UNCHANGED <<received, sentBytes, clientPaused, fileSize, receivedData,
                   dataReady, wakeup, chunks, handlerVars, output, seen, ended,
                   body, orders, socket, wire, remoteVars>>

\* The error answer (400), the offline answer (503), or the response with
\* its stream; an empty file is complete at once.
Evaluate ==
    /\ reader = "evaluate"
    /\ \/ failed /\ reader' = "refused" /\ EndSession("FileError")
       \/ ~failed /\ ~receivedData /\ reader' = "refused"
                  /\ EndSession("ClusterOffline")
       \/ /\ ~failed /\ receivedData /\ reader' = "loop"
          /\ IF fileSize = 0 THEN EndSession("Complete") ELSE UNCHANGED ended
    /\ UNCHANGED <<stateVars, handlerVars, output, seen, body, orders, socket,
                   wire, remoteVars>>

-----------------------------------------------------------------------------
(* The response stream                                                     *)

\* The condition of the while loop
TestLoop ==
    /\ reader = "loop"
    /\ reader' = IF sentBytes < fileSize /\ ~failed THEN "recv" ELSE "end"
    /\ UNCHANGED <<stateVars, handlerVars, output, seen, ended, body, orders,
                   socket, wire, remoteVars>>

\* Mutant of ReceiveChunk: a chunk is never sliced.
ReceiveUnsliced ==
    /\ reader = "recv" /\ chunks # <<>>
    /\ chunks' = Tail(chunks)
    /\ output' = Head(chunks)
    /\ sentBytes' = sentBytes + Len(Head(chunks))
    /\ reader' = "load"
    /\ UNCHANGED <<received, clientPaused, failed, fileSize, receivedData,
                   dataReady, wakeup, handlerVars, seen, ended, body, orders,
                   socket, wire, remoteVars>>

\* A chunk is received and counted in sent_bytes.  One that overshoots the
\* declared size is sliced, and is the last.
ReceiveChunk ==
    LET chunk == Head(chunks)
        over == sentBytes + Len(chunk) > fileSize
    IN
    /\ reader = "recv" /\ chunks # <<>>
    /\ chunks' = Tail(chunks)
    /\ output' = IF over THEN SubSeq(chunk, 1, fileSize - sentBytes) ELSE chunk
    /\ sentBytes' = IF over THEN fileSize ELSE sentBytes + Len(chunk)
    /\ IF over THEN EndSession("Complete") ELSE UNCHANGED ended
    /\ reader' = IF over THEN "last" ELSE "load"
    /\ UNCHANGED <<received, clientPaused, failed, fileSize, receivedData,
                   dataReady, wakeup, handlerVars, seen, body, orders, socket,
                   wire, remoteVars>>

LoadReceived ==
    /\ reader = "load"
    /\ seen' = received
    /\ reader' = "cas"
    /\ UNCHANGED <<stateVars, handlerVars, output, ended, body, orders, socket,
                   wire, remoteVars>>

\* client_paused is loaded and, when the buffer has drained, exchanged: only
\* this stream clears it, so that the exchange succeeds whenever it is tried.
ExchangePaused ==
    LET drained == clientPaused /\ seen - sentBytes < MinFileBuffer IN
    /\ reader = "cas"
    /\ clientPaused' = (clientPaused /\ ~drained)
    /\ seen' = 0
    /\ reader' = IF drained THEN "resume" ELSE "yield"
    /\ UNCHANGED <<received, sentBytes, failed, fileSize, receivedData,
                   dataReady, wakeup, chunks, handlerVars, output, ended, body,
                   orders, socket, wire, remoteVars>>

QueueResume ==
    /\ reader = "resume"
    /\ orders' = IF socket THEN [orders EXCEPT !["resume"] = @ + 1] ELSE orders
    /\ reader' = "yield"
    /\ UNCHANGED <<stateVars, handlerVars, output, seen, ended, body,
                   socket, wire, remoteVars>>

\* Complete is triggered with the last byte, and the client gets the chunk.
YieldChunk ==
    /\ reader \in {"yield", "last"}
    /\ IF sentBytes = fileSize THEN EndSession("Complete") ELSE UNCHANGED ended
    /\ body' = body \o output
    /\ output' = <<>>
    /\ reader' = IF reader = "last" THEN "end" ELSE "loop"
    /\ UNCHANGED <<stateVars, handlerVars, seen, orders, socket, wire,
                   remoteVars>>

\* Mutant of ChunkTimeout: the stream waits for a chunk without a timer.
NoChunkTimeout ==
    /\ reader = "recv" /\ chunks = <<>> /\ ~socket /\ failed
    /\ EndSession("ChunkTimeout")
    /\ reader' = "end"
    /\ UNCHANGED <<stateVars, handlerVars, output, seen, body, orders, socket,
                   wire, remoteVars>>

\* No chunk for CLIENT_TIMEOUT_SECONDS: the client gets an error.
ChunkTimeout ==
    /\ reader = "recv" /\ chunks = <<>>
    /\ EndSession("ChunkTimeout")
    /\ reader' = "end"
    /\ UNCHANGED <<stateVars, handlerVars, output, seen, body, orders, socket,
                   wire, remoteVars>>

\* After the loop: whatever is missing ends the session in an error.
EndStream ==
    /\ reader = "end"
    /\ IF sentBytes < fileSize THEN EndSession("FileError") ELSE UNCHANGED ended
    /\ reader' = "done"
    /\ UNCHANGED <<stateVars, handlerVars, output, seen, body, orders, socket,
                   wire, remoteVars>>

\* The client goes away: the handler is dropped at an await, with its guard,
\* or the body is dropped, which triggers nothing.
ClientLeaves ==
    /\ \/ reader = "asleep" /\ EndSession("ResponseError")
       \/ reader \in {"recv", "resume", "yield", "last"} /\ UNCHANGED ended
    /\ reader' = "gone"
    /\ UNCHANGED <<stateVars, handlerVars, output, seen, body, orders, socket,
                   wire, remoteVars>>

-----------------------------------------------------------------------------
(* The remote cluster (external), and the delivery of PAUSE and RESUME     *)

RemoteSends(m) ==
    /\ socket /\ Len(wire) < MaxWire
    /\ wire' = Append(wire, m)
    /\ UNCHANGED <<stateVars, handlerVars, readerVars, orders, socket>>

\* FILE_DETAILS is sent once, and counts; the file may change before it has been read.
RemoteDetails(n) ==
    /\ ~declared
    /\ RemoteSends(Details(n))
    /\ declared' = TRUE
    /\ UNCHANGED <<offset, halted>>

RemoteChunk(n) ==
    /\ ~halted /\ offset + n <= MaxSize
    /\ RemoteSends(Chunk([i \in 1..n |-> offset + i]))
    /\ offset' = offset + n
    /\ UNCHANGED <<declared, halted>>

RemoteFault ==
    /\ RemoteSends(Fault)
    /\ \A i \in 1..Len(wire) : wire[i] # Fault
    /\ UNCHANGED remoteVars

\* The scheduler sends from one of the two sources, and the remote cluster
\* obeys: a RESUME may overtake the PAUSE before it.
Obeys(order) ==
    /\ orders[order] > 0
    /\ orders' = [orders EXCEPT ![order] = @ - 1]
    /\ UNCHANGED <<stateVars, handlerVars, readerVars, socket, wire, declared,
                   offset>>

DeliverPause == Obeys("pause") /\ halted' = TRUE

DeliverResume == Obeys("resume") /\ halted' = FALSE

-----------------------------------------------------------------------------
(* The specification                                                       *)

Handle ==
    \/ TakeChunk \/ CountChunk \/ PushChunk \/ CheckBuffer \/ MarkPaused
    \/ QueuePause \/ FinishChunk \/ TakeDetails \/ TakeFault

Respond ==
    \/ CheckReady \/ WakeUp \/ AnswerTimeout \/ Evaluate
    \/ TestLoop \/ ReceiveChunk \/ LoadReceived \/ ExchangePaused \/ QueueResume
    \/ YieldChunk \/ ChunkTimeout \/ EndStream

Remote ==
    \/ \E n \in 0..MaxSize : RemoteDetails(n)
    \/ \E n \in ChunkSizes : RemoteChunk(n)
    \/ RemoteFault

StreamNext ==
    \/ Handle \/ Respond \/ Remote
    \/ DeliverPause \/ DeliverResume \/ CloseSocket \/ ClientLeaves

StreamSpec == StreamInit /\ [][StreamNext]_streamVars

\* The client keeps reading and the timers run, so that the handler and the
\* stream are scheduled; nothing is assumed of the remote cluster.
StreamFairness == WF_streamVars(Respond)

FairStreamSpec == StreamSpec /\ StreamFairness

-----------------------------------------------------------------------------
(* Properties                                                              *)

\* The body is the file from its first byte on, without a gap, a repetition
\* or a byte beyond the Content-Length, whatever the remote cluster sends
\* after its FILE_DETAILS: download_file slices the chunk that overshoots.
\* And a session that ends as Complete has the whole file in the hands of the
\* client, but for the chunk the stream is about to yield: no race of the
\* triggers of the stream, the timers and the socket reports a short body as
\* complete.
BodyIsFile ==
    /\ body = [i \in 1..Len(body) |-> i]
    /\ Len(body) <= fileSize
    /\ ended = "Complete" => Len(body) + Len(output) = fileSize

\* Whoever sleeps in wait_until_data_ready while there is something to be
\* told has a wake-up under way, so that only a silent remote cluster runs
\* into the timeout.
ReadyNotMissed == reader = "asleep" /\ dataReady => wakeup

\* received_bytes - sent_bytes, which decides on PAUSE and RESUME, is what
\* the channel holds, with the chunk that handle_file_chunk has counted and
\* not yet pushed: the bytes in the channel are those between the two
\* counters, and these are never out by more than that chunk, however the two
\* sides interleave.
BufferAccounted ==
    sentBytes < fileSize =>
       UNION {{chunks[i][k] : k \in 1..Len(chunks[i])} : i \in 1..Len(chunks)}
          = (sentBytes + 1)..(received - IF handler = "push" THEN Len(inHand) ELSE 0)

\* Back-pressure, file.rs:577-579: "Synchronized via compare_exchange to
\* prevent races with the WS-side PAUSE logic".  It does not happen that the
\* remote cluster is paused for good while the stream waits for a chunk with
\* nothing left to drain.
NoStall ==
    ~ /\ socket /\ halted /\ orders = NoOrders
      /\ wire = <<>> /\ handler = "idle"
      /\ reader = "recv" /\ chunks = <<>>

\* Every request is answered and every stream ends, also when the remote
\* cluster falls silent, is paused for good or loses its socket.  (Each chunk
\* starts the timer anew: a remote cluster that sends chunks without bytes
\* for ever, 0 in ChunkSizes, would keep the stream.)
StreamEnds == reader = "wait" ~> reader \in {"refused", "done", "gone"}

=============================================================================
