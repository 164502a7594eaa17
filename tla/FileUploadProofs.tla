--------------------------- MODULE FileUploadProofs ---------------------------
(***************************************************************************)
(* Proofs about FileUpload for any number of connections, chunks, and any  *)
(* buffer sizes.                                                           *)
(***************************************************************************)
EXTENDS FileUpload, TLAPS

-----------------------------------------------------------------------------
(* The inductive invariant                                                 *)

\* Once remove_file_upload has returned, nothing admits a connection.
ClosedInv ==
    /\ put \in {"close", "failed"} => ~entry /\ Unguarded
    /\ put = "failed" => sender = NoUploadConn

\* Where upload_file is in the body
Filling == {"body", "drain", "draining", "check chunk", "chunk"}
Filled  == {"drain all", "check empty", "complete"}
Asked   == {"confirm", "confirming", "check end"}
Early   == {"none", "start", "admitted", "created", "asked", "wait", "asleep",
            "check ready"}

\* The body is not begun before the remote cluster is ready, and COMPLETE is
\* not queued before the whole of it.
BodyInv ==
    /\ totalRead <= length
    /\ put \in Early \cup {"body"} => totalRead = 0
    /\ put \in Filling \ {"body"} => totalRead < length
    /\ put \in Filled \cup Asked => totalRead = length
    /\ put = "check ready" => ready \/ uploadError
    /\ ~ready => put \notin Filling \cup Filled \cup Asked

HasComplete(c) == \E i \in 1..Len(got[c]) : got[c][i] = Complete

Delivered == \E c \in UploadConns : HasComplete(c)

\* The chunks that are queued are the last ones, in order, behind the one the
\* scheduler holds.
ChunksInv ==
    /\ Len(lowest) <= totalRead
    /\ \A i \in 1..Len(lowest) : lowest[i] = totalRead - Len(lowest) + i
    /\ held \notin {Nothing, Complete} => held = totalRead - Len(lowest)

\* COMPLETE is in one place only, with no chunk behind it.
CompleteInv ==
    /\ put \in {"check empty", "complete"} => lowest = <<>>
    /\ put \in Early \cup Filling \cup Filled =>
          highest = <<>> /\ held # Complete /\ ~Delivered
    /\ highest # <<>> =>
          /\ highest = <<Complete>> /\ lowest = <<>> /\ totalRead = length
          /\ held # Complete /\ ~Delivered
    /\ held = Complete =>
          highest = <<>> /\ lowest = <<>> /\ totalRead = length /\ ~Delivered
    /\ Delivered =>
          highest = <<>> /\ lowest = <<>> /\ held = Nothing /\ totalRead = length

\* Nothing is queued before a connection has answered.
QuietInv == ~ready => totalRead = 0 /\ highest = <<>> /\ held = Nothing

\* No other connection was admitted.
Alone(c) == \A d \in UploadConns \ {c} : peer[d] \in {"idle", "rejected"}

\* What is queued goes to c.
Live(c) == sender = c /\ peer[c] \in {"installed", "open"}

\* The chunks that have left the queue
Gone == IF held \in {Nothing, Complete} THEN totalRead - Len(lowest) ELSE held - 1

\* A single connection is handed what leaves the queue for as long as it is
\* there, and the body is not begun before it is.
GotOf(c) ==
    /\ peer[c] \in {"idle", "checked", "rejected"} => got[c] = <<>>
    /\ Alone(c) /\ HasComplete(c) =>
          /\ Len(got[c]) = length + 1 /\ got[c][length + 1] = Complete
          /\ \A i \in 1..length : got[c][i] = i
    /\ Alone(c) /\ ~HasComplete(c) /\ Live(c) =>
          Len(got[c]) = Gone /\ \A i \in 1..Gone : got[c][i] = i

GotInv ==
    /\ ready => \E d \in UploadConns :
                   peer[d] \in {"open", "detaching", "removing", "closed"}
    /\ \A c \in UploadConns : GotOf(c)

UploadInv ==
    /\ UploadTypeOK /\ ClosedInv /\ BodyInv
    /\ ChunksInv /\ CompleteInv /\ QuietInv /\ GotInv

USE DEF putVars, flagVars, queueVars, socketVars, PutGoto, PeerGoto

-----------------------------------------------------------------------------
(* Sequences                                                               *)

\* Head and tail of a sequence.
LEMMA TakenFromSeq ==
    ASSUME NEW S, NEW s \in Seq(S), s # <<>>
    PROVE  /\ Head(s) \in S /\ Head(s) = s[1] /\ Len(s) \in Nat \ {0}
           /\ Tail(s) \in Seq(S) /\ Len(Tail(s)) = Len(s) - 1
           /\ \A i \in 1..Len(Tail(s)) : Tail(s)[i] = s[i + 1]
  OBVIOUS

\* The elements after an append.
LEMMA AddedToSeq ==
    ASSUME NEW S, NEW s \in Seq(S), NEW e \in S
    PROVE  /\ Append(s, e) \in Seq(S) /\ Len(Append(s, e)) = Len(s) + 1
           /\ \A i \in 1..Len(s) : Append(s, e)[i] = s[i]
           /\ Append(s, e)[Len(s) + 1] = e
  OBVIOUS

-----------------------------------------------------------------------------
(* Types                                                                   *)

\* The steps of upload_file that only go somewhere else
LEMMA GotoType ==
    ASSUME UploadTypeOK, put' \in PutSteps,
           UNCHANGED <<length, totalRead, entry, asked, stopping, flagVars,
                       queueVars, socketVars>>
    PROVE  UploadTypeOK'
  BY DEF UploadTypeOK

\* What upload_file does keeps the types: QueueChunk is where the count of
\* chunks meets its bound.
LEMMA PutType ==
    ASSUME UploadTypeOK, BodyInv, Put
    PROVE  UploadTypeOK'
<1>1. CASE Enter
  <2>1. put' \in PutSteps
    BY <1>1 DEF Enter, PutSteps
  <2> QED
    BY <1>1, <2>1, GotoType DEF Enter
<1>2. CASE CreateUpload
  BY <1>2 DEF CreateUpload, UploadTypeOK, PutSteps
<1>3. CASE AskUpload
  BY <1>3 DEF AskUpload, UploadTypeOK, PutSteps
<1>4. CASE LookupUpload
  <2>1. put' \in PutSteps
    BY <1>4 DEF LookupUpload, PutSteps
  <2> QED
    BY <1>4, <2>1, GotoType DEF LookupUpload
<1>5. CASE CheckUploadReady
  <2>1. put' \in PutSteps
    BY <1>5 DEF CheckUploadReady, PutSteps
  <2> QED
    BY <1>5, <2>1, GotoType DEF CheckUploadReady
<1>6. CASE UploadWakes
  BY <1>6 DEF UploadWakes, UploadTypeOK, PutSteps
<1>7. CASE ReadyTimeout
  BY <1>7 DEF ReadyTimeout, UploadTypeOK, PutSteps
<1>8. CASE CheckUploadError
  <2>1. put' \in PutSteps
    BY <1>8 DEF CheckUploadError, PutSteps
  <2> QED
    BY <1>8, <2>1, GotoType DEF CheckUploadError
<1>9. CASE ReadBody
  <2>1. put' \in PutSteps
    BY <1>9 DEF ReadBody, PutSteps
  <2> QED
    BY <1>9, <2>1, GotoType DEF ReadBody
<1>10. CASE Drain
  <2>1. put' \in PutSteps
    BY <1>10 DEF Drain, PutSteps
  <2> QED
    BY <1>10, <2>1, GotoType DEF Drain
<1>11. CASE DrainAll
  <2>1. put' \in PutSteps
    BY <1>11 DEF DrainAll, PutSteps
  <2> QED
    BY <1>11, <2>1, GotoType DEF DrainAll
<1>12. CASE QueueChunk
  <2>1. totalRead + 1 \in 0..MaxChunks
    <3>1. put \in Filling \ {"body"}
      BY <1>12 DEF QueueChunk, Filling
    <3>2. totalRead < length
      BY <3>1 DEF BodyInv
    <3> QED
      BY <3>2, ChunksAssumption DEF UploadTypeOK
  <2>2. totalRead + 1 \in Payloads
    BY <2>1, ChunksAssumption DEF Payloads, Complete, UploadTypeOK
  <2>3. lowest' \in Seq(Payloads)
    BY <1>12, <2>2, AddedToSeq DEF QueueChunk, UploadTypeOK
  <2>4. put' \in PutSteps
    BY <1>12 DEF QueueChunk, PutSteps
  <2> QED
    BY <1>12, <2>1, <2>3, <2>4 DEF QueueChunk, UploadTypeOK
<1>13. CASE QueueComplete
  <2>1. highest' \in Seq(Payloads)
    BY <1>13, ChunksAssumption DEF QueueComplete, UploadTypeOK, Payloads, Complete
  <2> QED
    BY <1>13, <2>1 DEF QueueComplete, UploadTypeOK, PutSteps
<1>14. CASE ConfirmTimeout
  BY <1>14 DEF ConfirmTimeout, UploadTypeOK, PutSteps
<1>15. CASE RemoveUpload
  BY <1>15 DEF RemoveUpload, UploadTypeOK, PutSteps
<1>16. CASE CloseUpload
  BY <1>16 DEF CloseUpload, TellSender, UploadTypeOK, PutSteps
<1> QED
  BY <1>1, <1>2, <1>3, <1>4, <1>5, <1>6, <1>7, <1>8, <1>9, <1>10, <1>11,
     <1>12, <1>13, <1>14, <1>15, <1>16 DEF Put

\* The scheduler, a client that leaves and shutdown keep the types.
LEMMA OtherType ==
    ASSUME UploadTypeOK, Schedule \/ DropUpload \/ BeginShutdown
    PROVE  UploadTypeOK'
<1>1. CASE TakeQueued
  <2>1. /\ lowest' \in Seq(Payloads) /\ highest' \in Seq(Payloads)
        /\ held' \in Payloads
    BY <1>1, TakenFromSeq DEF TakeQueued, UploadTypeOK
  <2> QED
    BY <1>1, <2>1 DEF TakeQueued, UploadTypeOK
<1>2. CASE SendHeld
  <2>1. CASE got' = got
    BY <1>2, <2>1 DEF SendHeld, UploadTypeOK
  <2>2. CASE got' # got
    <3>1. /\ sender \in UploadConns /\ held \in Payloads
          /\ got' = [got EXCEPT ![sender] = Append(@, held)]
      BY <1>2, <2>2 DEF SendHeld, UploadTypeOK
    <3>2. Append(got[sender], held) \in Seq(Payloads)
      BY <3>1 DEF UploadTypeOK
    <3>3. got' \in [UploadConns -> Seq(Payloads)]
      BY <3>1, <3>2 DEF UploadTypeOK
    <3> QED
      BY <1>2, <3>3 DEF SendHeld, UploadTypeOK
  <2> QED
    BY <2>1, <2>2
<1>3. CASE DropUpload
  BY <1>3 DEF DropUpload, UploadTypeOK, PutSteps
<1>4. CASE BeginShutdown
  BY <1>4 DEF BeginShutdown, UploadTypeOK
<1> QED
  BY <1>1, <1>2, <1>3, <1>4 DEF Schedule

\* A step of the handler of connection c
PeerStep(c) == Admit(c) \/ ReceiveAnswer(c) \/ LeaveUpload(c) \/ RemovePeer(c)

\* The steps of a connection keep the types.
LEMMA PeerType ==
    ASSUME UploadTypeOK, NEW c \in UploadConns, PeerStep(c)
    PROVE  UploadTypeOK'
<1> USE DEF UploadTypeOK, PeerSteps
<1>1. CASE AdmitUpload(c)
  BY <1>1 DEF AdmitUpload
<1>2. CASE InstallUpload(c)
  BY <1>2 DEF InstallUpload
<1>3. CASE RegisterUpload(c)
  BY <1>3 DEF RegisterUpload
<1>4. CASE ReceiveAnswer(c)
  BY <1>4 DEF ReceiveAnswer
<1>5. CASE LeaveUpload(c)
  BY <1>5 DEF LeaveUpload
<1>6. CASE DetachUpload(c)
  BY <1>6 DEF DetachUpload, TellSender
<1>7. CASE ForgetUpload(c)
  BY <1>7 DEF ForgetUpload
<1> QED
  BY <1>1, <1>2, <1>3, <1>4, <1>5, <1>6, <1>7 DEF PeerStep, Admit, RemovePeer

-----------------------------------------------------------------------------
(* The end of a failed upload                                              *)

\* The steps of upload_file that neither reach nor leave its failing end
LEMMA ClosedGoto ==
    ASSUME put' \notin {"close", "failed"}
    PROVE  ClosedInv'
  BY DEF ClosedInv

\* upload_file keeps what is known of closed sessions.
LEMMA ClosedPut ==
    ASSUME UploadTypeOK, ClosedInv, Put
    PROVE  ClosedInv'
<1>1. CASE RemoveUpload
  <2>1. CASE put = "remove, close"
    BY <1>1, <2>1 DEF RemoveUpload, ClosedInv, Unguarded
  <2>2. CASE put # "remove, close"
    <3>1. put' \in {"timed out", "done"}
      BY <1>1, <2>2 DEF RemoveUpload
    <3> QED
      BY <3>1, ClosedGoto
  <2> QED
    BY <2>1, <2>2
<1>2. CASE CloseUpload
  <2>1. CASE put = "close"
    <3>1. put' = "failed" /\ sender' = NoUploadConn /\ UNCHANGED <<entry, peer>>
      BY <1>2, <2>1 DEF CloseUpload, TellSender
    <3> QED
      BY <2>1, <3>1 DEF ClosedInv, Unguarded
  <2>2. CASE put # "close"
    <3>1. put' = "remove"
      BY <1>2, <2>2 DEF CloseUpload
    <3> QED
      BY <3>1, ClosedGoto
  <2> QED
    BY <2>1, <2>2
<1>3. ASSUME ~RemoveUpload, ~CloseUpload
      PROVE  put' \notin {"close", "failed"}
  BY <1>3 DEF Put, Enter, CreateUpload, AskUpload, LookupUpload, CheckUploadReady,
     UploadWakes, ReadyTimeout, CheckUploadError, ReadBody, Drain, DrainAll,
     QueueChunk, QueueComplete, ConfirmTimeout
<1> QED
  BY <1>1, <1>2, <1>3, ClosedGoto

\* The scheduler, a client that leaves and shutdown keep what is known of
\* closed sessions.
LEMMA ClosedOther ==
    ASSUME UploadTypeOK, ClosedInv, Schedule \/ DropUpload \/ BeginShutdown
    PROVE  ClosedInv'
<1>1. CASE Schedule
  BY <1>1 DEF Schedule, TakeQueued, SendHeld, ClosedInv, Unguarded
<1>2. CASE DropUpload
  BY <1>2, ClosedGoto DEF DropUpload
<1>3. CASE BeginShutdown
  BY <1>3 DEF BeginShutdown, ClosedInv, Unguarded
<1> QED
  BY <1>1, <1>2, <1>3

\* remove_file_upload has waited for the admissions under way, and there is
\* no entry to admit another.
LEMMA ClosedPeer ==
    ASSUME UploadTypeOK, ClosedInv, NEW c \in UploadConns, PeerStep(c)
    PROVE  ClosedInv'
<1> USE DEF UploadTypeOK, ClosedInv, Unguarded
<1>1. CASE AdmitUpload(c)
  BY <1>1 DEF AdmitUpload
<1>2. CASE InstallUpload(c)
  BY <1>2 DEF InstallUpload
<1>3. CASE RegisterUpload(c)
  BY <1>3 DEF RegisterUpload
<1>4. CASE ReceiveAnswer(c)
  BY <1>4 DEF ReceiveAnswer
<1>5. CASE LeaveUpload(c)
  BY <1>5 DEF LeaveUpload
<1>6. CASE DetachUpload(c)
  BY <1>6 DEF DetachUpload, TellSender
<1>7. CASE ForgetUpload(c)
  BY <1>7 DEF ForgetUpload
<1> QED
  BY <1>1, <1>2, <1>3, <1>4, <1>5, <1>6, <1>7 DEF PeerStep, Admit, RemovePeer

-----------------------------------------------------------------------------
(* The body                                                                *)

\* upload_file keeps its place in the body.
LEMMA BodyPut ==
    ASSUME UploadTypeOK, BodyInv, Put
    PROVE  BodyInv'
<1> USE DEF Early, Filling, Filled, Asked
<1>0. length \in Nat /\ totalRead \in Nat
  BY DEF UploadTypeOK
<1>1. CASE Enter
  BY <1>1 DEF Enter, BodyInv
<1>2. CASE CreateUpload
  BY <1>2 DEF CreateUpload, BodyInv
<1>3. CASE AskUpload
  BY <1>3 DEF AskUpload, BodyInv
<1>4. CASE LookupUpload
  BY <1>4 DEF LookupUpload, BodyInv
<1>5. CASE CheckUploadReady
  BY <1>5 DEF CheckUploadReady, BodyInv
<1>6. CASE UploadWakes
  BY <1>6 DEF UploadWakes, BodyInv
<1>7. CASE ReadyTimeout
  BY <1>7 DEF ReadyTimeout, BodyInv
<1>8. CASE CheckUploadError
  BY <1>8 DEF CheckUploadError, BodyInv
<1>9. CASE ReadBody
  <2>1. totalRead = 0 /\ ready
    BY <1>9 DEF ReadBody, BodyInv
  <2>2. /\ put' \in {"drain all", "drain", "remove, close"}
        /\ put' = "drain all" => length = 0
        /\ put' = "drain" => length # 0
        /\ UNCHANGED <<length, totalRead, ready>>
    BY <1>9 DEF ReadBody
  <2>3. 0 <= length /\ (length # 0 => 0 < length)
    BY <1>0
  <2> QED
    BY <2>1, <2>2, <2>3 DEF BodyInv
<1>10. CASE Drain
  BY <1>10 DEF Drain, BodyInv
<1>11. CASE DrainAll
  BY <1>11 DEF DrainAll, BodyInv
<1>12. CASE QueueChunk
  <2>1. totalRead < length /\ ready
    BY <1>12 DEF QueueChunk, BodyInv
  <2>2. /\ put' \in {"drain all", "drain"}
        /\ put' = "drain" => totalRead' < length
        /\ put' = "drain all" => ~(totalRead' < length)
        /\ totalRead' = totalRead + 1 /\ UNCHANGED <<length, ready>>
    BY <1>12 DEF QueueChunk
  <2>3. totalRead' <= length /\ (~(totalRead' < length) => totalRead' = length)
    <3>1. totalRead' = totalRead + 1 /\ totalRead < length
      BY <2>1, <2>2
    <3> QED
      BY <1>0, <3>1
  <2> QED
    BY <2>1, <2>2, <2>3 DEF BodyInv
<1>13. CASE QueueComplete
  BY <1>13 DEF QueueComplete, BodyInv
<1>14. CASE ConfirmTimeout
  BY <1>14 DEF ConfirmTimeout, BodyInv
<1>15. CASE RemoveUpload
  BY <1>15 DEF RemoveUpload, BodyInv
<1>16. CASE CloseUpload
  BY <1>16 DEF CloseUpload, BodyInv
<1> QED
  BY <1>1, <1>2, <1>3, <1>4, <1>5, <1>6, <1>7, <1>8, <1>9, <1>10, <1>11,
     <1>12, <1>13, <1>14, <1>15, <1>16 DEF Put

\* No other party changes the place of upload_file in the body.
LEMMA BodyOther ==
    ASSUME UploadTypeOK, BodyInv,
           Schedule \/ DropUpload \/ BeginShutdown
              \/ \E c \in UploadConns : PeerStep(c)
    PROVE  BodyInv'
<1> USE DEF Early, Filling, Filled, Asked, BodyInv
<1>1. CASE Schedule
  BY <1>1 DEF Schedule, TakeQueued, SendHeld
<1>2. CASE DropUpload
  BY <1>2 DEF DropUpload
<1>3. CASE BeginShutdown
  BY <1>3 DEF BeginShutdown
<1>4. ASSUME NEW c \in UploadConns, PeerStep(c)
      PROVE  BodyInv'
  <2>1. CASE ReceiveAnswer(c)
    BY <2>1 DEF ReceiveAnswer
  <2>2. CASE ~ReceiveAnswer(c)
    BY <1>4, <2>2 DEF PeerStep, Admit, AdmitUpload, InstallUpload, RegisterUpload,
       LeaveUpload, RemovePeer, DetachUpload, ForgetUpload
  <2> QED
    BY <2>1, <2>2
<1> QED
  BY <1>1, <1>2, <1>3, <1>4

-----------------------------------------------------------------------------
(* The queue                                                               *)

\* The chunks under way depend on few variables.
LEMMA ChunksFrame ==
    ASSUME ChunksInv, UNCHANGED <<totalRead, lowest, held>>
    PROVE  ChunksInv'
  BY DEF ChunksInv, Complete

\* A queued chunk is the next one of the body.
LEMMA ChunksQueue ==
    ASSUME UploadTypeOK, ChunksInv, QueueChunk, totalRead' \in 0..MaxChunks
    PROVE  ChunksInv'
<1>1. /\ totalRead' = totalRead + 1 /\ held' = held
      /\ lowest' = Append(lowest, totalRead + 1)
  BY DEF QueueChunk
<1>2. totalRead \in Nat /\ lowest \in Seq(Payloads)
  BY DEF UploadTypeOK
<1>3. totalRead + 1 \in Payloads
  BY <1>1, <1>2, ChunksAssumption DEF Payloads, Complete
<1>4. /\ Len(lowest') = Len(lowest) + 1
      /\ \A i \in 1..Len(lowest) : lowest'[i] = lowest[i]
      /\ lowest'[Len(lowest) + 1] = totalRead + 1
  BY <1>1, <1>2, <1>3, AddedToSeq
<1>5. Len(lowest) \in Nat /\ totalRead' - Len(lowest') = totalRead - Len(lowest)
  BY <1>1, <1>2, <1>4
<1>6. ASSUME NEW i \in 1..Len(lowest')
      PROVE  lowest'[i] = totalRead' - Len(lowest') + i
  <2>1. CASE i \in 1..Len(lowest)
    BY <1>4, <1>5, <2>1 DEF ChunksInv
  <2>2. CASE i \notin 1..Len(lowest)
    <3>1. i = Len(lowest) + 1
      BY <1>4, <1>5, <2>2
    <3> QED
      BY <1>1, <1>2, <1>4, <1>5, <3>1
  <2> QED
    BY <2>1, <2>2
<1>7. Len(lowest') <= totalRead'
  BY <1>1, <1>2, <1>4, <1>5 DEF ChunksInv
<1> QED
  BY <1>1, <1>5, <1>6, <1>7 DEF ChunksInv, Complete

\* The scheduler takes the oldest chunk.
LEMMA ChunksTake ==
    ASSUME UploadTypeOK, ChunksInv, CompleteInv, TakeQueued
    PROVE  ChunksInv'
<1>1. totalRead \in Nat /\ lowest \in Seq(Payloads) /\ UNCHANGED totalRead
  BY DEF UploadTypeOK, TakeQueued
<1>2. CASE /\ lowest # <<>> /\ held' = Head(lowest) /\ lowest' = Tail(lowest)
  <2>1. /\ held' = lowest[1] /\ Len(lowest) \in Nat \ {0}
        /\ Len(lowest') = Len(lowest) - 1
        /\ \A i \in 1..Len(lowest') : lowest'[i] = lowest[i + 1]
    BY <1>1, <1>2, TakenFromSeq
  <2>2. held' = totalRead' - Len(lowest')
    <3>1. lowest[1] = totalRead - Len(lowest) + 1
      BY <2>1 DEF ChunksInv
    <3> QED
      BY <1>1, <2>1, <3>1
  <2>3. ASSUME NEW i \in 1..Len(lowest')
        PROVE  lowest'[i] = totalRead' - Len(lowest') + i
    <3>1. i + 1 \in 1..Len(lowest)
      BY <2>1
    <3>2. lowest[i + 1] = totalRead - Len(lowest) + (i + 1)
      BY <3>1 DEF ChunksInv
    <3> QED
      BY <1>1, <2>1, <3>2
  <2>4. Len(lowest') <= totalRead'
    BY <1>1, <2>1 DEF ChunksInv
  <2> QED
    BY <2>2, <2>3, <2>4 DEF ChunksInv
<1>3. CASE /\ highest # <<>> /\ held' = Head(highest) /\ UNCHANGED lowest
  <2>1. held' = Complete
    BY <1>3 DEF CompleteInv
  <2> QED
    BY <1>1, <1>3, <2>1 DEF ChunksInv, Complete
<1> QED
  BY <1>2, <1>3 DEF TakeQueued

\* Sending lets go of the chunk in hand.
LEMMA ChunksSend ==
    ASSUME ChunksInv, SendHeld
    PROVE  ChunksInv'
  BY DEF ChunksInv, SendHeld, Complete, Nothing

\* COMPLETE is as far as it was when upload_file does not come near it.
LEMMA CompleteFrame ==
    ASSUME CompleteInv, UNCHANGED <<length, totalRead, queueVars>>,
           put' \in {"check empty", "complete"} => lowest = <<>>,
           put' \in Early \cup Filling \cup Filled =>
              put \in Early \cup Filling \cup Filled
    PROVE  CompleteInv'
<1>1. (\A c \in UploadConns : HasComplete(c)' <=> HasComplete(c))
      /\ Complete' = Complete
  BY DEF HasComplete, Complete
<1>2. Delivered' <=> Delivered
  BY <1>1 DEF Delivered
<1>3. /\ highest' = highest /\ lowest' = lowest /\ held' = held
      /\ totalRead' = totalRead /\ length' = length
  OBVIOUS
<1> QED
  BY <1>1, <1>2, <1>3 DEF CompleteInv, Early, Filling, Filled, Nothing

\* wait_for_queue_drain(true) is what keeps COMPLETE behind the chunks.
LEMMA CompletePut ==
    ASSUME UploadTypeOK, BodyInv, CompleteInv, Put
    PROVE  CompleteInv'
<1> USE DEF Early, Filling, Filled
<1>1. CASE DrainAll
  <2>1. put' = "check empty" => lowest = <<>>
    <3>1. put' = "check empty" => Len(lowest) + Len(highest) = 0
      BY <1>1 DEF DrainAll, Queued
    <3>2. lowest \in Seq(Payloads) /\ highest \in Seq(Payloads)
      BY DEF UploadTypeOK
    <3>3. ASSUME Len(lowest) + Len(highest) = 0
          PROVE  lowest = <<>>
      BY <3>2, <3>3
    <3> QED
      BY <3>1, <3>3
  <2> QED
    BY <1>1, <2>1, CompleteFrame DEF DrainAll
<1>2. CASE CheckUploadError
  <2>1. put' \in {"check empty", "complete"} => lowest = <<>>
    BY <1>2 DEF CheckUploadError, CompleteInv
  <2>2. put' \in Early \cup Filling \cup Filled => put \in Early \cup Filling \cup Filled
    BY <1>2 DEF CheckUploadError
  <2> QED
    BY <1>2, <2>1, <2>2, CompleteFrame DEF CheckUploadError
<1>3. CASE QueueChunk
  <2>1. put' \in {"drain", "drain all"} /\ UNCHANGED <<highest, held, got>>
    BY <1>3 DEF QueueChunk
  <2>2. highest = <<>> /\ held # Complete /\ ~Delivered
    BY <1>3 DEF QueueChunk, CompleteInv
  <2>3. highest' = <<>> /\ held' # Complete' /\ ~Delivered'
    BY <2>1, <2>2 DEF Delivered, HasComplete, Complete
  <2> QED
    BY <2>1, <2>3 DEF CompleteInv
<1>4. CASE QueueComplete
  <2>1. /\ put' = "confirm" /\ highest' = Append(highest, Complete)
        /\ UNCHANGED <<length, totalRead, lowest, held, got>>
    BY <1>4 DEF QueueComplete
  <2>2. highest = <<>> /\ lowest = <<>> /\ held # Complete /\ ~Delivered
    BY <1>4 DEF QueueComplete, CompleteInv
  <2>3. totalRead = length
    BY <1>4 DEF QueueComplete, BodyInv
  <2>4. highest' = <<Complete>>
    BY <2>1, <2>2
  <2>5. ~Delivered' /\ Complete' = Complete /\ held' # Complete
    BY <2>1, <2>2 DEF Delivered, HasComplete, Complete
  <2> QED
    BY <2>1, <2>2, <2>3, <2>4, <2>5 DEF CompleteInv
<1>5. ASSUME ~DrainAll, ~CheckUploadError, ~QueueChunk, ~QueueComplete
      PROVE  CompleteInv'
  <2>1. UNCHANGED <<length, totalRead, queueVars>>
    BY <1>5 DEF Put, Enter, CreateUpload, AskUpload, LookupUpload, CheckUploadReady,
       UploadWakes, ReadyTimeout, ReadBody, Drain, ConfirmTimeout, RemoveUpload,
       CloseUpload
  <2>2. /\ put' \notin {"check empty", "complete"}
        /\ put' \in Early \cup Filling \cup Filled =>
              put \in Early \cup Filling \cup Filled
    BY <1>5 DEF Put, Enter, CreateUpload, AskUpload, LookupUpload, CheckUploadReady,
       UploadWakes, ReadyTimeout, ReadBody, Drain, ConfirmTimeout, RemoveUpload,
       CloseUpload
  <2> QED
    BY <2>1, <2>2, CompleteFrame
<1> QED
  BY <1>1, <1>2, <1>3, <1>4, <1>5

\* A chunk is never mistaken for COMPLETE.
LEMMA ChunkNumber ==
    ASSUME UploadTypeOK, ChunksInv, lowest # <<>>
    PROVE  Head(lowest) # Complete
<1>1. /\ totalRead \in 0..MaxChunks /\ lowest \in Seq(Payloads)
  BY DEF UploadTypeOK
<1>2. Head(lowest) = lowest[1] /\ Len(lowest) \in Nat \ {0}
  BY <1>1, TakenFromSeq
<1>3. lowest[1] = totalRead - Len(lowest) + 1
  BY <1>2 DEF ChunksInv
<1> QED
  BY <1>1, <1>2, <1>3, ChunksAssumption DEF Complete

\* The scheduler takes COMPLETE, or a chunk before it is queued.
LEMMA CompleteTake ==
    ASSUME UploadTypeOK, ChunksInv, CompleteInv, TakeQueued
    PROVE  CompleteInv'
<1>1. UNCHANGED <<put, length, totalRead, got>>
  BY DEF TakeQueued
<1>2. (Delivered' <=> Delivered) /\ Complete' = Complete
  BY <1>1 DEF Delivered, HasComplete, Complete
<1>3. CASE /\ lowest # <<>> /\ held' = Head(lowest) /\ UNCHANGED highest
  <2>1. highest = <<>> /\ ~Delivered /\ put \notin {"check empty", "complete"}
    BY <1>3 DEF CompleteInv
  <2>2. held' # Complete
    BY <1>3, ChunkNumber
  <2> QED
    BY <1>1, <1>2, <1>3, <2>1, <2>2 DEF CompleteInv
<1>4. CASE /\ highest # <<>> /\ held' = Head(highest) /\ highest' = Tail(highest)
           /\ UNCHANGED lowest
  <2>1. /\ highest = <<Complete>> /\ lowest = <<>> /\ totalRead = length
        /\ ~Delivered /\ put \notin Early \cup Filling \cup Filled
    BY <1>4 DEF CompleteInv
  <2>2. held' = Complete /\ highest' = <<>>
    BY <1>4, <2>1
  <2> QED
    BY <1>1, <1>2, <1>4, <2>1, <2>2 DEF CompleteInv, Early, Filling, Filled
<1> QED
  BY <1>3, <1>4 DEF TakeQueued

\* A connection is only handed COMPLETE where the scheduler holds it.
LEMMA CompleteSend ==
    ASSUME UploadTypeOK, CompleteInv, SendHeld
    PROVE  CompleteInv'
<1>1. /\ held # Nothing /\ held' = Nothing
      /\ UNCHANGED <<put, length, totalRead, lowest, highest>>
  BY DEF SendHeld
<1>2. ~Delivered /\ Complete' = Complete /\ held' # Complete
  <2>1. ~Delivered
    BY <1>1 DEF CompleteInv
  <2>2. Complete' = Complete /\ Nothing # Complete
    BY ChunksAssumption DEF Complete, Nothing
  <2> QED
    BY <1>1, <2>1, <2>2
<1>3. CASE held = Complete
  BY <1>1, <1>2, <1>3 DEF CompleteInv, Early, Filling, Filled
<1>4. CASE held # Complete
  <2>1. ASSUME NEW c \in UploadConns
        PROVE  ~HasComplete(c)'
    <3>1. ~HasComplete(c) /\ got[c] \in Seq(Payloads)
      BY <1>2 DEF Delivered, UploadTypeOK
    <3>2. CASE got'[c] = got[c]
      BY <1>2, <3>1, <3>2 DEF HasComplete
    <3>3. CASE got'[c] # got[c]
      <4>1. got'[c] = Append(got[c], held) /\ held \in Payloads
        BY <1>1, <3>3 DEF SendHeld, UploadTypeOK
      <4>2. \A i \in 1..Len(got'[c]) :
               (i \in 1..Len(got[c]) /\ got'[c][i] = got[c][i]) \/ got'[c][i] = held
        BY <3>1, <4>1
      <4> QED
        BY <1>2, <1>4, <3>1, <4>2 DEF HasComplete
    <3> QED
      BY <3>2, <3>3
  <2>2. ~Delivered'
    BY <2>1 DEF Delivered
  <2> QED
    BY <1>1, <1>2, <2>2 DEF CompleteInv
<1> QED
  BY <1>3, <1>4

\* Clients, shutdown and connections leave the queue alone.
LEMMA QueueOther ==
    ASSUME ChunksInv, CompleteInv,
           DropUpload \/ BeginShutdown \/ \E c \in UploadConns : PeerStep(c)
    PROVE  ChunksInv' /\ CompleteInv'
<1>1. UNCHANGED <<length, totalRead, queueVars>>
  BY DEF DropUpload, BeginShutdown, PeerStep, Admit, AdmitUpload, InstallUpload,
     RegisterUpload, ReceiveAnswer, LeaveUpload, RemovePeer, DetachUpload, ForgetUpload
<1>2. UNCHANGED put \/ put' = "gone"
  BY DEF DropUpload, BeginShutdown, PeerStep, Admit, AdmitUpload, InstallUpload,
     RegisterUpload, ReceiveAnswer, LeaveUpload, RemovePeer, DetachUpload, ForgetUpload
<1>3. /\ put' \in {"check empty", "complete"} => lowest = <<>>
      /\ put' \in Early \cup Filling \cup Filled =>
              put \in Early \cup Filling \cup Filled
  BY <1>2 DEF CompleteInv, Early, Filling, Filled
<1> QED
  BY <1>1, <1>3, ChunksFrame, CompleteFrame

\* Every step keeps the queue empty until a connection has answered.
LEMMA QuietStep ==
    ASSUME UploadTypeOK, BodyInv, ChunksInv, QuietInv, UploadNext
    PROVE  QuietInv'
<1>1. CASE ready'
  BY <1>1 DEF QuietInv
<1>2. CASE ~ready'
  <2>0. ready' = TRUE \/ UNCHANGED ready
    BY DEF UploadNext, Put, Enter, CreateUpload, AskUpload, LookupUpload,
       CheckUploadReady, UploadWakes, ReadyTimeout, CheckUploadError, ReadBody,
       Drain, DrainAll, QueueChunk, QueueComplete, ConfirmTimeout, RemoveUpload,
       CloseUpload, Schedule, TakeQueued, SendHeld, DropUpload, BeginShutdown,
       Admit, AdmitUpload, InstallUpload, RegisterUpload, ReceiveAnswer,
       LeaveUpload, RemovePeer, DetachUpload, ForgetUpload
  <2>1. ~ready
    BY <1>2, <2>0
  <2>2. totalRead = 0 /\ highest = <<>> /\ held = Nothing /\ lowest = <<>>
    <3>1. lowest \in Seq(Payloads) /\ totalRead = 0 /\ Len(lowest) <= totalRead
      BY <2>1 DEF QuietInv, ChunksInv, UploadTypeOK
    <3>2. lowest = <<>>
      BY <3>1
    <3> QED
      BY <2>1, <3>2 DEF QuietInv
  <2>3. put \notin {"chunk", "complete"}
    BY <2>1 DEF BodyInv, Filling, Filled
  <2>4. totalRead' = 0 /\ highest' = <<>> /\ held' = Nothing
    BY <2>2, <2>3 DEF UploadNext, Put, Enter, CreateUpload, AskUpload, LookupUpload,
       CheckUploadReady, UploadWakes, ReadyTimeout, CheckUploadError, ReadBody,
       Drain, DrainAll, QueueChunk, QueueComplete, ConfirmTimeout, RemoveUpload,
       CloseUpload, Schedule, TakeQueued, SendHeld, DropUpload, BeginShutdown,
       Admit, AdmitUpload, InstallUpload, RegisterUpload, ReceiveAnswer,
       LeaveUpload, RemovePeer, DetachUpload, ForgetUpload
  <2> QED
    BY <2>4 DEF QuietInv, Nothing
<1> QED
  BY <1>1, <1>2

-----------------------------------------------------------------------------
(* What the connections are handed                                         *)

Before == {"idle", "checked", "rejected"}

\* A step that hands nothing over, takes no chunk away and makes no
\* connection current
LEMMA GotKeep ==
    ASSUME NEW c \in UploadConns, GotOf(c), UNCHANGED <<length, got>>, Gone' = Gone,
           Alone(c)' => Alone(c), Live(c)' => Live(c),
           peer'[c] \in Before => peer[c] \in Before
    PROVE  GotOf(c)'
<1>1. (HasComplete(c)' <=> HasComplete(c)) /\ Complete' = Complete
  BY DEF HasComplete, Complete
<1> QED
  BY <1>1 DEF GotOf, Before

\* The chunks that have left depend on few variables.
LEMMA GoneFrame ==
    ASSUME UNCHANGED <<totalRead, lowest, held>>
    PROVE  Gone' = Gone
  BY DEF Gone, Complete, Nothing

\* upload_file takes nothing from a connection.
LEMMA GotPut ==
    ASSUME UploadTypeOK, NEW c \in UploadConns, GotOf(c), Put
    PROVE  GotOf(c)'
<1>1. UNCHANGED <<length, got, peer>> /\ (UNCHANGED sender \/ sender' = NoUploadConn)
  BY DEF Put, Enter, CreateUpload, AskUpload, LookupUpload, CheckUploadReady,
     UploadWakes, ReadyTimeout, CheckUploadError, ReadBody, Drain, DrainAll,
     QueueChunk, QueueComplete, ConfirmTimeout, RemoveUpload, CloseUpload, TellSender
<1>2. Gone' = Gone
  <2>1. CASE QueueChunk
    <3>1. /\ totalRead' = totalRead + 1 /\ held' = held
          /\ lowest' = Append(lowest, totalRead + 1)
      BY <2>1 DEF QueueChunk
    <3>2. totalRead \in Nat /\ lowest \in Seq(Payloads)
      BY DEF UploadTypeOK
    <3>3. Len(lowest) \in Nat /\ Len(lowest') = Len(lowest) + 1
      BY <3>1, <3>2
    <3>4. totalRead' - Len(lowest') = totalRead - Len(lowest)
      BY <3>1, <3>2, <3>3
    <3> QED
      BY <3>1, <3>4 DEF Gone, Complete, Nothing
  <2>2. CASE ~QueueChunk
    <3>1. UNCHANGED <<totalRead, lowest, held>>
      BY <2>2 DEF Put, Enter, CreateUpload, AskUpload, LookupUpload, CheckUploadReady,
         UploadWakes, ReadyTimeout, CheckUploadError, ReadBody, Drain, DrainAll,
         QueueComplete, ConfirmTimeout, RemoveUpload, CloseUpload
    <3> QED
      BY <3>1, GoneFrame
  <2> QED
    BY <2>1, <2>2
<1>3. (Alone(c)' => Alone(c)) /\ (Live(c)' => Live(c))
  BY <1>1, NoUploadConnAssumption DEF Alone, Live
<1> QED
  BY <1>1, <1>2, <1>3, GotKeep

\* Taking from the queue hands nothing over yet.
LEMMA GotTake ==
    ASSUME UploadTypeOK, ChunksInv, CompleteInv, NEW c \in UploadConns, GotOf(c),
           TakeQueued
    PROVE  GotOf(c)'
<1>1. held = Nothing /\ UNCHANGED <<length, totalRead, got, sender, peer>>
  BY DEF TakeQueued
<1>2. totalRead \in Nat /\ lowest \in Seq(Payloads) /\ Complete' = Complete
  BY DEF UploadTypeOK, Complete
<1>3. Gone' = Gone
  <2>1. CASE lowest # <<>> /\ held' = Head(lowest) /\ lowest' = Tail(lowest)
    <3>1. held' = lowest[1] /\ Len(lowest) \in Nat \ {0} /\ held' \in Payloads
      BY <1>2, <2>1, TakenFromSeq
    <3>2. lowest[1] = totalRead - Len(lowest) + 1
      BY <3>1 DEF ChunksInv
    <3>3. held' # Complete /\ held' # Nothing
      BY <2>1, <3>1, ChunkNumber DEF Payloads, Nothing
    <3>4. held' - 1 = totalRead - Len(lowest)
      BY <1>2, <3>1, <3>2
    <3>5. Gone' = held' - 1 /\ Gone = totalRead - Len(lowest)
      BY <1>1, <1>2, <3>3 DEF Gone, Nothing
    <3> QED
      BY <3>4, <3>5
  <2>2. CASE highest # <<>> /\ held' = Head(highest) /\ UNCHANGED lowest
    <3>1. held' = Complete
      BY <2>2 DEF CompleteInv
    <3> QED
      BY <1>1, <1>2, <2>2, <3>1 DEF Gone
  <2> QED
    BY <2>1, <2>2 DEF TakeQueued
<1>4. (Alone(c)' => Alone(c)) /\ (Live(c)' => Live(c))
  BY <1>1 DEF Alone, Live
<1> QED
  BY <1>1, <1>3, <1>4, GotKeep

\* A chunk follows the ones before it, and COMPLETE the last.
LEMMA GotSend ==
    ASSUME UploadTypeOK, BodyInv, ChunksInv, CompleteInv, NEW c \in UploadConns,
           GotOf(c), SendHeld
    PROVE  GotOf(c)'
<1>1. /\ held # Nothing /\ held' = Nothing
      /\ UNCHANGED <<length, totalRead, lowest, sender, peer>>
  BY DEF SendHeld
<1>2. /\ totalRead \in Nat /\ length \in Nat /\ held \in Payloads /\ lowest \in Seq(Payloads)
      /\ Len(lowest) \in Nat /\ got[c] \in Seq(Payloads) /\ Len(got[c]) \in Nat
  <2>1. /\ totalRead \in Nat /\ length \in Nat /\ held \in Payloads
        /\ lowest \in Seq(Payloads) /\ got[c] \in Seq(Payloads)
    BY <1>1 DEF UploadTypeOK
  <2> QED
    BY <2>1
<1>3. ~HasComplete(c) /\ Complete' = Complete
  BY <1>1 DEF CompleteInv, Delivered, Complete
<1>4. (Alone(c)' => Alone(c)) /\ (Live(c)' => Live(c))
  BY <1>1 DEF Alone, Live
<1>5. Gone' = totalRead - Len(lowest)
  BY <1>1 DEF Gone
<1>6. CASE Live(c)
  <2>1. got'[c] = Append(got[c], held)
    BY <1>6, NoUploadConnAssumption DEF Live, SendHeld, UploadTypeOK
  <2>2. /\ Len(got'[c]) = Len(got[c]) + 1 /\ got'[c][Len(got[c]) + 1] = held
        /\ \A i \in 1..Len(got[c]) : got'[c][i] = got[c][i]
    BY <1>2, <2>1, AddedToSeq
  <2>3. peer'[c] \notin Before
    BY <1>1, <1>6 DEF Live, Before
  <2>4. ASSUME Alone(c) PROVE Len(got[c]) = Gone /\ \A i \in 1..Gone : got[c][i] = i
    BY <1>3, <1>6, <2>4 DEF GotOf
  <2>5. CASE held = Complete
    <3>1. Gone = length
      <4>1. totalRead = length /\ lowest = <<>>
        BY <2>5 DEF CompleteInv
      <4>2. Gone = totalRead - Len(lowest)
        BY <2>5 DEF Gone
      <4> QED
        BY <1>2, <4>1, <4>2
    <3>2. HasComplete(c)'
      <4>1. Len(got[c]) + 1 \in 1..Len(got'[c])
        BY <1>2, <2>2
      <4> QED
        BY <1>3, <2>2, <2>5, <4>1 DEF HasComplete
    <3>3. ASSUME Alone(c)
          PROVE  /\ Len(got'[c]) = length + 1 /\ got'[c][length + 1] = Complete
                 /\ \A i \in 1..length : got'[c][i] = i
      BY <2>2, <2>4, <2>5, <3>1, <3>3
    <3> QED
      BY <1>1, <1>3, <1>4, <2>3, <3>2, <3>3 DEF GotOf, Before
  <2>6. CASE held # Complete
    <3>1. held = totalRead - Len(lowest) /\ Gone = held - 1
      BY <1>1, <2>6 DEF ChunksInv, Gone
    <3>2. Gone \in Nat /\ Gone' = Gone + 1 /\ held = Gone'
      BY <1>2, <1>5, <3>1 DEF Payloads
    <3>3. ASSUME Alone(c)
          PROVE  Len(got'[c]) = Gone' /\ \A i \in 1..Gone' : got'[c][i] = i
      <4>1. Len(got[c]) = Gone /\ Len(got'[c]) = Gone'
        BY <2>2, <2>4, <3>2, <3>3
      <4>2. ASSUME NEW i \in 1..Gone' PROVE got'[c][i] = i
        <5>1. CASE i \in 1..Gone
          BY <2>2, <2>4, <3>3, <4>1, <5>1
        <5>2. CASE i \notin 1..Gone
          <6>1. i = Gone + 1
            BY <3>2, <5>2
          <6> QED
            BY <2>2, <3>2, <4>1, <6>1
        <5> QED
          BY <5>1, <5>2
      <4> QED
        BY <4>1, <4>2
    <3>4. ~HasComplete(c)'
      <4>1. \A i \in 1..Len(got'[c]) : i \in 1..Len(got[c]) \/ i = Len(got[c]) + 1
        BY <1>2, <2>2
      <4> QED
        BY <1>3, <2>2, <2>6, <4>1 DEF HasComplete
    <3> QED
      BY <1>1, <1>3, <1>4, <2>3, <3>3, <3>4 DEF GotOf, Before
  <2> QED
    BY <2>5, <2>6
<1>7. CASE ~Live(c)
  <2>1. got'[c] = got[c]
    BY <1>7 DEF Live, SendHeld, UploadTypeOK
  <2>2. ~HasComplete(c)'
    BY <1>3, <2>1 DEF HasComplete
  <2> QED
    BY <1>1, <1>4, <1>7, <2>1, <2>2 DEF GotOf
<1> QED
  BY <1>6, <1>7

\* A connection that has been admitted is not an unused one again.
LEMMA AdmittedStays ==
    ASSUME UploadTypeOK, NEW c \in UploadConns, NEW d \in UploadConns, PeerStep(d)
    PROVE  /\ Alone(c)' => Alone(c)
           /\ peer'[c] \in Before => peer[c] \in Before
<1>1. /\ peer \in [UploadConns -> PeerSteps]
      /\ peer' = peer \/ \E p \in PeerSteps : peer' = [peer EXCEPT ![d] = p]
  BY DEF UploadTypeOK, PeerStep, Admit, AdmitUpload, InstallUpload, RegisterUpload,
     ReceiveAnswer, LeaveUpload, RemovePeer, DetachUpload, ForgetUpload, PeerSteps
<1>2. /\ peer'[d] \in {"idle", "rejected"} => peer[d] \in {"idle", "rejected"}
      /\ peer'[d] \in Before => peer[d] \in Before
  BY <1>1 DEF PeerStep, Admit, AdmitUpload, InstallUpload, RegisterUpload,
     ReceiveAnswer, LeaveUpload, RemovePeer, DetachUpload, ForgetUpload, Before
<1>3. \A e \in UploadConns \ {d} : peer'[e] = peer[e]
  BY <1>1
<1> QED
  BY <1>2, <1>3 DEF Alone

\* A connection that becomes current is the first to be admitted, where no
\* other was: the body is not begun.
LEMMA GotPeer ==
    ASSUME UploadTypeOK, ChunksInv, QuietInv, GotInv, NEW c \in UploadConns,
           NEW d \in UploadConns, PeerStep(d)
    PROVE  GotOf(c)'
<1>1. UNCHANGED <<length, totalRead, queueVars>>
  BY DEF PeerStep, Admit, AdmitUpload, InstallUpload, RegisterUpload,
     ReceiveAnswer, LeaveUpload, RemovePeer, DetachUpload, ForgetUpload
<1>2. Gone' = Gone /\ GotOf(c)
  BY <1>1, GoneFrame DEF GotInv
<1>3. /\ Alone(c)' => Alone(c)
      /\ peer'[c] \in Before => peer[c] \in Before
  BY AdmittedStays
<1>4. CASE InstallUpload(d) /\ d = c
  <2>1. peer[c] = "checked" /\ peer'[c] = "installed"
    BY <1>4 DEF InstallUpload, UploadTypeOK
  <2>2. got'[c] = <<>>
    BY <1>1, <1>2, <2>1 DEF GotOf
  <2>3. ~HasComplete(c)'
    BY <2>2 DEF HasComplete
  <2>4. ASSUME Alone(c)' PROVE Gone' = 0
    <3>1. Alone(c)
      BY <1>3, <2>4
    <3>2. ~ready
      BY <2>1, <3>1 DEF GotInv, Alone
    <3>3. totalRead = 0 /\ held = Nothing /\ lowest \in Seq(Payloads) /\ Len(lowest) <= totalRead
      BY <3>2 DEF QuietInv, ChunksInv, UploadTypeOK
    <3>4. totalRead - Len(lowest) = 0
      BY <3>3
    <3> QED
      BY <1>2, <3>3, <3>4 DEF Gone
  <2>5. Alone(c)' => Len(got'[c]) = Gone' /\ \A i \in 1..Gone' : got'[c][i] = i
    BY <2>2, <2>4
  <2> QED
    BY <2>1, <2>3, <2>5 DEF GotOf
<1>5. CASE ~(InstallUpload(d) /\ d = c)
  <2>1. Live(c)' => Live(c)
    BY <1>5, NoUploadConnAssumption DEF Live, UploadTypeOK, PeerStep, Admit,
       AdmitUpload, InstallUpload, RegisterUpload, ReceiveAnswer, LeaveUpload,
       RemovePeer, DetachUpload, TellSender, ForgetUpload
  <2> QED
    BY <1>1, <1>2, <1>3, <2>1, GotKeep
<1> QED
  BY <1>4, <1>5

\* SERVER_READY comes from a connection that was admitted.
LEMMA ReadyPeer ==
    ASSUME UploadTypeOK, GotInv, UploadNext, ready'
    PROVE  \E d \in UploadConns :
              peer'[d] \in {"open", "detaching", "removing", "closed"}
<1>1. CASE \E c \in UploadConns : PeerStep(c)
  <2>1. PICK c \in UploadConns : PeerStep(c)
    BY <1>1
  <2>2. CASE ReceiveAnswer(c)
    BY <2>2 DEF ReceiveAnswer
  <2>3. CASE ~ReceiveAnswer(c)
    <3>1. ready
      BY <2>1, <2>3 DEF PeerStep, Admit, AdmitUpload, InstallUpload, RegisterUpload,
         LeaveUpload, RemovePeer, DetachUpload, ForgetUpload
    <3>2. PICK d \in UploadConns : peer[d] \in {"open", "detaching", "removing", "closed"}
      BY <3>1 DEF GotInv
    <3>3. peer'[d] \in {"open", "detaching", "removing", "closed"}
      BY <2>1, <2>3, <3>2 DEF UploadTypeOK, PeerStep, Admit, AdmitUpload,
         InstallUpload, RegisterUpload, LeaveUpload, RemovePeer, DetachUpload,
         ForgetUpload
    <3> QED
      BY <3>3
  <2> QED
    BY <2>2, <2>3
<1>2. CASE Put \/ Schedule \/ DropUpload \/ BeginShutdown
  <2>1. UNCHANGED <<ready, peer>>
    BY <1>2 DEF Put, Enter, CreateUpload, AskUpload, LookupUpload,
       CheckUploadReady, UploadWakes, ReadyTimeout, CheckUploadError, ReadBody,
       Drain, DrainAll, QueueChunk, QueueComplete, ConfirmTimeout, RemoveUpload,
       CloseUpload, Schedule, TakeQueued, SendHeld, DropUpload, BeginShutdown
  <2> QED
    BY <2>1 DEF GotInv
<1> QED
  BY <1>1, <1>2 DEF UploadNext, PeerStep

\* Every step keeps what the connections have got.
LEMMA GotStep ==
    ASSUME UploadInv, UploadNext
    PROVE  GotInv'
<1>1. ASSUME NEW c \in UploadConns PROVE GotOf(c)'
  <2>1. CASE Put
    BY <2>1, GotPut DEF UploadInv, GotInv
  <2>2. CASE Schedule
    BY <2>2, GotTake, GotSend DEF UploadInv, GotInv, Schedule
  <2>3. CASE DropUpload \/ BeginShutdown
    <3>1. UNCHANGED <<length, totalRead, queueVars, socketVars>>
      BY <2>3 DEF DropUpload, BeginShutdown
    <3>2. Gone' = Gone /\ (Alone(c)' => Alone(c)) /\ (Live(c)' => Live(c))
      BY <3>1, GoneFrame DEF Alone, Live
    <3> QED
      BY <3>1, <3>2, GotKeep DEF UploadInv, GotInv
  <2>4. CASE \E d \in UploadConns : PeerStep(d)
    BY <2>4, GotPeer DEF UploadInv
  <2> QED
    BY <2>1, <2>2, <2>3, <2>4 DEF UploadNext, PeerStep
<1>2. ready' => \E d \in UploadConns :
                   peer'[d] \in {"open", "detaching", "removing", "closed"}
  BY ReadyPeer DEF UploadInv
<1> QED
  BY <1>1, <1>2 DEF GotInv

-----------------------------------------------------------------------------
(* The theorems                                                            *)

\* The invariant holds before the request.
LEMMA UploadInvInit ==
    ASSUME UploadInit
    PROVE  UploadInv
<1> USE ChunksAssumption DEF UploadInit, UploadStart
<1>1. UploadTypeOK
  <2>1. <<>> \in Seq(Payloads) /\ got \in [UploadConns -> Seq(Payloads)]
    OBVIOUS
  <2>2. put \in PutSteps /\ peer \in [UploadConns -> PeerSteps]
    BY DEF PutSteps, PeerSteps
  <2>3. length \in 0..MaxChunks /\ totalRead \in 0..MaxChunks
    OBVIOUS
  <2> QED
    BY <2>1, <2>2, <2>3 DEF UploadTypeOK
<1>2. ClosedInv
  BY DEF ClosedInv
<1>3. BodyInv
  BY <1>1 DEF BodyInv, Early, Filling, Filled, Asked, UploadTypeOK
<1>4. ~Delivered /\ Nothing # Complete
  BY DEF Delivered, HasComplete, Nothing, Complete
<1>5. ChunksInv
  BY DEF ChunksInv
<1>6. CompleteInv
  BY <1>4 DEF CompleteInv
<1>7. QuietInv
  BY DEF QuietInv
<1>8. GotInv
  BY <1>4, NoUploadConnAssumption DEF GotInv, GotOf, Live, Delivered
<1> QED
  BY <1>1, <1>2, <1>3, <1>5, <1>6, <1>7, <1>8 DEF UploadInv

\* Every step keeps the invariant.
LEMMA UploadInvStep ==
    ASSUME UploadInv, [UploadNext]_uploadVars
    PROVE  UploadInv'
<1>1. CASE UploadNext
  <2> USE <1>1 DEF UploadInv
  <2>1. UploadTypeOK'
    BY PutType, OtherType, PeerType DEF UploadNext, PeerStep
  <2>2. ClosedInv'
    BY ClosedPut, ClosedOther, ClosedPeer DEF UploadNext, PeerStep
  <2>3. BodyInv'
    BY BodyPut, BodyOther DEF UploadNext, PeerStep
  <2>4. CompleteInv'
    <3>1. CASE Put
      BY <3>1, CompletePut
    <3>2. CASE Schedule
      BY <3>2, CompleteTake, CompleteSend DEF Schedule
    <3>3. CASE ~Put /\ ~Schedule
      BY <3>3, QueueOther DEF UploadNext, PeerStep
    <3> QED
      BY <3>1, <3>2, <3>3
  <2>5. ChunksInv'
    <3>1. CASE QueueChunk
      <4>1. totalRead' \in 0..MaxChunks
        BY <2>1 DEF UploadTypeOK
      <4> QED
        BY <3>1, <4>1, ChunksQueue
    <3>2. CASE Put /\ ~QueueChunk
      <4>1. UNCHANGED <<totalRead, lowest, held>>
        BY <3>2 DEF Put, Enter, CreateUpload, AskUpload, LookupUpload, CheckUploadReady,
           UploadWakes, ReadyTimeout, CheckUploadError, ReadBody, Drain, DrainAll,
           QueueComplete, ConfirmTimeout, RemoveUpload, CloseUpload
      <4> QED
        BY <4>1, ChunksFrame
    <3>3. CASE Schedule
      BY <3>3, ChunksTake, ChunksSend DEF Schedule
    <3>4. CASE ~Put /\ ~Schedule
      BY <3>4, QueueOther DEF UploadNext, PeerStep
    <3> QED
      BY <3>1, <3>2, <3>3, <3>4
  <2>6. QuietInv'
    BY QuietStep
  <2>7. GotInv'
    BY GotStep
  <2> QED
    BY <2>1, <2>2, <2>3, <2>4, <2>5, <2>6, <2>7
<1>2. CASE UNCHANGED uploadVars
  <2> USE <1>2 DEF UploadInv, uploadVars
  <2>1. UploadTypeOK'
    BY DEF UploadTypeOK
  <2>2. ClosedInv'
    BY DEF ClosedInv, Unguarded
  <2>3. BodyInv' /\ QuietInv'
    BY DEF BodyInv, QuietInv
  <2>4. CompleteInv'
    BY CompleteFrame DEF CompleteInv
  <2>5. ChunksInv'
    BY ChunksFrame
  <2>6. ASSUME NEW c \in UploadConns PROVE GotOf(c)'
    <3>1. Gone' = Gone /\ (Alone(c)' => Alone(c)) /\ (Live(c)' => Live(c))
      BY GoneFrame DEF Alone, Live
    <3> QED
      BY <3>1, GotKeep DEF GotInv
  <2>7. GotInv'
    BY <2>6 DEF GotInv
  <2> QED
    BY <2>1, <2>2, <2>3, <2>4, <2>5, <2>7
<1> QED
  BY <1>1, <1>2

\* The types of the session, its queue and its connections hold at every step
\* of an upload, and with them the strengthening that the other theorems take
\* apart: what is queued, held and handed over is one stretch of the body.
THEOREM UploadInductive == UploadSpec => []UploadInv
<1>1. UploadInit => UploadInv
  BY UploadInvInit
<1>2. UploadInv /\ [UploadNext]_uploadVars => UploadInv'
  BY UploadInvStep
<1> QED
  BY <1>1, <1>2, PTL DEF UploadSpec

\* The session, the queue and the connections of an upload keep their types;
\* the queue and the scheduler hold chunks of the body and COMPLETE only.
THEOREM UploadTypeCorrect == UploadSpec => []UploadTypeOK
<1>1. UploadInv => UploadTypeOK
  BY DEF UploadInv
<1> QED
  BY <1>1, UploadInductive, PTL

\* When upload_file has answered that the upload failed, no entry of
\* file_upload_map admits another connection and none is current: an
\* admission under way has kept remove_file_upload waiting, so that close
\* finds the connection it installed.
THEOREM FailedIsClosedHolds == UploadSpec => []FailedIsClosed
<1>1. UploadInv => FailedIsClosed
  BY DEF UploadInv, ClosedInv, FailedIsClosed
<1> QED
  BY <1>1, UploadInductive, PTL

\* FILE_UPLOAD_COMPLETE is queued at a higher priority than the chunks and
\* yet, for bodies of any length and any buffer sizes, the only connection of
\* the upload is handed it after every chunk, each once and in order.
THEOREM WholeBeforeCompleteHolds == UploadSpec => []WholeBeforeComplete
<1>1. ASSUME UploadInv PROVE WholeBeforeComplete
  <2>1. SUFFICES ASSUME NEW c \in UploadConns, HasComplete(c), Alone(c)
                 PROVE  got[c] = [i \in 1..length |-> i] \o <<Complete>>
    BY DEF WholeBeforeComplete, HasComplete, Alone
  <2>2. /\ Len(got[c]) = length + 1 /\ got[c][length + 1] = Complete
        /\ \A i \in 1..length : got[c][i] = i
    BY <1>1, <2>1 DEF UploadInv, GotInv, GotOf
  <2>3. length \in Nat /\ got[c] \in Seq(Payloads)
    BY <1>1 DEF UploadInv, UploadTypeOK
  <2>4. ASSUME NEW n \in Nat, NEW s \in Seq(Payloads), NEW e,
               Len(s) = n + 1, s[n + 1] = e, \A i \in 1..n : s[i] = i
        PROVE  s = [i \in 1..n |-> i] \o <<e>>
    <3>1. DEFINE t == [i \in 1..n |-> i] \o <<e>>
    <3>2. /\ Len([i \in 1..n |-> i]) = n /\ [i \in 1..n |-> i] \in Seq(Nat)
      OBVIOUS
    <3>3. Len(t) = n + 1 /\ DOMAIN t = 1..(n + 1)
      BY <3>2
    <3>4. \A i \in 1..(n + 1) : t[i] = s[i]
      BY <2>4, <3>2
    <3> QED
      BY <2>4, <3>3, <3>4
  <2> QED
    BY <2>2, <2>3, <2>4
<1> QED
  BY <1>1, UploadInductive, PTL

==============================================================================
