------------------------- MODULE DownloadStreamProofs -------------------------
(***************************************************************************)
(* Proofs about DownloadStream for files and chunks of any size, and any   *)
(* thresholds of the back-pressure.                                        *)
(***************************************************************************)
EXTENDS DownloadStream, WellFoundedInduction, TLAPS

-----------------------------------------------------------------------------
(* The inductive invariant                                                 *)

\* The bytes from a + 1 to b
Run(a, b) == [k \in 1..(b - a) |-> a + k]

\* The sequences in s follow one another from byte a + 1 to byte b.
Chain(s, a, b) ==
    \E cut \in [0..Len(s) -> Nat] :
       /\ cut[0] = a /\ cut[Len(s)] = b
       /\ \A i \in 1..Len(s) : cut[i - 1] <= cut[i] /\ s[i] = Run(cut[i - 1], cut[i])

\* What the messages on the wire carry
Load(m) == IF m.type = "chunk" THEN m.bytes ELSE <<>>
Loads == [i \in 1..Len(wire) |-> Load(wire[i])]

\* The stream has taken a chunk it has not yielded.
Yielding == {"load", "cas", "resume", "yield", "last"}

\* download_file before its answer, or without a stream
Unanswered == {"none", "wait", "asleep", "evaluate", "refused", "gone"}

\* What the client has got and is about to get are the first bytes.
OutInv ==
    /\ body = Run(0, Len(body)) /\ Len(body) <= sentBytes
    /\ output = Run(Len(body), sentBytes)
    /\ reader \notin Yielding \cup {"gone"} => Len(body) = sentBytes
    /\ sentBytes <= fileSize
    /\ reader = "recv" => sentBytes < fileSize
    /\ ended = "Complete" => sentBytes = fileSize /\ receivedData

\* The size is declared once, before any byte is sent to the client.
DetailsInv ==
    /\ ~receivedData => sentBytes = 0 /\ fileSize = 0 /\ reader \in Unanswered
    /\ receivedData => declared
    /\ \A i \in 1..Len(wire) : wire[i].type = "details" => declared /\ ~receivedData
    /\ \A i, j \in 1..Len(wire) :
          wire[i].type = "details" /\ wire[j].type = "details" => i = j

\* The last bytes in the channel and in the hands of the handler
Pushed == IF handler = "push" THEN received - Len(inHand) ELSE received
Taken  == IF handler = "count" THEN received + Len(inHand) ELSE received

\* Until a chunk is sliced, what is in the channel, in the hands of the
\* handler and on the wire is the rest of what the remote cluster has sent.
Unsliced == sentBytes < fileSize \/ fileSize = 0

ChainInv ==
    Unsliced =>
       /\ Chain(chunks, sentBytes, Pushed)
       /\ handler \in {"count", "push"} => inHand = Run(Pushed, Taken) /\ Pushed <= Taken
       /\ Pushed \in Nat /\ Taken \in Nat
       /\ socket => Chain(Loads, Taken, offset)

StreamInv == StreamTypeOK /\ OutInv /\ DetailsInv /\ ChainInv

USE DEF stateVars, handlerVars, readerVars, remoteVars

-----------------------------------------------------------------------------
(* Runs of bytes                                                           *)

\* The elements of a concatenation.
LEMMA ConcatShape ==
    ASSUME NEW S, NEW s \in Seq(S), NEW t \in Seq(S)
    PROVE  /\ s \o t \in Seq(S) /\ Len(s \o t) = Len(s) + Len(t)
           /\ \A k \in 1..Len(s) : (s \o t)[k] = s[k]
           /\ \A k \in (Len(s) + 1)..(Len(s) + Len(t)) : (s \o t)[k] = t[k - Len(s)]
  OBVIOUS

\* Sequences with the same elements are equal.
LEMMA SameSeq ==
    ASSUME NEW S, NEW s \in Seq(S), NEW t \in Seq(S), Len(s) = Len(t),
           \A k \in 1..Len(s) : s[k] = t[k]
    PROVE  s = t
  OBVIOUS

\* The bytes of a stretch of the file.
LEMMA RunShape ==
    ASSUME NEW a \in Nat, NEW b \in Nat, a <= b
    PROVE  /\ Run(a, b) \in Seq(Nat) /\ Len(Run(a, b)) = b - a
           /\ DOMAIN Run(a, b) = 1..(b - a)
           /\ \A k \in 1..(b - a) : Run(a, b)[k] = a + k
  BY DEF Run

\* An empty stretch has no bytes.
LEMMA RunEmpty ==
    ASSUME NEW a \in Nat
    PROVE  Run(a, a) = <<>>
  BY DEF Run

\* The slice of the chunk that overshoots
LEMMA RunPrefix ==
    ASSUME NEW a \in Nat, NEW b \in Nat, NEW c \in Nat, a <= b, b <= c
    PROVE  SubSeq(Run(a, c), 1, b - a) = Run(a, b)
<1>1. /\ Run(a, c) \in Seq(Nat) /\ Len(Run(a, c)) = c - a
      /\ \A k \in 1..(c - a) : Run(a, c)[k] = a + k
  BY RunShape
<1>2. Len(SubSeq(Run(a, c), 1, b - a)) = b - a
  BY <1>1
<1>3. \A k \in 1..(b - a) : SubSeq(Run(a, c), 1, b - a)[k] = a + k
  BY <1>1
<1> QED
  BY <1>1, <1>2, <1>3 DEF Run

\* Adjacent stretches join.
LEMMA RunConcat ==
    ASSUME NEW a \in Nat, NEW b \in Nat, NEW c \in Nat, a <= b, b <= c
    PROVE  Run(a, b) \o Run(b, c) = Run(a, c)
<1>1. /\ Run(a, b) \in Seq(Nat) /\ Len(Run(a, b)) = b - a
      /\ \A k \in 1..(b - a) : Run(a, b)[k] = a + k
  BY RunShape
<1>2. /\ Run(b, c) \in Seq(Nat) /\ Len(Run(b, c)) = c - b
      /\ \A k \in 1..(c - b) : Run(b, c)[k] = b + k
  BY RunShape
<1>3. /\ Run(a, c) \in Seq(Nat) /\ Len(Run(a, c)) = c - a
      /\ \A k \in 1..(c - a) : Run(a, c)[k] = a + k
  BY RunShape
<1>4. /\ Run(a, b) \o Run(b, c) \in Seq(Nat)
      /\ Len(Run(a, b) \o Run(b, c)) = c - a
      /\ \A k \in 1..(b - a) : (Run(a, b) \o Run(b, c))[k] = Run(a, b)[k]
      /\ \A k \in (b - a + 1)..(c - a) :
            (Run(a, b) \o Run(b, c))[k] = Run(b, c)[k - (b - a)]
  <2>1. (b - a) + (c - b) = c - a
    OBVIOUS
  <2>2. ASSUME NEW s \in Seq(Nat), NEW t \in Seq(Nat), Len(s) = b - a, Len(t) = c - b
        PROVE  /\ s \o t \in Seq(Nat) /\ Len(s \o t) = c - a
               /\ \A k \in 1..(b - a) : (s \o t)[k] = s[k]
               /\ \A k \in (b - a + 1)..(c - a) : (s \o t)[k] = t[k - (b - a)]
    <3>1. /\ s \o t \in Seq(Nat) /\ Len(s \o t) = Len(s) + Len(t)
          /\ \A k \in 1..Len(s) : (s \o t)[k] = s[k]
          /\ \A k \in (Len(s) + 1)..(Len(s) + Len(t)) : (s \o t)[k] = t[k - Len(s)]
      BY ConcatShape
    <3>2. Len(s) + Len(t) = c - a
      BY <2>1, <2>2
    <3> QED
      BY <2>2, <3>1, <3>2
  <2> QED
    BY <1>1, <1>2, <2>2
<1>5. ASSUME NEW k \in 1..(c - a)
      PROVE  (Run(a, b) \o Run(b, c))[k] = a + k
  <2>1. CASE k \in 1..(b - a)
    BY <1>1, <1>4, <2>1
  <2>2. CASE k \notin 1..(b - a)
    <3>1. k \in (b - a + 1)..(c - a) /\ k - (b - a) \in 1..(c - b)
      BY <2>2
    <3>2. Run(b, c)[k - (b - a)] = b + (k - (b - a))
      BY <1>2, <3>1
    <3>3. b + (k - (b - a)) = a + k
      OBVIOUS
    <3> QED
      BY <1>4, <3>1, <3>2, <3>3
  <2> QED
    BY <2>1, <2>2
<1> QED
  BY <1>3, <1>4, <1>5, SameSeq

\* No chunks cover an empty stretch.
LEMMA ChainEmpty ==
    ASSUME NEW a \in Nat
    PROVE  Chain(<<>>, a, a)
<1> DEFINE cut == [i \in 0..0 |-> a]
<1>1. cut \in [0..0 -> Nat] /\ cut[0] = a /\ Len(<<>>) = 0
  OBVIOUS
<1>2. 1..0 = {}
  OBVIOUS
<1> HIDE DEF cut
<1> QED
  BY <1>1, <1>2 DEF Chain

\* A chain that ends at b goes on from there.
LEMMA ChainAppend ==
    ASSUME NEW S, NEW s \in Seq(S), NEW e \in S, NEW a, NEW b \in Nat, NEW c \in Nat,
           b <= c, e = Run(b, c), Chain(s, a, b)
    PROVE  Chain(Append(s, e), a, c)
<1>1. PICK cut \in [0..Len(s) -> Nat] :
         /\ cut[0] = a /\ cut[Len(s)] = b
         /\ \A i \in 1..Len(s) : cut[i - 1] <= cut[i] /\ s[i] = Run(cut[i - 1], cut[i])
  BY DEF Chain
<1> DEFINE t == Append(s, e)
           cat == [i \in 0..Len(t) |-> IF i <= Len(s) THEN cut[i] ELSE c]
<1>2. /\ Len(s) \in Nat /\ Len(t) = Len(s) + 1 /\ t[Len(s) + 1] = e
      /\ \A i \in 1..Len(s) : t[i] = s[i]
  OBVIOUS
<1> HIDE DEF t
<1>3. /\ cat \in [0..Len(t) -> Nat] /\ cat[Len(t)] = c
      /\ \A i \in 0..Len(s) : cat[i] = cut[i]
  BY <1>2
<1> HIDE DEF cat
<1>4. cat[0] = a /\ cat[Len(s)] = b
  BY <1>1, <1>2, <1>3
<1>5. ASSUME NEW i \in 1..Len(t)
      PROVE  cat[i - 1] <= cat[i] /\ t[i] = Run(cat[i - 1], cat[i])
  <2>1. CASE i <= Len(s)
    <3>1. i \in 1..Len(s) /\ i \in 0..Len(s) /\ i - 1 \in 0..Len(s)
      BY <1>2, <2>1
    <3> QED
      BY <1>1, <1>2, <1>3, <3>1
  <2>2. CASE i > Len(s)
    <3>1. i = Len(t) /\ i - 1 = Len(s) /\ i = Len(s) + 1
      BY <1>2, <2>2
    <3> QED
      BY <1>2, <1>3, <1>4, <3>1
  <2> QED
    BY <1>2, <2>1, <2>2
<1>6. Chain(t, a, c)
  BY <1>3, <1>4, <1>5 DEF Chain
<1> QED
  BY <1>6 DEF t

\* The first link of a chain, and the chain behind it
LEMMA ChainTail ==
    ASSUME NEW S, NEW s \in Seq(S), s # <<>>, NEW a, NEW b, Chain(s, a, b)
    PROVE  \E m \in Nat : /\ a \in Nat /\ a <= m /\ Head(s) = Run(a, m)
                          /\ Chain(Tail(s), m, b)
<1>1. PICK cut \in [0..Len(s) -> Nat] :
         /\ cut[0] = a /\ cut[Len(s)] = b
         /\ \A i \in 1..Len(s) : cut[i - 1] <= cut[i] /\ s[i] = Run(cut[i - 1], cut[i])
  BY DEF Chain
<1> DEFINE t == Tail(s)
           cat == [i \in 0..Len(t) |-> cut[i + 1]]
<1>2. /\ Len(s) \in Nat \ {0} /\ Len(t) = Len(s) - 1 /\ Head(s) = s[1]
      /\ \A i \in 1..Len(t) : t[i] = s[i + 1]
  OBVIOUS
<1> HIDE DEF t
<1>3. /\ cat \in [0..Len(t) -> Nat] /\ \A i \in 0..Len(t) : cat[i] = cut[i + 1]
  BY <1>2
<1> HIDE DEF cat
<1>4. 1 \in 1..Len(s) /\ 0 \in 0..Len(t) /\ Len(t) \in 0..Len(t) /\ Len(t) + 1 = Len(s)
  BY <1>2
<1>5. cat[0] = cut[1] /\ cat[Len(t)] = b
  BY <1>1, <1>3, <1>4
<1>6. a \in Nat /\ cut[1] \in Nat /\ a <= cut[1] /\ Head(s) = Run(a, cut[1])
  <2>1. cut[1 - 1] <= cut[1] /\ s[1] = Run(cut[1 - 1], cut[1])
    BY <1>1, <1>4
  <2>2. 1 - 1 = 0
    OBVIOUS
  <2> QED
    BY <1>1, <1>2, <1>4, <2>1, <2>2
<1>7. ASSUME NEW i \in 1..Len(t)
      PROVE  cat[i - 1] <= cat[i] /\ t[i] = Run(cat[i - 1], cat[i])
  <2>1. i + 1 \in 1..Len(s) /\ i \in 0..Len(t) /\ i - 1 \in 0..Len(t)
    BY <1>2
  <2>2. (i + 1) - 1 = i /\ (i - 1) + 1 = i
    OBVIOUS
  <2>3. cut[i] <= cut[i + 1] /\ s[i + 1] = Run(cut[i], cut[i + 1])
    BY <1>1, <2>1, <2>2
  <2> QED
    BY <1>2, <1>3, <2>1, <2>2, <2>3
<1>8. Chain(t, cut[1], b)
  BY <1>3, <1>5, <1>7 DEF Chain
<1> QED
  BY <1>6, <1>8 DEF t

-----------------------------------------------------------------------------
(* Sequences and messages                                                  *)

\* The elements of a tail.
LEMMA TailShape ==
    ASSUME NEW S, NEW s \in Seq(S), s # <<>>
    PROVE  /\ Head(s) \in S /\ Head(s) = s[1] /\ Tail(s) \in Seq(S)
           /\ Len(s) \in Nat \ {0} /\ Len(Tail(s)) = Len(s) - 1
           /\ \A i \in 1..Len(Tail(s)) : i + 1 \in 1..Len(s) /\ Tail(s)[i] = s[i + 1]
  OBVIOUS

\* The elements after an append.
LEMMA AppendShape ==
    ASSUME NEW S, NEW s \in Seq(S), NEW e \in S
    PROVE  /\ Append(s, e) \in Seq(S) /\ Len(s) \in Nat /\ Len(Append(s, e)) = Len(s) + 1
           /\ Append(s, e)[Len(s) + 1] = e
           /\ \A i \in 1..Len(s) : Append(s, e)[i] = s[i]
           /\ \A i \in 1..Len(Append(s, e)) : i \in 1..Len(s) \/ i = Len(s) + 1
  OBVIOUS

\* What each kind of message carries.
LEMMA MessageShape ==
    ASSUME NEW m \in Messages
    PROVE  /\ m.type \in {"fault", "details", "chunk"}
           /\ m.type = "chunk" => m.bytes \in Seq(Bytes)
           /\ m.type = "details" => m.size \in 0..MaxSize
  BY DEF Messages, Fault

\* What the remote cluster sends are messages.
LEMMA SentMessages ==
    /\ Fault \in Messages /\ Fault.type = "fault"
    /\ \A n \in 0..MaxSize : Details(n) \in Messages /\ Details(n).type = "details"
    /\ \A b \in Seq(Bytes) : /\ Chunk(b) \in Messages
                             /\ Chunk(b).type = "chunk" /\ Chunk(b).bytes = b
  BY DEF Messages, Fault, Details, Chunk

\* The payloads on the wire, one for each message.
LEMMA LoadsShape ==
    ASSUME wire \in Seq(Messages)
    PROVE  /\ Loads \in Seq(Seq(Bytes)) /\ Len(Loads) = Len(wire)
           /\ \A i \in 1..Len(wire) : Loads[i] = Load(wire[i])
<1>1. \A i \in 1..Len(wire) : wire[i] \in Messages
  OBVIOUS
<1>2. \A m \in Messages : Load(m) \in Seq(Bytes)
  BY MessageShape DEF Load
<1> QED
  BY <1>1, <1>2 DEF Loads

\* Taking a message off the wire takes its payload.
LEMMA LoadsTail ==
    ASSUME wire \in Seq(Messages), wire # <<>>, wire' = Tail(wire)
    PROVE  /\ Loads # <<>> /\ Head(Loads) = Load(Head(wire))
           /\ Loads' = Tail(Loads) /\ Loads \in Seq(Seq(Bytes))
<1>1. wire' \in Seq(Messages)
  OBVIOUS
<1>2. /\ Loads \in Seq(Seq(Bytes)) /\ Len(Loads) = Len(wire)
      /\ \A i \in 1..Len(wire) : Loads[i] = Load(wire[i])
  BY LoadsShape
<1>3. /\ Loads' \in Seq(Seq(Bytes)) /\ Len(Loads') = Len(wire')
      /\ \A i \in 1..Len(wire') : Loads'[i] = Load(wire'[i])
  <2>1. \A i \in 1..Len(wire') : wire'[i] \in Messages
    BY <1>1
  <2>2. \A m \in Messages : Load(m) \in Seq(Bytes)
    BY MessageShape DEF Load
  <2> QED
    BY <1>1, <2>1, <2>2 DEF Loads, Load
<1>4. /\ Head(wire) = wire[1] /\ Len(wire) \in Nat \ {0} /\ Len(wire') = Len(wire) - 1
      /\ \A i \in 1..Len(wire') : i + 1 \in 1..Len(wire) /\ wire'[i] = wire[i + 1]
  BY TailShape
<1>5. Loads # <<>>
  BY <1>2, <1>4
<1>6. /\ Head(Loads) = Loads[1] /\ Tail(Loads) \in Seq(Seq(Bytes))
      /\ Len(Tail(Loads)) = Len(Loads) - 1
      /\ \A i \in 1..Len(Tail(Loads)) : Tail(Loads)[i] = Loads[i + 1]
  BY <1>2, <1>5, TailShape
<1>7. Head(Loads) = Load(Head(wire))
  BY <1>2, <1>4, <1>6
<1>8. Len(Loads') = Len(Tail(Loads)) /\ \A i \in 1..Len(Loads') : Loads'[i] = Tail(Loads)[i]
  BY <1>2, <1>3, <1>4, <1>6
<1>9. Loads' = Tail(Loads)
  BY <1>3, <1>6, <1>8, SameSeq
<1> QED
  BY <1>2, <1>5, <1>7, <1>9

\* Sending a message appends its payload.
LEMMA LoadsAppend ==
    ASSUME wire \in Seq(Messages), NEW m \in Messages, wire' = Append(wire, m)
    PROVE  Loads' = Append(Loads, Load(m)) /\ Loads \in Seq(Seq(Bytes)) /\ Load(m) \in Seq(Bytes)
<1>1. wire' \in Seq(Messages) /\ Load(m) \in Seq(Bytes)
  BY MessageShape DEF Load
<1>2. /\ Loads \in Seq(Seq(Bytes)) /\ Len(Loads) = Len(wire)
      /\ \A i \in 1..Len(wire) : Loads[i] = Load(wire[i])
  BY LoadsShape
<1>3. /\ Loads' \in Seq(Seq(Bytes)) /\ Len(Loads') = Len(wire')
      /\ \A i \in 1..Len(wire') : Loads'[i] = Load(wire'[i])
  <2>1. \A i \in 1..Len(wire') : wire'[i] \in Messages
    BY <1>1
  <2>2. \A e \in Messages : Load(e) \in Seq(Bytes)
    BY MessageShape DEF Load
  <2> QED
    BY <1>1, <2>1, <2>2 DEF Loads, Load
<1>4. /\ Len(wire) \in Nat /\ Len(wire') = Len(wire) + 1 /\ wire'[Len(wire) + 1] = m
      /\ \A i \in 1..Len(wire) : wire'[i] = wire[i]
      /\ \A i \in 1..Len(wire') : i \in 1..Len(wire) \/ i = Len(wire) + 1
  BY AppendShape
<1>5. /\ Append(Loads, Load(m)) \in Seq(Seq(Bytes))
      /\ Len(Append(Loads, Load(m))) = Len(Loads) + 1
      /\ Append(Loads, Load(m))[Len(Loads) + 1] = Load(m)
      /\ \A i \in 1..Len(Loads) : Append(Loads, Load(m))[i] = Loads[i]
  BY <1>1, <1>2, AppendShape
<1>6. \A i \in 1..Len(Loads') : Loads'[i] = Append(Loads, Load(m))[i]
  BY <1>2, <1>3, <1>4, <1>5
<1>7. Loads' = Append(Loads, Load(m))
  BY <1>2, <1>3, <1>4, <1>5, <1>6, SameSeq
<1> QED
  BY <1>1, <1>2, <1>7

-----------------------------------------------------------------------------
(* Types                                                                   *)

\* The steps of the handlers that change flags and positions only
LEMMA ControlType ==
    ASSUME StreamTypeOK,
           UNCHANGED <<received, sentBytes, fileSize, chunks, inHand, output, orders,
                       wire, offset, body>>,
           clientPaused' \in BOOLEAN, failed' \in BOOLEAN, receivedData' \in BOOLEAN,
           dataReady' \in BOOLEAN, wakeup' \in BOOLEAN, socket' \in BOOLEAN,
           declared' \in BOOLEAN, halted' \in BOOLEAN,
           handler' \in HandlerSteps, reader' \in ReaderSteps, seen' \in Nat,
           ended' \in {ended, "Complete", "ChunkTimeout", "FileError",
                       "ClusterOffline", "WebSocketClosed", "ResponseError"}
    PROVE  StreamTypeOK'
  BY DEF StreamTypeOK

\* handle_file_chunk and the other message handlers keep the types.
LEMMA HandleType ==
    ASSUME StreamTypeOK, Handle
    PROVE  StreamTypeOK'
<1>1. CASE TakeChunk
  <2>1. inHand' \in Seq(Bytes) /\ wire' \in Seq(Messages)
    <3>1. wire \in Seq(Messages)
      BY DEF StreamTypeOK
    <3>2. Head(wire) \in Messages /\ Tail(wire) \in Seq(Messages)
      BY <1>1, <3>1, TailShape DEF TakeChunk
    <3> QED
      BY <1>1, <3>2, MessageShape DEF TakeChunk
  <2> QED
    BY <1>1, <2>1 DEF TakeChunk, StreamTypeOK, HandlerSteps
<1>2. CASE CountChunk
  <2>1. received' \in Nat
    <3>1. received \in Nat /\ inHand \in Seq(Bytes) /\ received' = received + Len(inHand)
      BY <1>2 DEF CountChunk, StreamTypeOK
    <3> QED
      BY <3>1
  <2> QED
    BY <1>2, <2>1 DEF CountChunk, StreamTypeOK, HandlerSteps
<1>3. CASE PushChunk
  <2>1. chunks' \in Seq(Seq(Bytes))
    <3>1. inHand \in Seq(Bytes) /\ chunks \in Seq(Seq(Bytes)) /\ chunks' = Append(chunks, inHand)
      BY <1>3 DEF PushChunk, StreamTypeOK
    <3> QED
      BY <3>1, AppendShape
  <2> QED
    BY <1>3, <2>1 DEF PushChunk, StreamTypeOK, HandlerSteps
<1>4. CASE CheckBuffer
  <2>1. handler' \in HandlerSteps
    BY <1>4 DEF CheckBuffer, HandlerSteps
  <2> QED
    BY <1>4, <2>1, ControlType DEF CheckBuffer, StreamTypeOK
<1>5. CASE MarkPaused
  BY <1>5, ControlType DEF MarkPaused, StreamTypeOK, HandlerSteps
<1>6. CASE QueuePause
  <2>1. orders' \in [Orders -> Nat]
    BY <1>6 DEF QueuePause, StreamTypeOK, Orders
  <2> QED
    BY <1>6, <2>1 DEF QueuePause, StreamTypeOK, HandlerSteps
<1>7. CASE FinishChunk
  BY <1>7 DEF FinishChunk, MarkReady, StreamTypeOK, HandlerSteps
<1>8. CASE TakeDetails
  <2>1. fileSize' \in 0..MaxSize /\ wire' \in Seq(Messages)
    <3>1. wire \in Seq(Messages)
      BY DEF StreamTypeOK
    <3>2. Head(wire) \in Messages /\ Tail(wire) \in Seq(Messages)
      BY <1>8, <3>1, TailShape DEF TakeDetails
    <3> QED
      BY <1>8, <3>2, MessageShape DEF TakeDetails
  <2> QED
    BY <1>8, <2>1 DEF TakeDetails, MarkReady, StreamTypeOK
<1>9. CASE TakeFault
  <2>1. wire' \in Seq(Messages)
    BY <1>9, TailShape DEF TakeFault, StreamTypeOK
  <2> QED
    BY <1>9, <2>1 DEF TakeFault, RecordTransferError, MarkReady, StreamTypeOK
<1> QED
  BY <1>1, <1>2, <1>3, <1>4, <1>5, <1>6, <1>7, <1>8, <1>9 DEF Handle

\* download_file and its stream keep the types.
LEMMA RespondType ==
    ASSUME StreamTypeOK, OutInv, Respond
    PROVE  StreamTypeOK'
<1>1. CASE CheckReady \/ WakeUp \/ AnswerTimeout
  <2>1. reader' \in ReaderSteps
    BY <1>1 DEF CheckReady, WakeUp, AnswerTimeout, ReaderSteps
  <2> QED
    BY <1>1, <2>1, ControlType DEF CheckReady, WakeUp, AnswerTimeout, StreamTypeOK
<1>2. CASE Evaluate
  <2>1. reader' \in ReaderSteps
    BY <1>2 DEF Evaluate, ReaderSteps
  <2>2. ended' \in {ended, "FileError", "ClusterOffline", "Complete"}
    BY <1>2 DEF Evaluate, EndSession
  <2> QED
    BY <1>2, <2>1, <2>2, ControlType DEF Evaluate, StreamTypeOK
<1>3. CASE TestLoop
  <2>1. reader' \in ReaderSteps
    BY <1>3 DEF TestLoop, ReaderSteps
  <2> QED
    BY <1>3, <2>1, ControlType DEF TestLoop, StreamTypeOK
<1>4. CASE ReceiveChunk
  <2> DEFINE over == sentBytes + Len(Head(chunks)) > fileSize
  <2>1. /\ reader = "recv" /\ chunks # <<>> /\ chunks' = Tail(chunks)
        /\ output' = IF over THEN SubSeq(Head(chunks), 1, fileSize - sentBytes) ELSE Head(chunks)
        /\ sentBytes' = IF over THEN fileSize ELSE sentBytes + Len(Head(chunks))
        /\ reader' \in {"last", "load"} /\ ended' \in {ended, "Complete"}
        /\ UNCHANGED <<received, clientPaused, failed, fileSize, receivedData,
                       dataReady, wakeup, handlerVars, seen, body, orders, socket,
                       wire, remoteVars>>
    BY <1>4 DEF ReceiveChunk, EndSession
  <2>2. chunks \in Seq(Seq(Bytes)) /\ sentBytes \in 0..MaxSize /\ fileSize \in 0..MaxSize
    BY DEF StreamTypeOK
  <2>3. Head(chunks) \in Seq(Bytes) /\ chunks' \in Seq(Seq(Bytes))
    BY <2>1, <2>2, TailShape
  <2>4. sentBytes < fileSize
    BY <2>1 DEF OutInv
  <2>5. ASSUME NEW c \in Seq(Bytes), NEW n \in Int, n > 0,
               n < Len(c) PROVE SubSeq(c, 1, n) \in Seq(Bytes)
    BY <2>5
  <2>6. output' \in Seq(Bytes)
    <3>1. CASE over
      <4>1. fileSize - sentBytes \in Int /\ fileSize - sentBytes > 0
            /\ fileSize - sentBytes < Len(Head(chunks))
        BY <2>2, <2>3, <2>4, <3>1
      <4> QED
        BY <2>1, <2>3, <2>5, <3>1, <4>1
    <3>2. CASE ~over
      BY <2>1, <2>3, <3>2
    <3> QED
      BY <3>1, <3>2
  <2>7. sentBytes' \in 0..MaxSize
    <3>1. Len(Head(chunks)) \in Nat
      BY <2>3
    <3> QED
      BY <2>1, <2>2, <3>1, SizesAssumption
  <2> HIDE DEF over
  <2> QED
    BY <2>1, <2>3, <2>6, <2>7 DEF StreamTypeOK, ReaderSteps
<1>5. CASE LoadReceived \/ ExchangePaused
  <2>1. reader' \in ReaderSteps
    BY <1>5 DEF LoadReceived, ExchangePaused, ReaderSteps
  <2>2. seen' \in Nat /\ clientPaused' \in BOOLEAN
    <3>1. received \in Nat /\ clientPaused \in BOOLEAN
      BY DEF StreamTypeOK
    <3>2. CASE LoadReceived
      BY <3>1, <3>2 DEF LoadReceived
    <3>3. CASE ExchangePaused
      <4>1. seen' = 0
        BY <3>3 DEF ExchangePaused
      <4>2. clientPaused' \in BOOLEAN
        BY <3>3 DEF ExchangePaused
      <4> QED
        BY <4>1, <4>2
    <3> QED
      BY <1>5, <3>2, <3>3
  <2> QED
    BY <1>5, <2>1, <2>2, ControlType DEF LoadReceived, ExchangePaused, StreamTypeOK
<1>6. CASE QueueResume
  <2>1. orders' \in [Orders -> Nat]
    BY <1>6 DEF QueueResume, StreamTypeOK, Orders
  <2> QED
    BY <1>6, <2>1 DEF QueueResume, StreamTypeOK, ReaderSteps
<1>7. CASE YieldChunk
  <2>1. body' \in Seq(Bytes)
    <3>1. body \in Seq(Bytes) /\ output \in Seq(Bytes) /\ body' = body \o output
      BY <1>7 DEF YieldChunk, StreamTypeOK
    <3> QED
      BY <3>1, ConcatShape
  <2>2. reader' \in ReaderSteps /\ ended' \in {ended, "Complete"}
    BY <1>7 DEF YieldChunk, EndSession, ReaderSteps
  <2> QED
    BY <1>7, <2>1, <2>2 DEF YieldChunk, StreamTypeOK
<1>8. CASE ChunkTimeout \/ EndStream
  <2>1. ended' \in {ended, "ChunkTimeout", "FileError"}
    BY <1>8 DEF ChunkTimeout, EndStream, EndSession
  <2> QED
    BY <1>8, <2>1, ControlType DEF ChunkTimeout, EndStream, StreamTypeOK, ReaderSteps
<1> QED
  BY <1>1, <1>2, <1>3, <1>4, <1>5, <1>6, <1>7, <1>8 DEF Respond

\* The chunk the remote cluster sends next
LEMMA NextChunk ==
    ASSUME StreamTypeOK, NEW n \in ChunkSizes, offset + n <= MaxSize
    PROVE  /\ n \in Nat /\ offset \in Nat
           /\ [i \in 1..n |-> offset + i] = Run(offset, offset + n)
           /\ [i \in 1..n |-> offset + i] \in Seq(Bytes)
<1>1. n \in Nat /\ offset \in Nat /\ MaxSize \in Nat
  BY SizesAssumption DEF StreamTypeOK
<1>2. (offset + n) - offset = n
  BY <1>1
<1>3. \A i \in 1..n : offset + i \in Bytes
  BY <1>1 DEF Bytes
<1> QED
  BY <1>1, <1>2, <1>3 DEF Run

\* What the remote cluster sends is a message, and what it carries
LEMMA RemoteSent ==
    ASSUME StreamTypeOK, Remote
    PROVE  /\ UNCHANGED <<stateVars, handlerVars, readerVars, orders, socket, halted>>
           /\ socket /\ offset' \in 0..MaxSize /\ offset <= offset' /\ declared' \in BOOLEAN
           /\ declared => declared'
           /\ \E m \in Messages :
                 /\ wire' = Append(wire, m)
                 /\ m.type = "details" => ~declared /\ declared'
                 /\ Load(m) = Run(offset, offset')
<1>0. offset \in 0..MaxSize /\ offset <= offset /\ declared \in BOOLEAN
      /\ Run(offset, offset) = <<>>
  BY SizesAssumption, RunEmpty DEF StreamTypeOK
<1>1. ASSUME NEW n \in 0..MaxSize, RemoteDetails(n)
      PROVE  /\ ~declared /\ declared' /\ offset' = offset /\ declared' = TRUE
             /\ UNCHANGED <<stateVars, handlerVars, readerVars, orders, socket, halted>>
             /\ socket
             /\ Details(n) \in Messages /\ wire' = Append(wire, Details(n))
             /\ Load(Details(n)) = <<>>
  BY <1>1, SentMessages DEF RemoteDetails, RemoteSends, Load
<1>2. ASSUME NEW n \in ChunkSizes, RemoteChunk(n)
      PROVE  \E b \in Seq(Bytes) :
             /\ b = Run(offset, offset') /\ UNCHANGED declared /\ offset <= offset'
             /\ offset' \in 0..MaxSize
             /\ UNCHANGED <<stateVars, handlerVars, readerVars, orders, socket, halted>>
             /\ socket
             /\ Chunk(b) \in Messages /\ wire' = Append(wire, Chunk(b))
             /\ Load(Chunk(b)) = b /\ Chunk(b).type = "chunk"
  <2> DEFINE b == [i \in 1..n |-> offset + i]
  <2>1. offset + n <= MaxSize /\ offset' = offset + n
    BY <1>2 DEF RemoteChunk
  <2>2. b \in Seq(Bytes) /\ b = Run(offset, offset') /\ n \in Nat /\ offset \in Nat
    BY <2>1, NextChunk
  <2>3. offset <= offset' /\ offset' \in 0..MaxSize
    BY <2>1, <2>2, SizesAssumption
  <2>4. /\ wire' = Append(wire, Chunk(b)) /\ UNCHANGED declared /\ socket
        /\ UNCHANGED <<stateVars, handlerVars, readerVars, orders, socket, halted>>
    BY <1>2 DEF RemoteChunk, RemoteSends
  <2> HIDE DEF b
  <2> QED
    BY <2>2, <2>3, <2>4, SentMessages DEF Load
<1>3. ASSUME RemoteFault
      PROVE  /\ UNCHANGED <<declared, offset>> /\ socket
             /\ UNCHANGED <<stateVars, handlerVars, readerVars, orders, socket, halted>>
             /\ Fault \in Messages /\ wire' = Append(wire, Fault)
             /\ Load(Fault) = <<>> /\ Fault.type = "fault"
  BY <1>3, SentMessages DEF RemoteFault, RemoteSends, Load
<1>4. CASE \E n \in 0..MaxSize : RemoteDetails(n)
  BY <1>0, <1>1, <1>4
<1>5. CASE \E n \in ChunkSizes : RemoteChunk(n)
  BY <1>0, <1>2, <1>5
<1>6. CASE RemoteFault
  BY <1>0, <1>3, <1>6
<1> QED
  BY <1>4, <1>5, <1>6 DEF Remote

\* The remote cluster, the socket and the client keep the types.
LEMMA OtherType ==
    ASSUME StreamTypeOK,
           Remote \/ DeliverPause \/ DeliverResume \/ CloseSocket \/ ClientLeaves
    PROVE  StreamTypeOK'
<1>1. CASE Remote
  <2>1. wire' \in Seq(Messages)
    <3>1. PICK m \in Messages : wire' = Append(wire, m)
      BY <1>1, RemoteSent
    <3>2. wire \in Seq(Messages)
      BY DEF StreamTypeOK
    <3> QED
      BY <3>1, <3>2, AppendShape
  <2> QED
    BY <1>1, <2>1, RemoteSent DEF StreamTypeOK
<1>2. CASE DeliverPause \/ DeliverResume
  <2>1. orders' \in [Orders -> Nat]
    BY <1>2 DEF DeliverPause, DeliverResume, Obeys, StreamTypeOK, Orders
  <2>2. halted' \in BOOLEAN
    BY <1>2 DEF DeliverPause, DeliverResume
  <2>3. UNCHANGED <<stateVars, handlerVars, readerVars, socket, wire, declared, offset>>
    BY <1>2 DEF DeliverPause, DeliverResume, Obeys
  <2> QED
    BY <2>1, <2>2, <2>3 DEF StreamTypeOK
<1>3. CASE CloseSocket
  <2>1. <<>> \in Seq(Messages) /\ NoOrders \in [Orders -> Nat]
    BY DEF NoOrders
  <2>2. ended' \in {ended, "WebSocketClosed"}
    BY <1>3 DEF CloseSocket, EndSession
  <2> QED
    BY <1>3, <2>1, <2>2 DEF CloseSocket, StreamTypeOK
<1>4. CASE ClientLeaves
  <2>1. ended' \in {ended, "ResponseError"}
    BY <1>4 DEF ClientLeaves, EndSession
  <2> QED
    BY <1>4, <2>1, ControlType DEF ClientLeaves, StreamTypeOK, ReaderSteps
<1> QED
  BY <1>1, <1>2, <1>3, <1>4

-----------------------------------------------------------------------------
(* What the client gets                                                    *)

\* The steps that move no byte
LEMMA OutFrame ==
    ASSUME OutInv, UNCHANGED <<body, output, sentBytes, fileSize, receivedData>>,
           reader' \notin Yielding \cup {"gone"} => reader \notin Yielding \cup {"gone"},
           reader' = "recv" => sentBytes < fileSize,
           ended' = "Complete" => sentBytes = fileSize /\ receivedData
    PROVE  OutInv'
<1>1. Run(0, Len(body))' = Run(0, Len(body))
      /\ Run(Len(body), sentBytes)' = Run(Len(body), sentBytes)
  BY DEF Run
<1> QED
  BY <1>1 DEF OutInv, Yielding

\* FILE_DETAILS keeps what is known of the body: nothing has been yielded yet.
LEMMA OutDetails ==
    ASSUME StreamTypeOK, StreamTypeOK', OutInv, DetailsInv, TakeDetails
    PROVE  OutInv'
<1>1. /\ UNCHANGED <<body, output, sentBytes, reader, ended>> /\ wire # <<>>
      /\ Head(wire).type = "details" /\ receivedData' = TRUE
  BY DEF TakeDetails
<1>2. wire \in Seq(Messages) /\ sentBytes \in Nat /\ fileSize' \in Nat
  BY DEF StreamTypeOK
<1>3. ~receivedData
  <2>1. 1 \in 1..Len(wire) /\ Head(wire) = wire[1]
    BY <1>1, <1>2, TailShape
  <2> QED
    BY <1>1, <2>1 DEF DetailsInv
<1>4. sentBytes = 0 /\ fileSize = 0 /\ reader # "recv" /\ ended # "Complete"
  BY <1>3 DEF DetailsInv, OutInv, Unanswered
<1>5. sentBytes' <= fileSize'
  BY <1>1, <1>2, <1>4
<1>6. Run(0, Len(body))' = Run(0, Len(body))
      /\ Run(Len(body), sentBytes)' = Run(Len(body), sentBytes)
  BY <1>1 DEF Run
<1> QED
  BY <1>1, <1>4, <1>5, <1>6 DEF OutInv, Yielding

\* A chunk of the chain follows what was sent, and is sliced at the end.
LEMMA OutReceive ==
    ASSUME StreamTypeOK, StreamTypeOK', OutInv, DetailsInv, ChainInv, ReceiveChunk
    PROVE  OutInv'
<1> DEFINE over == sentBytes + Len(Head(chunks)) > fileSize
<1>1. /\ reader = "recv" /\ chunks # <<>>
      /\ output' = IF over THEN SubSeq(Head(chunks), 1, fileSize - sentBytes) ELSE Head(chunks)
      /\ sentBytes' = IF over THEN fileSize ELSE sentBytes + Len(Head(chunks))
      /\ reader' \in {"last", "load"} /\ ended' \in {ended, "Complete"}
      /\ ~over => ended' = ended
      /\ UNCHANGED <<fileSize, receivedData, body>>
  BY DEF ReceiveChunk, EndSession
<1>2. /\ chunks \in Seq(Seq(Bytes)) /\ sentBytes \in Nat /\ fileSize \in Nat
      /\ body \in Seq(Bytes)
  BY DEF StreamTypeOK
<1>3. sentBytes < fileSize /\ Len(body) = sentBytes /\ receivedData /\ ended # "Complete"
  <2>1. sentBytes < fileSize /\ Len(body) = sentBytes /\ receivedData
    BY <1>1 DEF OutInv, DetailsInv, Yielding, Unanswered
  <2>2. sentBytes # fileSize
    BY <1>2, <2>1
  <2> QED
    BY <2>1, <2>2 DEF OutInv
<1>4. PICK m \in Nat : sentBytes <= m /\ Head(chunks) = Run(sentBytes, m)
  <2>1. Chain(chunks, sentBytes, Pushed)
    BY <1>3 DEF ChainInv, Unsliced
  <2> QED
    BY <1>1, <1>2, <2>1, ChainTail
<1>5. Len(Head(chunks)) = m - sentBytes
  BY <1>2, <1>4, RunShape
<1>6. CASE over
  <2>1. fileSize <= m /\ sentBytes <= fileSize
    BY <1>2, <1>3, <1>4, <1>5, <1>6
  <2>2. output' = Run(sentBytes, fileSize)
    BY <1>1, <1>2, <1>4, <1>6, <2>1, RunPrefix
  <2>3. output' = Run(sentBytes, sentBytes') /\ sentBytes' = fileSize
    BY <1>1, <1>6, <2>2
  <2> HIDE DEF over
  <2>4. Run(0, Len(body))' = Run(0, Len(body))
    BY <1>1 DEF Run
  <2>5. fileSize <= fileSize
    BY <1>2
  <2> QED
    BY <1>1, <1>3, <2>1, <2>3, <2>4, <2>5 DEF OutInv, Yielding
<1>7. CASE ~over
  <2>1. sentBytes' = m /\ m <= fileSize
    BY <1>1, <1>2, <1>4, <1>5, <1>7
  <2>2. output' = Run(sentBytes, sentBytes') /\ ended' # "Complete"
    BY <1>1, <1>3, <1>4, <1>7, <2>1
  <2> HIDE DEF over
  <2>3. Run(0, Len(body))' = Run(0, Len(body))
    BY <1>1 DEF Run
  <2> QED
    BY <1>1, <1>3, <1>4, <2>1, <2>2, <2>3 DEF OutInv, Yielding
<1> QED
  BY <1>6, <1>7

\* A yielded chunk continues the body, cut at the declared length.
LEMMA OutYield ==
    ASSUME StreamTypeOK, OutInv, DetailsInv, YieldChunk
    PROVE  OutInv'
<1>1. /\ body' = body \o output /\ output' = <<>> /\ reader' \in {"end", "loop"}
      /\ UNCHANGED <<sentBytes, fileSize, receivedData>>
      /\ reader \in {"yield", "last"}
      /\ ended' = "Complete" => ended = "Complete" \/ sentBytes = fileSize
  BY DEF YieldChunk, EndSession
<1>2. Len(body) \in Nat /\ sentBytes \in Nat /\ Len(body) <= sentBytes
  <2>1. body \in Seq(Bytes) /\ sentBytes \in Nat
    BY DEF StreamTypeOK
  <2> QED
    BY <2>1 DEF OutInv
<1>3. body' = Run(0, sentBytes)
  <2>0. 0 \in Nat /\ 0 <= Len(body)
    BY <1>2
  <2>1. Run(0, Len(body)) \o Run(Len(body), sentBytes) = Run(0, sentBytes)
    BY <1>2, <2>0, RunConcat
  <2> QED
    BY <1>1, <2>1 DEF OutInv
<1>4. Len(body') = sentBytes
  BY <1>2, <1>3, RunShape
<1>5. output' = Run(sentBytes, sentBytes) /\ sentBytes <= sentBytes
  BY <1>1, <1>2, RunEmpty
<1>6. receivedData
  BY <1>1 DEF DetailsInv, Unanswered
<1>7. /\ body' = Run(0, Len(body'))
      /\ output' = Run(Len(body'), sentBytes')
      /\ Len(body') = sentBytes' /\ Len(body') <= sentBytes'
  BY <1>1, <1>3, <1>4, <1>5
<1> QED
  BY <1>1, <1>6, <1>7 DEF OutInv

\* Every step keeps what is known of the body.
LEMMA OutStep ==
    ASSUME StreamInv, StreamTypeOK', StreamNext
    PROVE  OutInv'
<1> USE DEF StreamInv
<1>1. CASE TakeDetails
  BY <1>1, OutDetails
<1>2. CASE Handle /\ ~TakeDetails
  <2>1. UNCHANGED <<body, output, sentBytes, fileSize, receivedData, reader, ended>>
    BY <1>2 DEF Handle, TakeChunk, CountChunk, PushChunk, CheckBuffer, MarkPaused,
       QueuePause, FinishChunk, TakeFault
  <2> QED
    BY <2>1, OutFrame DEF OutInv
<1>3. CASE ReceiveChunk
  BY <1>3, OutReceive
<1>4. CASE YieldChunk
  BY <1>4, OutYield
<1>5. CASE Evaluate
  <2>1. /\ UNCHANGED <<body, output, sentBytes, fileSize, receivedData>>
        /\ reader = "evaluate" /\ reader' \in {"refused", "loop"}
        /\ ended' = "Complete" => ended = "Complete" \/ (receivedData /\ fileSize = 0)
    <3>1. /\ UNCHANGED <<body, output, sentBytes, fileSize, receivedData>>
          /\ reader = "evaluate" /\ reader' \in {"refused", "loop"}
      BY <1>5 DEF Evaluate
    <3>2. CASE receivedData
      BY <1>5, <3>1, <3>2 DEF Evaluate, EndSession
    <3>3. CASE ~receivedData
      BY <1>5, <3>1, <3>3 DEF Evaluate, EndSession
    <3> QED
      BY <3>2, <3>3
  <2>2. sentBytes \in Nat /\ fileSize \in Nat /\ sentBytes <= fileSize
    BY DEF StreamTypeOK, OutInv
  <2>3. fileSize = 0 => sentBytes = fileSize
    BY <2>2
  <2> QED
    BY <2>1, <2>3, OutFrame DEF OutInv, Yielding
<1>6. CASE Respond /\ ~ReceiveChunk /\ ~YieldChunk /\ ~Evaluate
  <2>1. UNCHANGED <<body, output, sentBytes, fileSize, receivedData>>
    BY <1>6 DEF Respond, CheckReady, WakeUp, AnswerTimeout, TestLoop, LoadReceived,
       ExchangePaused, QueueResume, ChunkTimeout, EndStream
  <2>2. ended' = "Complete" => ended = "Complete"
    BY <1>6 DEF Respond, CheckReady, WakeUp, AnswerTimeout, TestLoop, LoadReceived,
       ExchangePaused, QueueResume, ChunkTimeout, EndStream, EndSession
  <2>3. /\ reader' \notin Yielding \cup {"gone"} => reader \notin Yielding \cup {"gone"}
        /\ reader' = "recv" => sentBytes < fileSize
    BY <1>6 DEF Respond, CheckReady, WakeUp, AnswerTimeout, TestLoop, LoadReceived,
       ExchangePaused, QueueResume, ChunkTimeout, EndStream, Yielding
  <2> QED
    BY <2>1, <2>2, <2>3, OutFrame DEF OutInv
<1>7. CASE Remote \/ DeliverPause \/ DeliverResume \/ CloseSocket \/ ClientLeaves
  <2>1. UNCHANGED <<body, output, sentBytes, fileSize, receivedData>>
    BY <1>7, RemoteSent DEF DeliverPause, DeliverResume, Obeys, CloseSocket, ClientLeaves
  <2>2. ended' = "Complete" => ended = "Complete"
    BY <1>7, RemoteSent DEF DeliverPause, DeliverResume, Obeys, CloseSocket, ClientLeaves,
       EndSession
  <2>3. reader' = reader \/ reader' = "gone"
    BY <1>7, RemoteSent DEF DeliverPause, DeliverResume, Obeys, CloseSocket, ClientLeaves
  <2> QED
    BY <2>1, <2>2, <2>3, OutFrame DEF OutInv
<1> QED
  BY <1>1, <1>2, <1>3, <1>4, <1>5, <1>6, <1>7 DEF StreamNext

-----------------------------------------------------------------------------
(* The size of the file                                                    *)

\* What is known of FILE_DETAILS depends on few variables.
LEMMA DetailsFrame ==
    ASSUME DetailsInv, UNCHANGED <<receivedData, sentBytes, fileSize, declared, wire>>,
           ~receivedData => reader' \in Unanswered
    PROVE  DetailsInv'
  BY DEF DetailsInv, Unanswered

\* A message leaves the wire.
LEMMA DetailsTail ==
    ASSUME DetailsInv, wire \in Seq(Messages), wire # <<>>, wire' = Tail(wire),
           UNCHANGED declared,
           \/ /\ receivedData' = receivedData /\ sentBytes' = sentBytes
              /\ fileSize' = fileSize /\ reader' = reader
           \/ Head(wire).type = "details" /\ receivedData' = TRUE
    PROVE  DetailsInv'
<1>1. /\ Head(wire) = wire[1] /\ 1 \in 1..Len(wire) /\ Len(wire) \in Nat
      /\ Len(wire') = Len(wire) - 1
      /\ \A i \in 1..Len(wire') : i + 1 \in 1..Len(wire) /\ wire'[i] = wire[i + 1]
  BY TailShape
<1>2. \A i, j \in 1..Len(wire') :
         wire'[i].type = "details" /\ wire'[j].type = "details" => i = j
  <2>1. SUFFICES ASSUME NEW i \in 1..Len(wire'), NEW j \in 1..Len(wire'),
                        wire'[i].type = "details", wire'[j].type = "details"
                 PROVE  i = j
    OBVIOUS
  <2>2. i + 1 = j + 1
    BY <1>1, <2>1 DEF DetailsInv
  <2> QED
    BY <2>2
<1>3. CASE Head(wire).type = "details" /\ receivedData' = TRUE
  <2>1. declared
    BY <1>1, <1>3 DEF DetailsInv
  <2>2. ASSUME NEW i \in 1..Len(wire') PROVE wire'[i].type # "details"
    <3>1. wire'[i].type = "details" => i + 1 = 1
      BY <1>1, <1>3 DEF DetailsInv
    <3>2. i + 1 # 1
      OBVIOUS
    <3> QED
      BY <3>1, <3>2
  <2> QED
    BY <1>2, <1>3, <2>1, <2>2 DEF DetailsInv
<1>4. CASE /\ receivedData' = receivedData /\ sentBytes' = sentBytes
           /\ fileSize' = fileSize /\ reader' = reader
  BY <1>1, <1>2, <1>4 DEF DetailsInv, Unanswered
<1> QED
  BY <1>3, <1>4

\* The remote cluster sends FILE_DETAILS once and before the data.
LEMMA DetailsSent ==
    ASSUME StreamTypeOK, DetailsInv, Remote
    PROVE  DetailsInv'
<1>1. PICK m \in Messages :
         wire' = Append(wire, m) /\ (m.type = "details" => ~declared /\ declared')
  BY RemoteSent
<1>2. UNCHANGED <<receivedData, sentBytes, fileSize, reader>> /\ (declared => declared')
  BY RemoteSent
<1>3. wire \in Seq(Messages)
  BY DEF StreamTypeOK
<1>4. /\ wire'[Len(wire) + 1] = m /\ \A i \in 1..Len(wire) : wire'[i] = wire[i]
      /\ \A i \in 1..Len(wire') : i \in 1..Len(wire) \/ i = Len(wire) + 1
  BY <1>1, <1>3, AppendShape
<1>5. m.type = "details" => \A i \in 1..Len(wire) : wire[i].type # "details"
  BY <1>1 DEF DetailsInv
<1>6. \A i, j \in 1..Len(wire') :
         wire'[i].type = "details" /\ wire'[j].type = "details" => i = j
  BY <1>4, <1>5 DEF DetailsInv
<1>7. \A i \in 1..Len(wire') : wire'[i].type = "details" => declared' /\ ~receivedData'
  BY <1>1, <1>2, <1>4 DEF DetailsInv
<1> QED
  BY <1>2, <1>6, <1>7 DEF DetailsInv, Unanswered

\* Every step keeps what is known of FILE_DETAILS.
LEMMA DetailsStep ==
    ASSUME StreamInv, StreamNext
    PROVE  DetailsInv'
<1> USE DEF StreamInv
<1>0. wire \in Seq(Messages)
  BY DEF StreamTypeOK
<1>1. CASE TakeDetails
  BY <1>0, <1>1, DetailsTail DEF TakeDetails
<1>2. CASE TakeChunk \/ TakeFault
  <2>1. /\ wire # <<>> /\ wire' = Tail(wire)
        /\ UNCHANGED declared
    BY <1>2 DEF TakeChunk, TakeFault
  <2>2. UNCHANGED <<receivedData, sentBytes, fileSize, reader>>
    BY <1>2 DEF TakeChunk, TakeFault
  <2> QED
    BY <1>0, <2>1, <2>2, DetailsTail
<1>3. CASE Handle /\ ~TakeDetails /\ ~TakeChunk /\ ~TakeFault
  <2>1. UNCHANGED <<receivedData, sentBytes, fileSize, declared, wire, reader>>
    BY <1>3 DEF Handle, CountChunk, PushChunk, CheckBuffer, MarkPaused, QueuePause, FinishChunk
  <2> QED
    BY <2>1, DetailsFrame DEF DetailsInv
<1>4. CASE Respond
  <2>1. CASE ReceiveChunk
    <3>1. receivedData
      BY <2>1 DEF ReceiveChunk, DetailsInv, Unanswered
    <3>2. UNCHANGED <<receivedData, fileSize, declared, wire>>
      BY <2>1 DEF ReceiveChunk
    <3> QED
      BY <3>1, <3>2 DEF DetailsInv
  <2>2. CASE ~ReceiveChunk
    <3>1. UNCHANGED <<receivedData, sentBytes, fileSize, declared, wire>>
      BY <1>4, <2>2 DEF Respond, CheckReady, WakeUp, AnswerTimeout, Evaluate, TestLoop,
         LoadReceived, ExchangePaused, QueueResume, YieldChunk, ChunkTimeout, EndStream
    <3>2. reader \in Unanswered /\ ~receivedData => reader' \in Unanswered
      BY <1>4, <2>2 DEF Respond, CheckReady, WakeUp, AnswerTimeout, Evaluate, TestLoop,
         LoadReceived, ExchangePaused, QueueResume, YieldChunk, ChunkTimeout, EndStream,
         Unanswered
    <3> QED
      BY <3>1, <3>2, DetailsFrame DEF DetailsInv
  <2> QED
    BY <2>1, <2>2
<1>5. CASE Remote
  BY <1>5, DetailsSent
<1>6. CASE DeliverPause \/ DeliverResume \/ ClientLeaves
  <2>1. /\ UNCHANGED <<receivedData, sentBytes, fileSize, declared, wire>>
        /\ reader' = reader \/ reader' = "gone"
    BY <1>6 DEF DeliverPause, DeliverResume, Obeys, ClientLeaves
  <2> QED
    BY <2>1, DetailsFrame DEF DetailsInv, Unanswered
<1>7. CASE CloseSocket
  <2>1. /\ UNCHANGED <<receivedData, sentBytes, fileSize, declared, reader>>
        /\ wire' = <<>>
    BY <1>7 DEF CloseSocket
  <2>2. 1..Len(<<>>) = {}
    OBVIOUS
  <2> QED
    BY <2>1, <2>2 DEF DetailsInv, Unanswered
<1> QED
  BY <1>1, <1>2, <1>3, <1>4, <1>5, <1>6, <1>7 DEF StreamNext

-----------------------------------------------------------------------------
(* What is on its way to the client                                        *)

\* The payloads depend on the wire only.
LEMMA LoadsFrame ==
    ASSUME UNCHANGED wire
    PROVE  Loads' = Loads
  BY DEF Loads, Load

\* The chain of bytes depends on few variables; a handler outside of its work
\* on a chunk is not part of it.
LEMMA ChainFrame ==
    ASSUME ChainInv, UNCHANGED <<sentBytes, fileSize, chunks, received, socket, wire, offset>>,
           \/ handler' = handler /\ inHand' = inHand
           \/ handler \notin {"count", "push"} /\ handler' \notin {"count", "push"}
    PROVE  ChainInv'
<1>1. Loads' = Loads
  BY LoadsFrame
<1>2. CASE handler' = handler /\ inHand' = inHand
  <2>1. Pushed' = Pushed /\ Taken' = Taken
    BY <1>2 DEF Pushed, Taken
  <2> QED
    BY <1>1, <1>2, <2>1 DEF ChainInv, Unsliced, Chain, Run
<1>3. CASE handler \notin {"count", "push"} /\ handler' \notin {"count", "push"}
  <2>1. Pushed' = Pushed /\ Taken' = Taken
    BY <1>3 DEF Pushed, Taken
  <2> QED
    BY <1>1, <1>3, <2>1 DEF ChainInv, Unsliced, Chain, Run
<1> QED
  BY <1>2, <1>3

\* Reading a chunk moves it from the wire to the hands of the handler.
LEMMA ChainTakeChunk ==
    ASSUME StreamTypeOK, ChainInv, TakeChunk
    PROVE  ChainInv'
<1>1. /\ socket /\ handler = "idle" /\ wire # <<>> /\ Head(wire).type = "chunk"
      /\ inHand' = Head(wire).bytes /\ wire' = Tail(wire) /\ handler' = "count"
      /\ UNCHANGED <<sentBytes, fileSize, chunks, received, socket, offset>>
  BY DEF TakeChunk
<1>2. wire \in Seq(Messages) /\ received \in Nat
  BY DEF StreamTypeOK
<1>3. CASE Unsliced
  <2>1. Pushed = received /\ Taken = received
    BY <1>1 DEF Pushed, Taken
  <2>2. Chain(chunks, sentBytes, received) /\ Chain(Loads, received, offset)
    BY <1>1, <1>3, <2>1 DEF ChainInv
  <2>3. /\ Loads # <<>> /\ Head(Loads) = inHand'
        /\ Loads' = Tail(Loads) /\ Loads \in Seq(Seq(Bytes))
    BY <1>1, <1>2, LoadsTail DEF Load
  <2>4. PICK m \in Nat : /\ received <= m /\ Head(Loads) = Run(received, m)
                         /\ Chain(Tail(Loads), m, offset)
    BY <2>2, <2>3, ChainTail
  <2>5. Len(inHand') = m - received
    BY <1>2, <2>3, <2>4, RunShape
  <2>6. Pushed' = received /\ Taken' = m
    BY <1>1, <1>2, <2>5 DEF Pushed, Taken
  <2>7. /\ Chain(chunks', sentBytes', Pushed') /\ inHand' = Run(Pushed', Taken')
        /\ Pushed' <= Taken' /\ Chain(Loads', Taken', offset')
    BY <1>1, <2>2, <2>3, <2>4, <2>6
  <2> QED
    BY <1>2, <2>4, <2>6, <2>7 DEF ChainInv
<1>4. CASE ~Unsliced
  BY <1>1, <1>4 DEF ChainInv, Unsliced
<1> QED
  BY <1>3, <1>4

\* Counting a chunk leaves the chain as it is.
LEMMA ChainCount ==
    ASSUME StreamTypeOK, ChainInv, CountChunk
    PROVE  ChainInv'
<1>1. /\ handler = "count" /\ handler' = "push" /\ received' = received + Len(inHand)
      /\ UNCHANGED <<sentBytes, fileSize, chunks, inHand, socket, wire, offset>>
  BY DEF CountChunk
<1>2. received \in Nat /\ inHand \in Seq(Bytes) /\ Loads' = Loads
  BY <1>1, LoadsFrame DEF StreamTypeOK
<1>3. Pushed = received /\ Taken = received + Len(inHand)
  BY <1>1 DEF Pushed, Taken
<1>4. Len(inHand) \in Nat
  BY <1>2
<1>5. (received + Len(inHand)) - Len(inHand) = received
  BY <1>2, <1>4
<1>6. Pushed' = Pushed /\ Taken' = Taken
  BY <1>1, <1>3, <1>5 DEF Pushed, Taken
<1>7. CASE Unsliced
  <2>1. /\ Chain(chunks', sentBytes', Pushed') /\ inHand' = Run(Pushed', Taken')
        /\ Pushed' <= Taken' /\ Pushed' \in Nat /\ Taken' \in Nat
        /\ socket' => Chain(Loads', Taken', offset')
    BY <1>1, <1>2, <1>6, <1>7 DEF ChainInv
  <2> QED
    BY <2>1 DEF ChainInv
<1>8. CASE ~Unsliced
  BY <1>1, <1>8 DEF ChainInv, Unsliced
<1> QED
  BY <1>7, <1>8

\* Pushing a chunk moves it to the end of the channel.
LEMMA ChainPush ==
    ASSUME StreamTypeOK, ChainInv, PushChunk
    PROVE  ChainInv'
<1>1. /\ handler = "push" /\ handler' = "check" /\ chunks' = Append(chunks, inHand)
      /\ UNCHANGED <<sentBytes, fileSize, received, inHand, socket, wire, offset>>
  BY DEF PushChunk
<1>2. /\ inHand \in Seq(Bytes) /\ chunks \in Seq(Seq(Bytes)) /\ Loads' = Loads
      /\ received \in Nat
  BY <1>1, LoadsFrame DEF StreamTypeOK
<1>3. Taken = received /\ Pushed' = received /\ Taken' = received
  BY <1>1 DEF Pushed, Taken
<1>4. CASE Unsliced
  <2>1. /\ Chain(chunks, sentBytes, Pushed) /\ inHand = Run(Pushed, received)
        /\ Pushed <= received /\ Pushed \in Nat
        /\ socket => Chain(Loads, received, offset)
    BY <1>1, <1>3, <1>4 DEF ChainInv
  <2>2. Chain(Append(chunks, inHand), sentBytes, received)
    BY <1>2, <2>1, ChainAppend
  <2>3. /\ Chain(chunks', sentBytes', Pushed')
        /\ socket' => Chain(Loads', Taken', offset')
        /\ Pushed' \in Nat /\ Taken' \in Nat
    BY <1>1, <1>2, <1>3, <2>1, <2>2
  <2> QED
    BY <1>1, <2>3 DEF ChainInv
<1>5. CASE ~Unsliced
  BY <1>1, <1>5 DEF ChainInv, Unsliced
<1> QED
  BY <1>4, <1>5

\* A message that carries no byte leaves the wire: FILE_DETAILS finds the
\* chain as it was before the size was known.
LEMMA ChainTakeOther ==
    ASSUME StreamTypeOK, DetailsInv, ChainInv, TakeDetails \/ TakeFault
    PROVE  ChainInv'
<1>1. /\ socket /\ handler = "idle" /\ wire # <<>> /\ Head(wire).type # "chunk"
      /\ wire' = Tail(wire)
      /\ UNCHANGED <<sentBytes, chunks, received, handler, inHand, socket, offset>>
  BY DEF TakeDetails, TakeFault
<1>2. wire \in Seq(Messages) /\ received \in Nat
  BY DEF StreamTypeOK
<1>3. Unsliced' => Unsliced
  <2>1. CASE TakeDetails
    <3>1. 1 \in 1..Len(wire) /\ Head(wire) = wire[1]
      BY <1>1, <1>2, TailShape
    <3>2. fileSize = 0
      BY <2>1, <3>1 DEF DetailsInv, TakeDetails
    <3> QED
      BY <3>2 DEF Unsliced
  <2>2. CASE TakeFault
    BY <2>2 DEF TakeFault, Unsliced
  <2> QED
    BY <2>1, <2>2
<1>4. CASE Unsliced
  <2>1. Pushed = received /\ Taken = received /\ Pushed' = received /\ Taken' = received
    BY <1>1 DEF Pushed, Taken
  <2>2. Chain(chunks, sentBytes, received) /\ Chain(Loads, received, offset)
    BY <1>1, <1>4, <2>1 DEF ChainInv
  <2>3. /\ Loads # <<>> /\ Head(Loads) = <<>>
        /\ Loads' = Tail(Loads) /\ Loads \in Seq(Seq(Bytes))
    BY <1>1, <1>2, LoadsTail DEF Load
  <2>4. PICK m \in Nat : /\ received <= m /\ Head(Loads) = Run(received, m)
                         /\ Chain(Tail(Loads), m, offset)
    BY <2>2, <2>3, ChainTail
  <2>5. m = received
    <3>1. Len(Run(received, m)) = m - received /\ Len(<<>>) = 0
      BY <1>2, <2>4, RunShape
    <3>2. m - received = 0
      BY <2>3, <2>4, <3>1
    <3> QED
      BY <1>2, <3>2
  <2>6. Chain(chunks', sentBytes', Pushed') /\ Chain(Loads', Taken', offset')
    BY <1>1, <2>1, <2>2, <2>3, <2>4, <2>5
  <2> QED
    BY <1>1, <1>2, <2>1, <2>6 DEF ChainInv
<1>5. CASE ~Unsliced
  BY <1>3, <1>5 DEF ChainInv
<1> QED
  BY <1>4, <1>5

\* The stream takes the first chunk of the channel, or slices the last.
LEMMA ChainReceive ==
    ASSUME StreamTypeOK, OutInv, ChainInv, ReceiveChunk
    PROVE  ChainInv'
<1> DEFINE over == sentBytes + Len(Head(chunks)) > fileSize
<1>1. /\ reader = "recv" /\ chunks # <<>> /\ chunks' = Tail(chunks)
      /\ sentBytes' = IF over THEN fileSize ELSE sentBytes + Len(Head(chunks))
      /\ UNCHANGED <<fileSize, received, handler, inHand, socket, wire, offset>>
  BY DEF ReceiveChunk
<1>2. chunks \in Seq(Seq(Bytes)) /\ sentBytes \in Nat /\ fileSize \in Nat /\ Loads' = Loads
  BY <1>1, LoadsFrame DEF StreamTypeOK
<1>3. sentBytes < fileSize
  BY <1>1 DEF OutInv
<1>4. CASE over
  <2>1. ~Unsliced'
    <3>1. sentBytes' = fileSize /\ fileSize' = fileSize
      BY <1>1, <1>4
    <3>2. ~(sentBytes' < fileSize') /\ fileSize' # 0
      BY <1>2, <1>3, <3>1
    <3> QED
      BY <3>2 DEF Unsliced
  <2> QED
    BY <2>1 DEF ChainInv
<1>5. CASE ~over
  <2>1. /\ Chain(chunks, sentBytes, Pushed) /\ Pushed \in Nat /\ Taken \in Nat
        /\ handler \in {"count", "push"} => inHand = Run(Pushed, Taken) /\ Pushed <= Taken
        /\ socket => Chain(Loads, Taken, offset)
    BY <1>3 DEF ChainInv, Unsliced
  <2>2. PICK m \in Nat : /\ sentBytes <= m /\ Head(chunks) = Run(sentBytes, m)
                         /\ Chain(Tail(chunks), m, Pushed)
    BY <1>1, <1>2, <2>1, ChainTail
  <2>3. Len(Head(chunks)) = m - sentBytes
    BY <1>2, <2>2, RunShape
  <2>4. sentBytes' = m
    BY <1>1, <1>2, <1>5, <2>2, <2>3
  <2> HIDE DEF over
  <2>5. Pushed' = Pushed /\ Taken' = Taken
    BY <1>1 DEF Pushed, Taken
  <2>6. Chain(chunks', sentBytes', Pushed')
    BY <1>1, <2>2, <2>4, <2>5
  <2>7. /\ handler' \in {"count", "push"} => inHand' = Run(Pushed', Taken') /\ Pushed' <= Taken'
        /\ socket' => Chain(Loads', Taken', offset')
        /\ Pushed' \in Nat /\ Taken' \in Nat
    BY <1>1, <1>2, <2>1, <2>5
  <2> QED
    BY <2>6, <2>7 DEF ChainInv
<1> QED
  BY <1>4, <1>5

\* What the remote cluster sends continues the chain.
LEMMA ChainSent ==
    ASSUME StreamTypeOK, ChainInv, Remote
    PROVE  ChainInv'
<1>1. /\ UNCHANGED <<sentBytes, fileSize, chunks, received, handler, inHand, socket>>
      /\ socket /\ offset' \in 0..MaxSize /\ offset <= offset'
  BY RemoteSent
<1>2. PICK m \in Messages : wire' = Append(wire, m) /\ Load(m) = Run(offset, offset')
  BY RemoteSent
<1>3. wire \in Seq(Messages) /\ offset \in Nat /\ offset' \in Nat
  BY <1>1, SizesAssumption DEF StreamTypeOK
<1>4. Loads' = Append(Loads, Load(m)) /\ Loads \in Seq(Seq(Bytes)) /\ Load(m) \in Seq(Bytes)
  BY <1>2, <1>3, LoadsAppend
<1>5. Pushed' = Pushed /\ Taken' = Taken
  BY <1>1 DEF Pushed, Taken
<1>6. CASE Unsliced
  <2>1. /\ Chain(chunks, sentBytes, Pushed) /\ Pushed \in Nat /\ Taken \in Nat
        /\ handler \in {"count", "push"} => inHand = Run(Pushed, Taken) /\ Pushed <= Taken
        /\ Chain(Loads, Taken, offset)
    BY <1>1, <1>6 DEF ChainInv
  <2>2. Chain(Append(Loads, Load(m)), Taken, offset')
    BY <1>1, <1>2, <1>3, <1>4, <2>1, ChainAppend
  <2>3. Chain(chunks', sentBytes', Pushed') /\ Chain(Loads', Taken', offset')
    BY <1>1, <1>4, <1>5, <2>1, <2>2
  <2>4. /\ handler' \in {"count", "push"} => inHand' = Run(Pushed', Taken') /\ Pushed' <= Taken'
        /\ Pushed' \in Nat /\ Taken' \in Nat
    BY <1>1, <1>5, <2>1
  <2> QED
    BY <2>3, <2>4 DEF ChainInv
<1>7. CASE ~Unsliced
  BY <1>1, <1>7 DEF ChainInv, Unsliced
<1> QED
  BY <1>6, <1>7

\* A closed socket cuts the chain after the channel.
LEMMA ChainClose ==
    ASSUME ChainInv, CloseSocket
    PROVE  ChainInv'
<1>1. /\ UNCHANGED <<sentBytes, fileSize, chunks, received, handler, inHand, offset>>
      /\ socket' = FALSE
  BY DEF CloseSocket
<1>2. Pushed' = Pushed /\ Taken' = Taken
  BY <1>1 DEF Pushed, Taken
<1>3. CASE Unsliced
  <2>1. /\ Chain(chunks', sentBytes', Pushed') /\ Pushed' \in Nat /\ Taken' \in Nat
        /\ handler' \in {"count", "push"} => inHand' = Run(Pushed', Taken') /\ Pushed' <= Taken'
    BY <1>1, <1>2, <1>3 DEF ChainInv
  <2> QED
    BY <1>1, <2>1 DEF ChainInv
<1>4. CASE ~Unsliced
  BY <1>1, <1>4 DEF ChainInv, Unsliced
<1> QED
  BY <1>3, <1>4

\* Every step keeps the chain of bytes.
LEMMA ChainStep ==
    ASSUME StreamInv, StreamNext
    PROVE  ChainInv'
<1> USE DEF StreamInv
<1>1. CASE TakeChunk
  BY <1>1, ChainTakeChunk
<1>2. CASE CountChunk
  BY <1>2, ChainCount
<1>3. CASE PushChunk
  BY <1>3, ChainPush
<1>4. CASE TakeDetails \/ TakeFault
  BY <1>4, ChainTakeOther
<1>5. CASE CheckBuffer \/ MarkPaused \/ QueuePause \/ FinishChunk
  <2>1. /\ UNCHANGED <<sentBytes, fileSize, chunks, received, socket, wire, offset>>
        /\ handler \in {"check", "mark", "pause", "ready"}
        /\ handler' \in {"mark", "pause", "ready", "idle"}
    BY <1>5 DEF CheckBuffer, MarkPaused, QueuePause, FinishChunk
  <2>2. handler \notin {"count", "push"} /\ handler' \notin {"count", "push"}
    BY <2>1
  <2> QED
    BY <2>1, <2>2, ChainFrame
<1>6. CASE ReceiveChunk
  BY <1>6, ChainReceive
<1>7. CASE Respond /\ ~ReceiveChunk
  <2>1. UNCHANGED <<sentBytes, fileSize, chunks, received, socket, wire, offset>>
    BY <1>7 DEF Respond, CheckReady, WakeUp, AnswerTimeout, Evaluate, TestLoop,
       LoadReceived, ExchangePaused, QueueResume, YieldChunk, ChunkTimeout, EndStream
  <2>2. handler' = handler /\ inHand' = inHand
    BY <1>7 DEF Respond, CheckReady, WakeUp, AnswerTimeout, Evaluate, TestLoop,
       LoadReceived, ExchangePaused, QueueResume, YieldChunk, ChunkTimeout, EndStream
  <2> QED
    BY <2>1, <2>2, ChainFrame
<1>8. CASE Remote
  BY <1>8, ChainSent
<1>9. CASE DeliverPause \/ DeliverResume \/ ClientLeaves
  <2>1. UNCHANGED <<sentBytes, fileSize, chunks, received, socket, wire, offset>>
    BY <1>9 DEF DeliverPause, DeliverResume, Obeys, ClientLeaves
  <2>2. handler' = handler /\ inHand' = inHand
    BY <1>9 DEF DeliverPause, DeliverResume, Obeys, ClientLeaves
  <2> QED
    BY <2>1, <2>2, ChainFrame
<1>10. CASE CloseSocket
  BY <1>10, ChainClose
<1> QED
  BY <1>1, <1>2, <1>3, <1>4, <1>5, <1>6, <1>7, <1>8, <1>9, <1>10 DEF StreamNext, Handle

-----------------------------------------------------------------------------
(* The bytes of a chain                                                    *)

\* Every set of natural numbers has a least element: what holds of 0, and of
\* n + 1 where it holds of n, has no least exception.
LEMMA LeastNat ==
    ASSUME NEW T \in SUBSET Nat, T # {}
    PROVE  \E n \in T : \A m \in T : n <= m
<1> DEFINE R == OpToRel(<, Nat)
<1>1. IsWellFoundedOn(R, Nat)
  BY NatLessThanWellFounded
<1>2. \A x, y \in Nat : <<y, x>> \in R <=> y < x
  BY DEF OpToRel
<1> HIDE DEF R
<1>3. PICK n \in T : \A m \in T : ~ (<<m, n>> \in R)
  BY <1>1, WFMin
<1>4. ASSUME NEW m \in T PROVE n <= m
  <2>1. n \in Nat /\ m \in Nat /\ ~(m < n)
    BY <1>2, <1>3
  <2> QED
    BY <2>1
<1> QED
  BY <1>4

\* The cuts of a chain are between its ends.
LEMMA CutsBetween ==
    ASSUME NEW n \in Nat, NEW cut \in [0..n -> Nat],
           \A i \in 1..n : cut[i - 1] <= cut[i]
    PROVE  \A i \in 0..n : cut[0] <= cut[i] /\ cut[i] <= cut[n]
<1>0. \A i \in 0..n : cut[i] \in Nat
  OBVIOUS
<1>1. ASSUME NEW i \in 0..n PROVE cut[0] <= cut[i]
  <2> DEFINE T == {j \in 0..n : ~(cut[0] <= cut[j])}
  <2>1. SUFFICES ASSUME T # {} PROVE FALSE
    OBVIOUS
  <2>2. PICK j \in T : \A k \in T : j <= k
    <3>1. T \in SUBSET Nat
      OBVIOUS
    <3> HIDE DEF T
    <3> QED
      BY <2>1, <3>1, LeastNat
  <2>3. 0 \in 0..n /\ 0 \notin T
    BY <1>0
  <2>4. j \in 1..n /\ j - 1 \in 0..n /\ ~(j <= j - 1)
    BY <2>2, <2>3
  <2>5. cut[0] <= cut[j - 1]
    BY <2>2, <2>4
  <2>6. cut[0] <= cut[j]
    BY <1>0, <2>3, <2>4, <2>5
  <2> QED
    BY <2>6
<1>2. ASSUME NEW i \in 0..n PROVE cut[i] <= cut[n]
  <2> DEFINE T == {j \in 0..n : ~(cut[n - j] <= cut[n])}
  <2>1. SUFFICES ASSUME T # {} PROVE FALSE
    <3>1. n - i \in 0..n /\ n - (n - i) = i
      OBVIOUS
    <3> QED
      BY <3>1
  <2>2. PICK j \in T : \A k \in T : j <= k
    <3>1. T \in SUBSET Nat
      OBVIOUS
    <3> HIDE DEF T
    <3> QED
      BY <2>1, <3>1, LeastNat
  <2>3. 0 \in 0..n /\ n \in 0..n /\ n - 0 = n /\ 0 \notin T
    BY <1>0
  <2>4. j \in 1..n /\ j - 1 \in 0..n /\ ~(j <= j - 1) /\ n - (j - 1) = (n - j) + 1
    <3>1. j \in 0..n /\ j # 0
      BY <2>2, <2>3
    <3> HIDE DEF T
    <3> QED
      BY <3>1
  <2>5. cut[(n - j) + 1] <= cut[n]
    BY <2>2, <2>4
  <2>6. (n - j) + 1 \in 1..n /\ ((n - j) + 1) - 1 = n - j
    BY <2>4
  <2>7. cut[n - j] <= cut[(n - j) + 1]
    BY <2>6
  <2>8. cut[n - j] \in Nat /\ cut[(n - j) + 1] \in Nat /\ cut[n] \in Nat
    BY <1>0, <2>3, <2>4, <2>6
  <2>9. cut[n - j] <= cut[n]
    BY <2>5, <2>7, <2>8
  <2> QED
    BY <2>9
<1> QED
  BY <1>1, <1>2

\* A chain from a to b holds the bytes between them and no others.
LEMMA ChainBytes ==
    ASSUME NEW S, NEW s \in Seq(S), NEW a \in Nat, NEW b \in Nat, Chain(s, a, b)
    PROVE  UNION {{s[i][k] : k \in 1..Len(s[i])} : i \in 1..Len(s)} = (a + 1)..b
<1> DEFINE n == Len(s)
           U == UNION {{s[i][k] : k \in 1..Len(s[i])} : i \in 1..n}
<1>0. n \in Nat
  OBVIOUS
<1>1. PICK cut \in [0..n -> Nat] :
         /\ cut[0] = a /\ cut[n] = b
         /\ \A i \in 1..n : cut[i - 1] <= cut[i] /\ s[i] = Run(cut[i - 1], cut[i])
  BY DEF Chain
<1>u. \A x : x \in U <=> \E i \in 1..n : \E k \in 1..Len(s[i]) : x = s[i][k]
  OBVIOUS
<1> HIDE DEF n, U
<1>2. \A i \in 0..n : cut[i] \in Nat /\ a <= cut[i] /\ cut[i] <= b
  BY <1>0, <1>1, CutsBetween
<1>3. ASSUME NEW i \in 1..n
      PROVE  /\ cut[i - 1] \in Nat /\ cut[i] \in Nat /\ a <= cut[i - 1] /\ cut[i] <= b
             /\ Len(s[i]) = cut[i] - cut[i - 1]
             /\ \A k \in 1..(cut[i] - cut[i - 1]) : s[i][k] = cut[i - 1] + k
  <2>1. i - 1 \in 0..n /\ i \in 0..n
    BY <1>0
  <2>2. cut[i - 1] \in Nat /\ cut[i] \in Nat /\ a <= cut[i - 1] /\ cut[i] <= b
    BY <1>2, <2>1
  <2>3. cut[i - 1] <= cut[i] /\ s[i] = Run(cut[i - 1], cut[i])
    BY <1>1
  <2>4. /\ Len(Run(cut[i - 1], cut[i])) = cut[i] - cut[i - 1]
        /\ \A k \in 1..(cut[i] - cut[i - 1]) : Run(cut[i - 1], cut[i])[k] = cut[i - 1] + k
    BY <2>2, <2>3, RunShape
  <2> QED
    BY <2>2, <2>3, <2>4
<1>4. ASSUME NEW i \in 1..n, NEW k \in 1..Len(s[i])
      PROVE  s[i][k] \in (a + 1)..b
  <2>1. /\ cut[i - 1] \in Nat /\ cut[i] \in Nat /\ a <= cut[i - 1] /\ cut[i] <= b
        /\ k \in 1..(cut[i] - cut[i - 1]) /\ s[i][k] = cut[i - 1] + k
    BY <1>3
  <2>2. cut[i - 1] + k \in (a + 1)..b
    BY <2>1
  <2> QED
    BY <2>1, <2>2
<1>5. ASSUME NEW x \in (a + 1)..b
      PROVE  \E i \in 1..n : \E k \in 1..Len(s[i]) : x = s[i][k]
  <2> DEFINE T == {i \in 0..n : x <= cut[i]}
  <2>1. n \in T
    BY <1>0, <1>1
  <2>2. PICK i \in T : \A j \in T : i <= j
    <3>1. T \in SUBSET Nat
      BY <1>0
    <3> HIDE DEF T
    <3> QED
      BY <2>1, <3>1, LeastNat
  <2>3. 0 \notin T
    BY <1>1
  <2>4. i \in 1..n /\ i - 1 \in 0..n /\ ~(i <= i - 1) /\ x <= cut[i]
    BY <1>0, <2>2, <2>3
  <2>5. ~(x <= cut[i - 1])
    BY <2>2, <2>4
  <2>6. /\ x - cut[i - 1] \in 1..(cut[i] - cut[i - 1])
        /\ cut[i - 1] + (x - cut[i - 1]) = x
    BY <1>3, <2>4, <2>5
  <2>7. x - cut[i - 1] \in 1..Len(s[i]) /\ x = s[i][x - cut[i - 1]]
    BY <1>3, <2>4, <2>6
  <2> QED
    BY <2>4, <2>7
<1>6. U = (a + 1)..b
  <2>1. \A x : x \in U => x \in (a + 1)..b
    BY <1>u, <1>4
  <2>2. \A x \in (a + 1)..b : x \in U
    BY <1>u, <1>5
  <2> QED
    BY <2>1, <2>2
<1> QED
  BY <1>6 DEF U, n

-----------------------------------------------------------------------------
(* The theorems                                                            *)

\* The invariant holds when the download begins.
LEMMA StreamInvInit ==
    ASSUME StreamInit
    PROVE  StreamInv
<1> USE SizesAssumption DEF StreamInit, StreamStart
<1>1. StreamTypeOK
  <2>1. /\ <<>> \in Seq(Bytes) /\ <<>> \in Seq(Seq(Bytes)) /\ <<>> \in Seq(Messages)
        /\ NoOrders \in [Orders -> Nat] /\ 0 \in 0..MaxSize
    BY DEF NoOrders
  <2> QED
    BY <2>1 DEF StreamTypeOK, HandlerSteps, ReaderSteps
<1>2. Len(<<>>) = 0 /\ Run(0, 0) = <<>> /\ 0 <= 0 /\ 1..0 = {}
  BY RunEmpty
<1>3. OutInv
  BY <1>2 DEF OutInv, NoReasonYet
<1>4. DetailsInv
  BY <1>2 DEF DetailsInv, Unanswered
<1>5. ChainInv
  <2>1. Pushed = 0 /\ Taken = 0
    BY DEF Pushed, Taken
  <2>2. Loads = <<>>
    <3>1. wire \in Seq(Messages)
      OBVIOUS
    <3>2. Loads \in Seq(Seq(Bytes)) /\ Len(Loads) = Len(wire)
      BY <3>1, LoadsShape
    <3> QED
      BY <1>2, <3>2
  <2>3. Chain(<<>>, 0, 0)
    BY ChainEmpty
  <2> QED
    BY <2>1, <2>2, <2>3 DEF ChainInv
<1> QED
  BY <1>1, <1>3, <1>4, <1>5 DEF StreamInv

\* Every step keeps the invariant.
LEMMA StreamInvStep ==
    ASSUME StreamInv, [StreamNext]_streamVars
    PROVE  StreamInv'
<1>1. CASE StreamNext
  <2>1. StreamTypeOK'
    BY <1>1, HandleType, RespondType, OtherType DEF StreamInv, StreamNext
  <2>2. OutInv'
    BY <1>1, <2>1, OutStep
  <2>3. DetailsInv'
    BY <1>1, DetailsStep
  <2>4. ChainInv'
    BY <1>1, ChainStep
  <2> QED
    BY <2>1, <2>2, <2>3, <2>4 DEF StreamInv
<1>2. CASE UNCHANGED streamVars
  <2> USE <1>2 DEF StreamInv, streamVars
  <2>1. StreamTypeOK'
    BY DEF StreamTypeOK
  <2>2. OutInv'
    BY OutFrame DEF OutInv
  <2>3. DetailsInv'
    BY DetailsFrame DEF DetailsInv
  <2>4. ChainInv'
    BY ChainFrame
  <2> QED
    BY <2>1, <2>2, <2>3, <2>4
<1> QED
  BY <1>1, <1>2

\* The inductive invariant of a download's transfer: the bytes at the client,
\* in the stream's hands, in the channel, in the WebSocket handler's hands
\* and on the wire follow one another, until a chunk has been sliced.
THEOREM StreamInductive == StreamSpec => []StreamInv
<1>1. StreamInit => StreamInv
  BY StreamInvInit
<1>2. StreamInv /\ [StreamNext]_streamVars => StreamInv'
  BY StreamInvStep
<1> QED
  BY <1>1, <1>2, PTL DEF StreamSpec

\* The response body is the file up to a byte no later than the declared
\* Content-Length, and a session that ends as Complete has delivered it all,
\* for files, chunks and buffers of any size and every race of the triggers.
THEOREM BodyIsFileHolds == StreamSpec => []BodyIsFile
<1>1. ASSUME StreamInv PROVE BodyIsFile
  <2>1. body \in Seq(Bytes) /\ sentBytes \in Nat /\ fileSize \in Nat
    BY <1>1 DEF StreamInv, StreamTypeOK
  <2>2. Len(body) \in Nat
    BY <2>1
  <2>3. /\ body = Run(0, Len(body)) /\ Len(body) <= sentBytes
        /\ output = Run(Len(body), sentBytes) /\ sentBytes <= fileSize
        /\ ended = "Complete" => sentBytes = fileSize
    BY <1>1 DEF StreamInv, OutInv
  <2>4. Len(body) <= fileSize
    BY <2>1, <2>2, <2>3
  <2>5. Len(output) = sentBytes - Len(body)
    BY <2>1, <2>2, <2>3, RunShape
  <2>6. Len(body) + Len(output) = sentBytes
    BY <2>1, <2>2, <2>5
  <2>7. Len(body) - 0 = Len(body) /\ \A i \in 1..Len(body) : 0 + i = i
    BY <2>2
  <2>8. Run(0, Len(body)) = [i \in 1..Len(body) |-> i]
    BY <2>7 DEF Run
  <2> QED
    BY <2>3, <2>4, <2>6, <2>8 DEF BodyIsFile
<1> QED
  BY <1>1, StreamInductive, PTL

\* The counters that decide on PAUSE and RESUME account for the bytes in the
\* channel, for any interleaving of handle_file_chunk and the stream.
THEOREM BufferAccountedHolds == StreamSpec => []BufferAccounted
<1>1. ASSUME StreamInv PROVE BufferAccounted
  <2>1. SUFFICES ASSUME sentBytes < fileSize
                 PROVE  UNION {{chunks[i][k] : k \in 1..Len(chunks[i])} : i \in 1..Len(chunks)}
                           = (sentBytes + 1)..Pushed
    <3>1. received - (IF handler = "push" THEN Len(inHand) ELSE 0) = Pushed
      <4>1. received \in Nat /\ received - 0 = received
        BY <1>1 DEF StreamInv, StreamTypeOK
      <4> QED
        BY <4>1 DEF Pushed
    <3> QED
      BY <3>1 DEF BufferAccounted
  <2>2. chunks \in Seq(Seq(Bytes)) /\ sentBytes \in Nat
    BY <1>1 DEF StreamInv, StreamTypeOK
  <2>3. Chain(chunks, sentBytes, Pushed) /\ Pushed \in Nat
    BY <1>1, <2>1 DEF StreamInv, ChainInv, Unsliced
  <2> QED
    BY <2>2, <2>3, ChainBytes
<1> QED
  BY <1>1, StreamInductive, PTL

\* A download_file that sleeps in wait_until_data_ready although data_ready
\* is set has a permit of data_notify: the invariant needs no other.
THEOREM ReadyNotMissedHolds == StreamSpec => []ReadyNotMissed
<1>1. StreamInit => ReadyNotMissed
  BY DEF StreamInit, StreamStart, ReadyNotMissed
<1>2. ASSUME ReadyNotMissed, [StreamNext]_streamVars
      PROVE  ReadyNotMissed'
  <2>1. CASE Handle
    <3>1. UNCHANGED reader
      BY <2>1 DEF Handle, TakeChunk, CountChunk, PushChunk, CheckBuffer, MarkPaused,
         QueuePause, FinishChunk, TakeDetails, TakeFault
    <3>2. wakeup' = TRUE \/ UNCHANGED <<dataReady, wakeup>>
      BY <2>1 DEF Handle, TakeChunk, CountChunk, PushChunk, CheckBuffer, MarkPaused,
         QueuePause, FinishChunk, TakeDetails, TakeFault, RecordTransferError, MarkReady
    <3> QED
      BY <1>2, <3>1, <3>2 DEF ReadyNotMissed
  <2>2. CASE Respond
    BY <1>2, <2>2 DEF Respond, CheckReady, WakeUp, AnswerTimeout, Evaluate, TestLoop,
       ReceiveChunk, LoadReceived, ExchangePaused, QueueResume, YieldChunk,
       ChunkTimeout, EndStream, ReadyNotMissed
  <2>3. CASE Remote \/ DeliverPause \/ DeliverResume \/ CloseSocket \/ ClientLeaves
    <3>1. UNCHANGED <<dataReady, wakeup>> /\ (UNCHANGED reader \/ reader' = "gone")
      BY <2>3 DEF Remote, RemoteDetails, RemoteChunk, RemoteFault, RemoteSends,
         DeliverPause, DeliverResume, Obeys, CloseSocket, ClientLeaves
    <3> QED
      BY <1>2, <3>1 DEF ReadyNotMissed
  <2>4. CASE UNCHANGED streamVars
    BY <1>2, <2>4 DEF ReadyNotMissed, streamVars
  <2> QED
    BY <1>2, <2>1, <2>2, <2>3, <2>4 DEF StreamNext
<1> QED
  BY <1>1, <1>2, PTL DEF StreamSpec

===============================================================================
