------------------------- MODULE MessageQueueProofs -------------------------
(***************************************************************************)
(* Proofs about MessageQueue for any set of sources, any number of levels  *)
(* and any bounds.                                                         *)
(***************************************************************************)
EXTENDS MessageQueue, FiniteSetTheorems, TLAPS

-----------------------------------------------------------------------------
(* The inductive invariant                                                 *)

\* The scheduler will come to the queue of p and s before it takes another
\* message of a level below p, and before it sleeps.
Ahead(p, s) ==
    \/ level < p /\ pc \in {"start", "round", "send", "peek"}
    \/ level = p /\ \/ pc \in {"start", "send", "peek"}
                    \/ pc = "round" /\ (s \in left \/ had)
    \/ level > p /\ \/ pc = "send"
                    \/ pc = "peek" /\ peek <= p

\* Every queue with data is known to its level, and the scheduler will come
\* to it or has been told of it.
WakeInv ==
    /\ pc \in {"send", "peek"} => had
    /\ \A p \in Levels, s \in Sources : HasData(p, s) =>
          /\ s \in keys[p]
          /\ dataPermit \/ Ahead(p, s) \/ pc = "exited"

\* An overtaken message is next.
OvertakeInv ==
    /\ \A m \in Messages : overtaken[m] <= 1
    /\ \A m \in Messages : m > count => overtaken[m] = 0
    /\ \A p \in Levels, s \in Sources : \A i \in 1..Len(queue[p][s]) :
          overtaken[queue[p][s][i]] = 1 => Ahead(p, s) \/ pc = "exited"

\* Queues are in the order of queue_message.
OrderInv ==
    /\ \A p \in Levels, s \in Sources : \A i \in 1..Len(queue[p][s]) :
          /\ queue[p][s][i] <= count
          /\ \A j \in 1..Len(queue[p][s]) : i < j => queue[p][s][i] < queue[p][s][j]
    /\ pc = "send" => held \in Messages /\ held <= count
    /\ SourceOrder

QInv == WakeInv /\ OvertakeInv /\ OrderInv /\ DrainNotForgotten

-----------------------------------------------------------------------------
(* Queues                                                                  *)

\* Appending and removing, element by element
LEMMA AppendElements ==
    ASSUME NEW S, NEW f \in Seq(S), NEW e \in S
    PROVE  /\ Len(f) \in Nat /\ Len(Append(f, e)) = Len(f) + 1
           /\ \A i \in 1..Len(f) : Append(f, e)[i] = f[i] /\ f[i] \in S
           /\ Append(f, e)[Len(f) + 1] = e
  OBVIOUS

\* The elements of a tail.
LEMMA TailElements ==
    ASSUME NEW S, NEW f \in Seq(S), f # <<>>, NEW i \in 1..Len(Tail(f))
    PROVE  i + 1 \in 1..Len(f) /\ Tail(f)[i] = f[i + 1]
<1>1. Len(f) \in Nat /\ Len(f) > 0 /\ Len(Tail(f)) = Len(f) - 1
  OBVIOUS
<1>2. i \in Nat /\ i >= 1 /\ i <= Len(f) - 1
  BY <1>1
<1> QED
  BY <1>1, <1>2

\* What queue_message and pop_front do to the queues
LEMMA PushEffect ==
    ASSUME TypeOK, NEW p \in Levels, NEW s \in Sources, QueueMessage(p, s)
    PROVE  /\ queue'[p][s] = Append(queue[p][s], count + 1)
           /\ queue[p][s] \in Seq(Messages) /\ count + 1 \in Messages
           /\ \A q \in Levels, t \in Sources :
                 q # p \/ t # s => queue'[q][t] = queue[q][t]
           /\ queue' \in [Levels -> [Sources -> Seq(Messages)]]
<1>1. queue[p] \in [Sources -> Seq(Messages)] /\ queue[p][s] \in Seq(Messages)
  BY DEF TypeOK
<1>2. count + 1 \in Messages
  BY BoundsAssumption DEF TypeOK, QueueMessage, Messages
<1>3. Append(queue[p][s], count + 1) \in Seq(Messages)
  BY <1>1, <1>2
<1>4. queue' = [queue EXCEPT ![p] = [@ EXCEPT ![s] = Append(queue[p][s], count + 1)]]
  BY <1>1 DEF QueueMessage, TypeOK
<1> QED BY <1>1, <1>2, <1>3, <1>4 DEF TypeOK

\* A pop takes the first message of one source and leaves the rest.
LEMMA PopEffect ==
    ASSUME TypeOK, NEW s \in Sources, PopSource(s)
    PROVE  /\ queue'[level][s] = Tail(queue[level][s])
           /\ queue[level][s] \in Seq(Messages) /\ queue[level][s] # <<>>
           /\ held' = Head(queue[level][s]) /\ held' \in Messages
           /\ \A q \in Levels, t \in Sources :
                 q # level \/ t # s => queue'[q][t] = queue[q][t]
           /\ queue' \in [Levels -> [Sources -> Seq(Messages)]]
<1>1. /\ queue[level] \in [Sources -> Seq(Messages)]
      /\ queue[level][s] \in Seq(Messages) /\ queue[level][s] # <<>>
  BY DEF TypeOK, PopSource, HasData
<1>2. /\ Tail(queue[level][s]) \in Seq(Messages)
      /\ Head(queue[level][s]) \in Messages
  BY <1>1
<1>3. queue' = [queue EXCEPT ![level] = [@ EXCEPT ![s] = Tail(queue[level][s])]]
  BY <1>1 DEF PopSource, TypeOK
<1> QED BY <1>1, <1>2, <1>3 DEF TypeOK, PopSource

-----------------------------------------------------------------------------
(* Type correctness                                                        *)

\* A scheduler that is about to send has taken a message out.
HeldInv == pc = "send" => held \in Messages

TypeInv == TypeOK /\ HeldInv

\* Every step keeps the types.
LEMMA TypeStep == TypeInv /\ [Next]_vars => TypeInv'
<1> SUFFICES ASSUME TypeInv, [Next]_vars PROVE TypeInv'
  OBVIOUS
<1> USE DEF TypeInv, HeldInv, queueVars, schedVars, pruneVars, drainVars, histVars
<1>l. /\ Levels \subseteq Int /\ 0 \in Levels /\ Top \in Levels
      /\ \A q \in Levels : q # Top => q + 1 \in Levels
      /\ \A q, r \in Levels : q < r => q + 1 \in Levels /\ q # Top
  BY TopAssumption DEF Levels
<1>a. ASSUME NEW p \in Levels, NEW s \in Sources, QueueMessage(p, s)
      PROVE  TypeInv'
  <2>1. queue' \in [Levels -> [Sources -> Seq(Messages)]]
    BY <1>a, PushEffect
  <2> QED BY <1>a, <2>1, BoundsAssumption DEF QueueMessage, TypeOK
<1>b. ASSUME NEW s \in Sources, SkipSource(s) PROVE TypeInv'
  BY <1>b DEF SkipSource, TypeOK
<1>c. ASSUME NEW s \in Sources, PopSource(s) PROVE TypeInv'
  <2>1. /\ queue' \in [Levels -> [Sources -> Seq(Messages)]]
        /\ held' \in Messages
    BY <1>c, PopEffect
  <2>2. ASSUME NEW m \in Messages
        PROVE  overtaken[m] + (IF OvertakesHigher(m) THEN 1 ELSE 0) \in Nat
    BY DEF TypeOK
  <2>3. overtaken' \in [Messages -> Nat]
    BY <1>c, <2>2 DEF PopSource
  <2>4. size' \in Int /\ sizePermit' \in BOOLEAN
    BY <1>c DEF PopSource, TypeOK
  <2> QED BY <1>c, <2>1, <2>3, <2>4 DEF PopSource, TypeOK
<1>d. CASE SendHeld
  <2>1. delivered' \subseteq Messages
    BY <1>d DEF SendHeld, TypeOK
  <2> QED BY <1>d, <2>1, <1>l DEF SendHeld, TypeOK
<1>e. ASSUME NEW empty \in BOOLEAN, DrainCall(empty) PROVE TypeInv'
  BY <1>e DEF DrainCall, TypeOK
<1>1. CASE SchedCheck
  BY <1>1, <1>l, BoundsAssumption DEF SchedCheck, TypeOK
<1>2. CASE SchedWait
  BY <1>2, <1>l, BoundsAssumption DEF SchedWait, TypeOK
<1>3. CASE SchedWake
  <2>1. dataPermit' \in BOOLEAN
    BY <1>3, <1>l DEF SchedWake, TypeOK
  <2>2. pc' \in {"start", "exited"} /\ level' \in Levels
    BY <1>3, <1>l DEF SchedWake, TypeOK
  <2> QED BY <1>3, <2>1, <2>2 DEF SchedWake, TypeOK
<1>4. CASE StartRound
  BY <1>4, <1>l, BoundsAssumption DEF StartRound, TypeOK
<1>5. CASE EndRound
  BY <1>5, <1>l, BoundsAssumption DEF EndRound, TypeOK
<1>6. CASE PeekHigher
  <2>1. peek' \in Levels /\ level' \in Levels
    BY <1>6, <1>l DEF PeekHigher, TypeOK
  <2>2. pc' \in {"round", "start", "peek"}
    BY <1>6, <1>l DEF PeekHigher, TypeOK
  <2> QED BY <1>6, <2>1, <2>2 DEF PeekHigher, TypeOK
<1>7. CASE PruneWake
  BY <1>7, <1>l, BoundsAssumption DEF PruneWake, TypeOK
<1>8. CASE PruneNext
  BY <1>8, <1>l, BoundsAssumption DEF PruneNext, TypeOK
<1>9. CASE DrainWake
  <2>1. sizePermit' \in BOOLEAN
    BY <1>9, <1>l DEF DrainWake, TypeOK
  <2>2. drain' = "woken"
    BY <1>9, <1>l DEF DrainWake, TypeOK
  <2> QED BY <1>9, <2>1, <2>2 DEF DrainWake, TypeOK
<1>10. CASE DrainCheck
  BY <1>10, <1>l, BoundsAssumption DEF DrainCheck, TypeOK
<1>11. CASE DrainTimeout
  BY <1>11, <1>l, BoundsAssumption DEF DrainTimeout, TypeOK
<1>12. CASE Stop
  <2>1. running' \in BOOLEAN
    BY <1>12, <1>l DEF Stop, TypeOK
  <2>2. pc' \in {"check", "enter", "woken", "start", "round", "send", "peek",
               "exited"} /\ (pc' = "send" => pc = "send")
    BY <1>12, <1>l DEF Stop, TypeOK
  <2>3. drain' \in {"idle", "woken", "timeout", "drained"}
    BY <1>12, <1>l DEF Stop, TypeOK
  <2> QED BY <1>12, <2>1, <2>2, <2>3 DEF Stop, TypeOK
<1>13. CASE AbortTasks
  BY <1>13, <1>l, BoundsAssumption DEF AbortTasks, TypeOK
<1>14. CASE SetConnection
  BY <1>14, <1>l, BoundsAssumption DEF SetConnection, TypeOK
<1>u. CASE UNCHANGED vars
  BY <1>u DEF vars, TypeOK
<1> QED
  BY <1>a, <1>b, <1>c, <1>d, <1>e, <1>u, <1>1, <1>2, <1>3, <1>4, <1>5, <1>6, <1>7,
     <1>8, <1>9, <1>10, <1>11, <1>12, <1>13, <1>14
     DEF Next, Work, SchedStep, PruneStep

\* The initial state has the right types.
LEMMA TypeInit == Init => TypeInv
  BY TopAssumption, BoundsAssumption
     DEF Init, TypeInv, HeldInv, TypeOK, Levels, Messages

\* TypeOK holds of every behaviour of scheduler, pruner, producers and waiter.
THEOREM QueueTypeCorrect == Spec => []TypeOK
<1>1. TypeInv => TypeOK
  BY DEF TypeInv
<1> QED BY <1>1, TypeInit, TypeStep, PTL DEF Spec

-----------------------------------------------------------------------------
(* Preservation of the inductive invariant                                 *)

\* A queue that has an element has data.
LEMMA ElementIsData ==
    ASSUME TypeInv, NEW p \in Levels, NEW s \in Sources,
           NEW i \in 1..Len(queue[p][s])
    PROVE  HasData(p, s) /\ queue[p][s][i] \in Messages
<1>1. queue[p][s] \in Seq(Messages)
  BY DEF TypeInv, TypeOK
<1> QED BY <1>1 DEF HasData

\* The scheduler does not turn its back on what is queued ...
Kept ==
    \A p \in Levels, s \in Sources :
        HasData(p, s) /\ (Ahead(p, s) \/ pc = "exited") =>
            Ahead(p, s)' \/ pc' = "exited"

\* ... unless it is told to come back.
Told ==
    \A p \in Levels, s \in Sources :
        HasData(p, s) /\ (dataPermit \/ Ahead(p, s) \/ pc = "exited") =>
            dataPermit' \/ Ahead(p, s)' \/ pc' = "exited"

\* Steps that leave the queues alone preserve the invariant if they are Kept
\* and Told.
LEMMA QuietStep ==
    ASSUME TypeInv, QInv, UNCHANGED <<queue, count, overtaken>>,
           \A p \in Levels, s \in Sources :
              HasData(p, s) /\ s \in keys[p] => s \in keys'[p],
           pc' \in {"send", "peek"} => had',
           pc' = "send" => pc = "send" /\ UNCHANGED <<held, level, source>>,
           Kept, Told
    PROVE  WakeInv' /\ OvertakeInv' /\ OrderInv'
<1> USE DEF QInv
<1>1. \A p \in Levels, s \in Sources : HasData(p, s)' <=> HasData(p, s)
  BY DEF HasData
<1>2. WakeInv'
  BY <1>1 DEF WakeInv, Told
<1>3. OvertakeInv'
  <2>1. ASSUME NEW p \in Levels, NEW s \in Sources,
               NEW i \in 1..Len(queue[p][s]), overtaken[queue[p][s][i]] = 1
        PROVE  Ahead(p, s)' \/ pc' = "exited"
    <3>1. HasData(p, s)
      BY ElementIsData
    <3>2. Ahead(p, s) \/ pc = "exited"
      BY <2>1 DEF OvertakeInv
    <3> QED BY <3>1, <3>2 DEF Kept
  <2> QED BY <2>1 DEF OvertakeInv
<1>4. OrderInv'
  BY DEF OrderInv, SourceOrder
<1> QED BY <1>2, <1>3, <1>4

\* Steps of others than producers and scheduler
LEMMA ElsewhereStep ==
    ASSUME TypeInv, QInv,
           UNCHANGED <<queue, dataPermit, schedVars, count, overtaken>>,
           \A p \in Levels, s \in Sources :
              HasData(p, s) /\ s \in keys[p] => s \in keys'[p]
    PROVE  WakeInv' /\ OvertakeInv' /\ OrderInv'
<1>1. UNCHANGED <<pc, level, left, had, source, held, peek>>
  BY DEF schedVars
<1>2. \A p \in Levels, s \in Sources : Ahead(p, s)' <=> Ahead(p, s)
  BY <1>1 DEF Ahead
<1>3. pc \in {"send", "peek"} => had
  BY DEF QInv, WakeInv
<1> QED BY <1>1, <1>2, <1>3, QuietStep DEF Kept, Told

\* The scheduler between its passes
LEMMA SleepSteps ==
    ASSUME TypeInv, QInv,
           SchedCheck \/ SchedWait \/ SchedWake \/ Stop \/ AbortTasks
    PROVE  QInv'
<1> USE DEF queueVars, histVars, drainVars
<1>l. \A p \in Levels : p \in Int /\ 0 <= p
  BY TopAssumption DEF Levels
<1>1. CASE SchedCheck \/ SchedWait
  <2>1. Kept /\ Told
    BY <1>1 DEF SchedCheck, SchedWait, Kept, Told, Ahead
  <2>2. DrainNotForgotten'
    BY <1>1 DEF SchedCheck, SchedWait, QInv, DrainNotForgotten, DrainTarget
  <2> QED BY <1>1, <2>1, <2>2, QuietStep DEF SchedCheck, SchedWait, QInv
<1>2. CASE SchedWake
  <2>1. Kept /\ Told
    <3> SUFFICES ASSUME NEW p \in Levels, NEW s \in Sources
                 PROVE  Ahead(p, s)' \/ pc' = "exited"
      BY DEF Kept, Told
    <3> QED BY <1>2, <1>l DEF SchedWake, Ahead
  <2>2. DrainNotForgotten'
    BY <1>2 DEF SchedWake, QInv, DrainNotForgotten, DrainTarget
  <2> QED BY <1>2, <2>1, <2>2, QuietStep DEF SchedWake, QInv
<1>3. CASE Stop
  <2>1. Kept /\ Told
    BY <1>3 DEF Stop, Kept, Told, Ahead
  <2>2. DrainNotForgotten'
    BY <1>3 DEF Stop, QInv, DrainNotForgotten, DrainTarget
  <2>3. pc' \in {"send", "peek"} => had'
    BY <1>3 DEF Stop, QInv, WakeInv
  <2> QED BY <1>3, <2>1, <2>2, <2>3, QuietStep DEF Stop, QInv
<1>4. CASE AbortTasks
  <2>1. Kept /\ Told
    BY <1>4 DEF AbortTasks, Kept, Told
  <2>2. DrainNotForgotten'
    BY <1>4 DEF AbortTasks, QInv, DrainNotForgotten, DrainTarget
  <2> QED BY <1>4, <2>1, <2>2, QuietStep DEF AbortTasks, QInv
<1> QED BY <1>1, <1>2, <1>3, <1>4

\* The scheduler within a pass, but for taking a message out
LEMMA PassSteps ==
    ASSUME TypeInv, QInv,
           StartRound \/ SendHeld \/ PeekHigher \/ EndRound
             \/ \E s \in Sources : SkipSource(s)
    PROVE  QInv'
<1> USE DEF queueVars, histVars, drainVars
<1>l. /\ \A p \in Levels : p \in Int /\ 0 <= p /\ p <= Top
      /\ level \in Levels /\ peek \in Levels /\ Top \in Int
  BY TopAssumption DEF Levels, TypeInv, TypeOK
<1>k. \A p \in Levels, s \in Sources : HasData(p, s) => s \in keys[p]
  BY DEF QInv, WakeInv
<1>h. pc \in {"send", "peek"} => had
  BY DEF QInv, WakeInv
<1>1. CASE StartRound
  <2>1. Kept /\ Told
    BY <1>1, <1>l, <1>k DEF StartRound, Kept, Told, Ahead
  <2>2. DrainNotForgotten'
    BY <1>1 DEF StartRound, QInv, DrainNotForgotten, DrainTarget
  <2> QED BY <1>1, <2>1, <2>2, QuietStep DEF StartRound, QInv
<1>2. CASE SendHeld
  <2>1. Kept /\ Told
    BY <1>2, <1>l DEF SendHeld, Kept, Told, Ahead
  <2>2. DrainNotForgotten'
    BY <1>2 DEF SendHeld, QInv, DrainNotForgotten, DrainTarget
  <2> QED BY <1>2, <1>h, <2>1, <2>2, QuietStep DEF SendHeld, QInv
<1>3. CASE PeekHigher
  <2>1. Kept /\ Told
    <3>1. CASE peek >= level
      BY <1>3, <1>h, <1>l, <3>1 DEF PeekHigher, Kept, Told, Ahead
    <3>2. CASE peek < level /\ \E s \in Sources : HasData(peek, s)
      BY <1>3, <1>l, <3>2 DEF PeekHigher, Kept, Told, Ahead
    <3>3. CASE peek < level /\ \A s \in Sources : ~HasData(peek, s)
      BY <1>3, <1>l, <3>3 DEF PeekHigher, Kept, Told, Ahead
    <3> QED BY <1>l, <3>1, <3>2, <3>3
  <2>2. DrainNotForgotten'
    BY <1>3 DEF PeekHigher, QInv, DrainNotForgotten, DrainTarget
  <2>3. pc' \in {"send", "peek"} => had'
    BY <1>3, <1>h DEF PeekHigher
  <2> QED BY <1>3, <2>1, <2>2, <2>3, QuietStep DEF PeekHigher, QInv
<1>4. CASE EndRound
  <2>1. Kept /\ Told
    <3>1. CASE had
      BY <1>4, <1>l, <3>1 DEF EndRound, Kept, Told, Ahead
    <3>2. CASE ~had /\ level < Top
      BY <1>4, <1>l, <3>2 DEF EndRound, Kept, Told, Ahead
    <3>3. CASE ~had /\ level = Top
      BY <1>4, <1>l, <3>3 DEF EndRound, Kept, Told, Ahead
    <3> QED BY <1>l, <3>1, <3>2, <3>3
  <2>2. DrainNotForgotten'
    BY <1>4 DEF EndRound, QInv, DrainNotForgotten, DrainTarget
  <2> QED BY <1>4, <2>1, <2>2, QuietStep DEF EndRound, QInv
<1>5. ASSUME NEW s \in Sources, SkipSource(s) PROVE QInv'
  <2>1. Kept /\ Told
    BY <1>5, <1>l DEF SkipSource, Kept, Told, Ahead
  <2>2. DrainNotForgotten'
    BY <1>5 DEF SkipSource, QInv, DrainNotForgotten, DrainTarget
  <2> QED BY <1>5, <2>1, <2>2, QuietStep DEF SkipSource, QInv
<1> QED BY <1>1, <1>2, <1>3, <1>4, <1>5

\* Pruner, waiter and connection
LEMMA OtherSteps ==
    ASSUME TypeInv, QInv,
           PruneStep \/ SetConnection \/ DrainWake \/ DrainCheck \/ DrainTimeout
             \/ \E empty \in BOOLEAN : DrainCall(empty)
    PROVE  QInv'
<1> USE DEF queueVars, histVars, drainVars
<1>1. CASE PruneWake \/ SetConnection
  <2>1. DrainNotForgotten'
    BY <1>1 DEF PruneWake, SetConnection, QInv, DrainNotForgotten, DrainTarget
  <2> QED BY <1>1, <2>1, ElsewhereStep DEF PruneWake, SetConnection, QInv
<1>2. CASE PruneNext
  <2>1. DrainNotForgotten'
    BY <1>2 DEF PruneNext, QInv, DrainNotForgotten, DrainTarget
  <2>2. \A p \in Levels, s \in Sources :
          HasData(p, s) /\ s \in keys[p] => s \in keys'[p]
    BY <1>2 DEF PruneNext, TypeInv, TypeOK
  <2> QED BY <1>2, <2>1, <2>2, ElsewhereStep DEF PruneNext, QInv
<1>3. CASE DrainWake \/ DrainCheck \/ DrainTimeout
  <2>1. DrainNotForgotten'
    BY <1>3, BufferAssumption
       DEF DrainWake, DrainCheck, DrainTimeout, QInv, DrainNotForgotten,
           DrainTarget, TypeInv, TypeOK
  <2> QED BY <1>3, <2>1, ElsewhereStep DEF DrainWake, DrainCheck, DrainTimeout, QInv
<1>4. ASSUME NEW empty \in BOOLEAN, DrainCall(empty) PROVE QInv'
  <2>1. DrainNotForgotten'
    BY <1>4, BufferAssumption
       DEF DrainCall, DrainNotForgotten, DrainTarget, TypeInv, TypeOK
  <2> QED BY <1>4, <2>1, ElsewhereStep DEF DrainCall, QInv
<1> QED BY <1>1, <1>2, <1>3, <1>4 DEF PruneStep

\* queue_message: the new message is the last of its queue, nobody has gone
\* ahead of it yet, and the scheduler is told.
LEMMA PushStep ==
    ASSUME TypeInv, QInv, NEW p \in Levels, NEW s \in Sources, QueueMessage(p, s)
    PROVE  QInv'
<1> USE DEF QInv
<1>e. /\ queue'[p][s] = Append(queue[p][s], count + 1)
      /\ queue[p][s] \in Seq(Messages) /\ count + 1 \in Messages
      /\ \A q \in Levels, t \in Sources :
            q # p \/ t # s => queue'[q][t] = queue[q][t]
  BY PushEffect DEF TypeInv
<1>f. /\ Len(queue[p][s]) \in Nat /\ Len(queue'[p][s]) = Len(queue[p][s]) + 1
      /\ \A i \in 1..Len(queue[p][s]) : queue'[p][s][i] = queue[p][s][i]
      /\ queue'[p][s][Len(queue[p][s]) + 1] = count + 1
      /\ \A i \in 1..Len(queue[p][s]) : queue[p][s][i] \in Int
      /\ count \in Int
  <2>1. PICK f \in Seq(Messages), e \in Messages : f = queue[p][s] /\ e = count + 1
    BY <1>e
  <2>2. count \in Int /\ Messages \subseteq Int
    BY BoundsAssumption DEF Messages, TypeInv, TypeOK
  <2>3. queue'[p][s] = Append(f, e)
    BY <1>e, <2>1
  <2>4. /\ Len(f) \in Nat /\ Len(Append(f, e)) = Len(f) + 1
        /\ \A i \in 1..Len(f) : Append(f, e)[i] = f[i] /\ f[i] \in Messages
        /\ Append(f, e)[Len(f) + 1] = e
    BY AppendElements
  <2> QED BY <2>1, <2>2, <2>3, <2>4
<1>g. /\ UNCHANGED <<pc, level, left, had, source, held, peek, overtaken, drain,
                     forEmpty, sizePermit>>
      /\ dataPermit' = TRUE /\ size' = size + 1 /\ count' = count + 1
      /\ \A q \in Levels : keys[q] \subseteq keys'[q]
      /\ s \in keys'[p]
  BY DEF QueueMessage, schedVars, drainVars, TypeInv, TypeOK
<1>a. \A q \in Levels, t \in Sources : Ahead(q, t)' <=> Ahead(q, t)
  BY <1>g DEF Ahead
<1>1. WakeInv'
  <2>1. \A q \in Levels, t \in Sources : HasData(q, t)' =>
          (q = p /\ t = s) \/ HasData(q, t)
    BY <1>e DEF HasData
  <2> QED BY <1>g, <2>1 DEF WakeInv
<1>2. OvertakeInv'
  <2>1. ASSUME NEW q \in Levels, NEW t \in Sources,
               NEW i \in 1..Len(queue'[q][t]), overtaken[queue'[q][t][i]] = 1
        PROVE  Ahead(q, t) \/ pc = "exited"
    <3>1. CASE q = p /\ t = s
      <4>1. i # Len(queue[p][s]) + 1
        BY <1>e, <1>f, <2>1, <3>1 DEF OvertakeInv
      <4>2. i \in 1..Len(queue[p][s])
        BY <1>f, <3>1, <4>1
      <4> QED BY <1>f, <2>1, <3>1, <4>2 DEF OvertakeInv
    <3>2. CASE ~(q = p /\ t = s)
      BY <1>e, <2>1, <3>2 DEF OvertakeInv
    <3> QED BY <3>1, <3>2
  <2>2. \A m \in Messages : m > count' => overtaken'[m] = 0
    BY <1>f, <1>g, BoundsAssumption DEF OvertakeInv, Messages
  <2> QED BY <1>g, <1>a, <2>1, <2>2 DEF OvertakeInv
<1>3. OrderInv'
  <2>1. ASSUME NEW q \in Levels, NEW t \in Sources,
               NEW i \in 1..Len(queue'[q][t])
        PROVE  /\ queue'[q][t][i] <= count'
               /\ \A j \in 1..Len(queue'[q][t]) :
                     i < j => queue'[q][t][i] < queue'[q][t][j]
    <3>1. CASE q = p /\ t = s
      <4>1. \A j \in 1..Len(queue'[p][s]) :
              j \in 1..Len(queue[p][s]) \/ j = Len(queue[p][s]) + 1
        BY <1>f
      <4>2. \A j \in 1..Len(queue[p][s]) : queue[p][s][j] <= count
        BY DEF OrderInv
      <4>3. \A j, k \in 1..Len(queue[p][s]) : j < k =>
              queue[p][s][j] < queue[p][s][k]
        BY DEF OrderInv
      <4>4. queue'[p][s][i] <= count + 1
        <5>1. CASE i \in 1..Len(queue[p][s])
          BY <1>f, <4>2, <5>1
        <5>2. CASE i = Len(queue[p][s]) + 1
          BY <1>f, <5>2
        <5> QED BY <3>1, <4>1, <5>1, <5>2
      <4>5. ASSUME NEW j \in 1..Len(queue'[p][s]), i < j
            PROVE  queue'[p][s][i] < queue'[p][s][j]
        <5>1. i \in 1..Len(queue[p][s])
          BY <1>f, <3>1, <4>5
        <5>2. CASE j \in 1..Len(queue[p][s])
          BY <1>f, <4>3, <4>5, <5>1, <5>2
        <5>3. CASE j = Len(queue[p][s]) + 1
          <6>1. queue'[p][s][i] = queue[p][s][i]
            BY <1>f, <5>1
          <6>2. queue'[p][s][j] = count + 1
            BY <1>f, <5>3
          <6>3. queue[p][s][i] \in Int /\ count \in Int
            <7>1. queue[p][s][i] \in Messages
              BY <5>1, ElementIsData
            <7>2. Messages \subseteq Int /\ count \in Int
              BY BoundsAssumption DEF Messages, TypeInv, TypeOK
            <7> QED BY <7>1, <7>2
          <6>4. queue[p][s][i] <= count
            BY <4>2, <5>1
          <6> QED BY <6>1, <6>2, <6>3, <6>4
        <5> QED BY <4>1, <5>2, <5>3
      <4> QED BY <1>g, <3>1, <4>4, <4>5
    <3>2. CASE ~(q = p /\ t = s)
      <4>1. queue'[q][t] = queue[q][t]
        BY <1>e, <3>2
      <4>2. queue[q][t][i] <= count /\ queue[q][t][i] \in Int
        BY <4>1, ElementIsData DEF OrderInv, Messages
      <4> QED BY <1>f, <1>g, <4>1, <4>2 DEF OrderInv
    <3> QED BY <3>1, <3>2
  <2>2. pc' = "send" => held' \in Messages /\ held' <= count'
    BY <1>f, <1>g, BoundsAssumption DEF OrderInv, Messages
  <2>3. SourceOrder'
    <3> SUFFICES ASSUME pc = "send", NEW i \in 1..Len(queue'[level][source])
                 PROVE  queue'[level][source][i] > held
      BY <1>g DEF SourceOrder
    <3>t. level \in Levels /\ source \in Sources
      BY DEF TypeInv, TypeOK
    <3>1. CASE level = p /\ source = s
      <4>1. held <= count /\ held \in Int
        BY BoundsAssumption DEF OrderInv, Messages
      <4>2. i \in 1..Len(queue[p][s]) \/ i = Len(queue[p][s]) + 1
        BY <1>f, <3>1
      <4>3. CASE i \in 1..Len(queue[p][s])
        <5>1. queue[p][s][i] > held
          BY <3>1, <4>3 DEF OrderInv, SourceOrder
        <5> QED BY <1>f, <3>1, <4>3, <5>1
      <4>4. CASE i = Len(queue[p][s]) + 1
        BY <1>f, <3>1, <4>1, <4>4
      <4> QED BY <4>2, <4>3, <4>4
    <3>2. CASE ~(level = p /\ source = s)
      BY <1>e, <3>t, <3>2 DEF OrderInv, SourceOrder
    <3> QED BY <3>1, <3>2
  <2> QED BY <2>1, <2>2, <2>3 DEF OrderInv
<1>4. DrainNotForgotten'
  BY <1>g, BufferAssumption DEF DrainNotForgotten, DrainTarget, TypeInv, TypeOK
<1> QED BY <1>1, <1>2, <1>3, <1>4

\* pop_front: what is overtaken now was not before, and comes next.
LEMMA PopStep ==
    ASSUME TypeInv, QInv, NEW s \in Sources, PopSource(s)
    PROVE  QInv'
<1> USE DEF QInv
<1>p. PICK p \in Levels : p = level
  BY DEF TypeInv, TypeOK
<1>e. /\ queue'[p][s] = Tail(queue[p][s])
      /\ queue[p][s] \in Seq(Messages) /\ queue[p][s] # <<>>
      /\ held' = Head(queue[p][s]) /\ held' \in Messages
      /\ \A q \in Levels, t \in Sources :
            q # p \/ t # s => queue'[q][t] = queue[q][t]
  BY <1>p, PopEffect DEF TypeInv
<1>f. /\ Len(queue[p][s]) \in Nat /\ Len(queue[p][s]) >= 1
      /\ Len(queue'[p][s]) = Len(queue[p][s]) - 1
      /\ \A i \in 1..Len(queue'[p][s]) : queue'[p][s][i] = queue[p][s][i + 1]
      /\ held' = queue[p][s][1]
  BY <1>e
<1>g. /\ pc = "round" /\ pc' = "send" /\ had' = TRUE /\ level' = p /\ level = p
      /\ source' = s /\ sizePermit' = TRUE
      /\ UNCHANGED <<keys, dataPermit, count>>
      /\ overtaken' = [m \in Messages |->
                         overtaken[m] + (IF OvertakesHigher(m) THEN 1 ELSE 0)]
  BY <1>p DEF PopSource
<1>l. /\ \A q \in Levels : q \in Int
      /\ \A m \in Messages : overtaken[m] \in Nat
  BY DEF Levels, TypeInv, TypeOK
<1>a. \A q \in Levels, t \in Sources : Ahead(q, t)'
  BY <1>g, <1>l DEF Ahead
<1>b. \A q \in Levels, t \in Sources : \A i \in 1..Len(queue'[q][t]) :
        \E j \in 1..Len(queue[q][t]) : queue'[q][t][i] = queue[q][t][j]
  <2> SUFFICES ASSUME NEW q \in Levels, NEW t \in Sources,
                      NEW i \in 1..Len(queue'[q][t])
               PROVE  \E j \in 1..Len(queue[q][t]) :
                        queue'[q][t][i] = queue[q][t][j]
    OBVIOUS
  <2>1. CASE q = p /\ t = s
    <3>1. i + 1 \in 1..Len(queue[p][s]) /\ queue'[p][s][i] = queue[p][s][i + 1]
      BY <1>f, <2>1
    <3> QED BY <2>1, <3>1
  <2>2. CASE ~(q = p /\ t = s)
    BY <1>e, <2>2
  <2> QED BY <2>1, <2>2
<1>1. WakeInv'
  <2>1. \A q \in Levels, t \in Sources : HasData(q, t)' => HasData(q, t)
    BY <1>e DEF HasData
  <2> QED BY <1>g, <1>a, <2>1 DEF WakeInv
<1>2. OvertakeInv'
  <2>1. ASSUME NEW m \in Messages, OvertakesHigher(m)
        PROVE  overtaken[m] = 0 /\ m <= count
    <3>1. PICK q \in Levels, t \in Sources : q < level /\ Queued(m, q, t)
      BY <2>1 DEF OvertakesHigher
    <3>2. PICK i \in 1..Len(queue[q][t]) : queue[q][t][i] = m
      BY <3>1 DEF Queued
    <3>3. ~Ahead(q, t)
      BY <1>g, <1>l, <3>1 DEF Ahead
    <3>4. overtaken[m] # 1
      BY <1>g, <3>2, <3>3 DEF OvertakeInv
    <3> QED BY <1>l, <3>2, <3>4 DEF OvertakeInv, OrderInv
  <2>2. \A m \in Messages : overtaken'[m] <= 1
    BY <1>g, <1>l, <2>1 DEF OvertakeInv
  <2>3. \A m \in Messages : m > count => overtaken'[m] = 0
    <3> SUFFICES ASSUME NEW m \in Messages, m > count
                 PROVE  overtaken'[m] = 0
      OBVIOUS
    <3>1. ~OvertakesHigher(m)
      BY <2>1, BoundsAssumption DEF Messages, TypeInv, TypeOK
    <3> QED BY <1>g, <1>l, <3>1 DEF OvertakeInv
  <2> QED BY <1>g, <1>a, <2>2, <2>3 DEF OvertakeInv
<1>3. OrderInv'
  <2>1. ASSUME NEW q \in Levels, NEW t \in Sources,
               NEW i \in 1..Len(queue'[q][t])
        PROVE  /\ queue'[q][t][i] <= count'
               /\ \A j \in 1..Len(queue'[q][t]) :
                     i < j => queue'[q][t][i] < queue'[q][t][j]
    <3>1. CASE q = p /\ t = s
      <4>1. \A j \in 1..Len(queue'[p][s]) :
              /\ j + 1 \in 1..Len(queue[p][s])
              /\ queue'[p][s][j] = queue[p][s][j + 1]
        <5> SUFFICES ASSUME NEW j \in 1..Len(queue'[p][s])
                     PROVE  /\ j + 1 \in 1..Len(queue[p][s])
                            /\ queue'[p][s][j] = queue[p][s][j + 1]
          OBVIOUS
        <5>1. j \in Int /\ 1 <= j /\ j <= Len(queue[p][s]) - 1
          BY <1>f
        <5>2. j + 1 \in 1..Len(queue[p][s])
          BY <5>1, <1>f
        <5>3. queue'[p][s][j] = queue[p][s][j + 1]
          BY <1>f
        <5> QED BY <5>2, <5>3
      <4>2. queue'[p][s][i] <= count
        BY <3>1, <4>1 DEF OrderInv
      <4>3. ASSUME NEW j \in 1..Len(queue'[p][s]), i < j
            PROVE  queue'[p][s][i] < queue'[p][s][j]
        <5>1. /\ i + 1 \in 1..Len(queue[p][s]) /\ j + 1 \in 1..Len(queue[p][s])
              /\ queue'[p][s][i] = queue[p][s][i + 1]
              /\ queue'[p][s][j] = queue[p][s][j + 1]
          BY <3>1, <4>1
        <5>2. i + 1 < j + 1
          BY <3>1, <4>3
        <5> QED BY <5>1, <5>2 DEF OrderInv
      <4> QED BY <1>g, <3>1, <4>2, <4>3
    <3>2. CASE ~(q = p /\ t = s)
      <4>1. queue'[q][t] = queue[q][t]
        BY <1>e, <3>2
      <4> QED BY <1>g, <4>1 DEF OrderInv
    <3> QED BY <3>1, <3>2
  <2>2. held' \in Messages /\ held' <= count'
    BY <1>e, <1>f, <1>g DEF OrderInv
  <2>3. SourceOrder'
    <3> SUFFICES ASSUME NEW i \in 1..Len(queue'[p][s])
                 PROVE  queue'[p][s][i] > held'
      BY <1>g DEF SourceOrder
    <3>1. /\ i + 1 \in 1..Len(queue[p][s]) /\ 1 \in 1..Len(queue[p][s])
          /\ queue'[p][s][i] = queue[p][s][i + 1] /\ 1 < i + 1
      BY <1>f
    <3>2. queue[p][s][1] < queue[p][s][i + 1]
      BY <3>1 DEF OrderInv
    <3>3. queue[p][s][1] \in Messages /\ queue[p][s][i + 1] \in Messages
      BY <3>1, ElementIsData
    <3> QED BY <1>f, <3>1, <3>2, <3>3 DEF Messages
  <2> QED BY <2>1, <2>2, <2>3 DEF OrderInv
<1>4. DrainNotForgotten'
  BY <1>g DEF DrainNotForgotten
<1> QED BY <1>1, <1>2, <1>3, <1>4

-----------------------------------------------------------------------------
(* The theorems                                                            *)

\* The initial state satisfies the inductive invariant.
LEMMA QInvInit == Init => QInv
  BY DEF Init, QInv, WakeInv, OvertakeInv, OrderInv, SourceOrder,
     DrainNotForgotten, HasData

\* Every step keeps the inductive invariant.
LEMMA QInvStep == TypeInv /\ QInv /\ [Next]_vars => QInv'
<1> SUFFICES ASSUME TypeInv, QInv, [Next]_vars PROVE QInv'
  OBVIOUS
<1>1. CASE UNCHANGED vars
  <2>1. DrainNotForgotten'
    BY <1>1 DEF vars, queueVars, drainVars, QInv, DrainNotForgotten, DrainTarget
  <2> QED BY <1>1, <2>1, ElsewhereStep DEF vars, queueVars, histVars, QInv
<1> QED BY <1>1, SleepSteps, PassSteps, OtherSteps, PushStep, PopStep
           DEF Next, Work, SchedStep

\* The strengthened invariant: the scheduler is on its way to every queue that
\* has data, or is going to be woken.
THEOREM QueueInductive == Spec => [](TypeInv /\ QInv)
  BY TypeInit, TypeStep, QInvInit, QInvStep, PTL DEF Spec

\* No wakeup of the scheduler is lost, for any number of levels and sources.
THEOREM NoLostWakeup == Spec => []SleepsOnlyWhenEmpty
<1>1. TypeInv /\ QInv => SleepsOnlyWhenEmpty
  BY DEF QInv, WakeInv, SleepsOnlyWhenEmpty, Ahead
<1> QED BY <1>1, QueueInductive, PTL

\* A message is overtaken by at most one of lower priority.
THEOREM Preemption == Spec => []OvertakenOnce
<1>1. TypeInv /\ QInv => OvertakenOnce
  BY DEF QInv, OvertakeInv, OvertakenOnce
<1> QED BY <1>1, QueueInductive, PTL

\* The messages of a source leave a level in the order they came.
THEOREM SourceFifo == Spec => []SourceOrder
<1>1. TypeInv /\ QInv => SourceOrder
  BY DEF QInv, OrderInv
<1> QED BY <1>1, QueueInductive, PTL

\* No waiter of wait_for_queue_drain misses the message that would end its wait.
THEOREM NoForgottenDrain == Spec => []DrainNotForgotten
<1>1. TypeInv /\ QInv => DrainNotForgotten
  BY DEF QInv
<1> QED BY <1>1, QueueInductive, PTL

-----------------------------------------------------------------------------
(* The accounting of queued_message_size                                   *)

\* Only finitely much is queued, the size is its amount, and nothing from
\* before the call is queued once wait_for_queue_drain(true) has succeeded.
SizeInv ==
    /\ IsFiniteSet(Places) /\ SizeIsQueued
    /\ mark <= count /\ DrainedIsEmpty

\* A member of a member is in the union.
LEMMA InUnion == ASSUME NEW T, NEW S \in T, NEW x \in S PROVE x \in UNION T
  OBVIOUS

\* A place is a position of one of the queues.
PlacesIn(f) ==
    UNION {{<<q, t, j>> : j \in 1..Len(f[q][t])} : q \in Levels, t \in Sources}

\* A queued message has its place.
LEMMA PlaceThere ==
    ASSUME NEW f, NEW p \in Levels, NEW s \in Sources, NEW i \in 1..Len(f[p][s])
    PROVE  <<p, s, i>> \in PlacesIn(f)
<1> DEFINE x == <<p, s, i>>
<1> DEFINE S == {<<p, s, j>> : j \in 1..Len(f[p][s])}
<1> DEFINE T == {{<<q, t, j>> : j \in 1..Len(f[q][t])} : q \in Levels, t \in Sources}
<1>1. x \in S
  OBVIOUS
<1>2. S \in T
  OBVIOUS
<1>3. PlacesIn(f) = UNION T
  BY DEF PlacesIn
<1>4. x \in PlacesIn(f)
  <2> HIDE DEF x, S, T
  <2> QED
    BY <1>1, <1>2, <1>3, InUnion
<1> QED
  BY <1>4

\* The places of the queue, before and after a step.
LEMMA PlacesAre == Places = PlacesIn(queue) /\ Places' = PlacesIn(queue')
  BY DEF Places, PlacesIn

\* A place is that of a queued message.
LEMMA PlacesOnly ==
    \A x \in Places : \E p \in Levels, s \in Sources :
        \E i \in 1..Len(queue[p][s]) : x = <<p, s, i>>
  BY DEF Places

\* The places of one source and level.
LEMMA PlaceOf ==
    ASSUME NEW p \in Levels, NEW s \in Sources, NEW i
    PROVE  <<p, s, i>> \in Places <=> i \in 1..Len(queue[p][s])
<1>1. i \in 1..Len(queue[p][s]) => <<p, s, i>> \in Places
  BY PlaceThere, PlacesAre
<1>2. ASSUME <<p, s, i>> \in Places PROVE i \in 1..Len(queue[p][s])
  <2>1. PICK q \in Levels, t \in Sources : \E j \in 1..Len(queue[q][t]) : <<p, s, i>> = <<q, t, j>>
    BY <1>2, PlacesOnly
  <2> QED
    BY <2>1
<1> QED
  BY <1>1, <1>2

\* queue_message fills the place after the last one.
LEMMA PushPlaces ==
    ASSUME TypeOK, NEW p \in Levels, NEW s \in Sources, QueueMessage(p, s)
    PROVE  /\ Places' = Places \cup {<<p, s, Len(queue[p][s]) + 1>>}
           /\ <<p, s, Len(queue[p][s]) + 1>> \notin Places
<1>1. /\ queue'[p][s] = Append(queue[p][s], count + 1)
      /\ queue[p][s] \in Seq(Messages) /\ count + 1 \in Messages
      /\ \A q \in Levels, t \in Sources :
            q # p \/ t # s => queue'[q][t] = queue[q][t]
  BY PushEffect
<1>2. Len(queue[p][s]) \in Nat /\ Len(queue'[p][s]) = Len(queue[p][s]) + 1
  BY <1>1
<1>3. ASSUME NEW q \in Levels, NEW t \in Sources, q # p \/ t # s
      PROVE  Len(queue'[q][t]) = Len(queue[q][t])
  BY <1>1, <1>3
<1>4. 1..(Len(queue[p][s]) + 1) = 1..Len(queue[p][s]) \cup {Len(queue[p][s]) + 1}
  BY <1>2
<1>5. <<p, s, Len(queue[p][s]) + 1>> \notin Places
  BY <1>2, PlaceOf
<1>6. ASSUME NEW x \in Places'
      PROVE  x \in Places \cup {<<p, s, Len(queue[p][s]) + 1>>}
  <2>1. PICK q \in Levels, t \in Sources : \E i \in 1..Len(queue'[q][t]) : x = <<q, t, i>>
    BY <1>6 DEF Places
  <2>2. PICK i \in 1..Len(queue'[q][t]) : x = <<q, t, i>>
    BY <2>1
  <2>3. CASE q = p /\ t = s
    BY <1>2, <1>4, <2>2, <2>3, PlaceOf
  <2>4. CASE q # p \/ t # s
    BY <1>3, <2>2, <2>4, PlaceOf
  <2> QED
    BY <2>3, <2>4
<1>7. ASSUME NEW x \in Places PROVE x \in Places'
  <2>1. PICK q \in Levels, t \in Sources : \E i \in 1..Len(queue[q][t]) : x = <<q, t, i>>
    BY <1>7, PlacesOnly
  <2>2. PICK i \in 1..Len(queue[q][t]) : x = <<q, t, i>>
    BY <2>1
  <2>3. i \in 1..Len(queue'[q][t])
    BY <1>2, <1>3, <1>4, <2>2
  <2>4. <<q, t, i>> \in Places'
    BY <2>3, PlaceThere, PlacesAre
  <2> QED
    BY <2>2, <2>4
<1>8. <<p, s, Len(queue[p][s]) + 1>> \in Places'
  <2>1. Len(queue[p][s]) + 1 \in 1..Len(queue'[p][s])
    BY <1>2
  <2> QED
    BY <2>1, PlaceThere, PlacesAre
<1> QED
  BY <1>5, <1>6, <1>7, <1>8

\* A pop frees the last place of its queue: the others move up.
LEMMA PopPlaces ==
    ASSUME TypeOK, NEW s \in Sources, PopSource(s)
    PROVE  /\ Places' = Places \ {<<level, s, Len(queue[level][s])>>}
           /\ <<level, s, Len(queue[level][s])>> \in Places
<1>0. level \in Levels
  BY DEF TypeOK
<1>1. /\ queue'[level][s] = Tail(queue[level][s])
      /\ queue[level][s] \in Seq(Messages) /\ queue[level][s] # <<>>
      /\ \A q \in Levels, t \in Sources :
            q # level \/ t # s => queue'[q][t] = queue[q][t]
  BY PopEffect
<1>2. /\ Len(queue[level][s]) \in Nat /\ Len(queue[level][s]) > 0
      /\ Len(queue'[level][s]) = Len(queue[level][s]) - 1
  BY <1>1
<1>3. ASSUME NEW q \in Levels, NEW t \in Sources, q # level \/ t # s
      PROVE  Len(queue'[q][t]) = Len(queue[q][t])
  BY <1>1, <1>3
<1>4. <<level, s, Len(queue[level][s])>> \in Places
  <2>1. Len(queue[level][s]) \in 1..Len(queue[level][s])
    BY <1>2
  <2> QED
    BY <1>0, <2>1, PlaceOf
<1>5. ASSUME NEW x \in Places'
      PROVE  x \in Places /\ x # <<level, s, Len(queue[level][s])>>
  <2>1. PICK q \in Levels, t \in Sources : \E i \in 1..Len(queue'[q][t]) : x = <<q, t, i>>
    BY <1>5 DEF Places
  <2>2. PICK i \in 1..Len(queue'[q][t]) : x = <<q, t, i>>
    BY <2>1
  <2>3. CASE q = level /\ t = s
    <3>1. i \in 1..Len(queue[q][t]) /\ i # Len(queue[q][t])
      BY <1>2, <2>2, <2>3
    <3> QED
      BY <2>2, <2>3, <3>1, PlaceOf
  <2>4. CASE q # level \/ t # s
    BY <1>3, <2>2, <2>4, PlaceOf
  <2> QED
    BY <2>3, <2>4
<1>6. ASSUME NEW x \in Places, x # <<level, s, Len(queue[level][s])>> PROVE x \in Places'
  <2>1. PICK q \in Levels, t \in Sources : \E i \in 1..Len(queue[q][t]) : x = <<q, t, i>>
    BY <1>6, PlacesOnly
  <2>2. PICK i \in 1..Len(queue[q][t]) : x = <<q, t, i>>
    BY <2>1
  <2>3. i \in 1..Len(queue'[q][t])
    BY <1>2, <1>3, <1>6, <2>2
  <2>4. <<q, t, i>> \in Places'
    BY <2>3, PlaceThere, PlacesAre
  <2> QED
    BY <2>2, <2>4
<1> QED
  BY <1>4, <1>5, <1>6

\* Every step keeps the size exact.
LEMMA SizeStep == TypeInv /\ QInv /\ SizeInv /\ [Next]_vars => SizeInv'
<1> SUFFICES ASSUME TypeInv, QInv, SizeInv, [Next]_vars PROVE SizeInv'
  OBVIOUS
<1>0. TypeOK
  BY DEF TypeInv
<1>1. ASSUME NEW p \in Levels, NEW s \in Sources, QueueMessage(p, s) PROVE SizeInv'
  <2>1. IsFiniteSet(Places') /\ SizeIsQueued'
    <3>1. /\ IsFiniteSet(Places \cup {<<p, s, Len(queue[p][s]) + 1>>})
          /\ Cardinality(Places \cup {<<p, s, Len(queue[p][s]) + 1>>}) = Cardinality(Places) + 1
      BY <1>0, <1>1, PushPlaces, FS_AddElement DEF SizeInv
    <3>2. Places' = Places \cup {<<p, s, Len(queue[p][s]) + 1>>}
      BY <1>0, <1>1, PushPlaces
    <3>3. size' = size + 1 /\ size = Cardinality(Places)
      BY <1>1 DEF QueueMessage, SizeInv, SizeIsQueued
    <3> QED
      BY <3>1, <3>2, <3>3 DEF SizeIsQueued
  <2>2. mark' = mark /\ count' = count + 1 /\ drain' = drain /\ forEmpty' = forEmpty
        /\ mark \in Nat /\ count \in Nat /\ mark <= count
    BY <1>0, <1>1, BoundsAssumption DEF QueueMessage, drainVars, TypeOK, SizeInv
  <2>3. ASSUME drain = "drained", forEmpty, NEW q \in Levels, NEW t \in Sources,
               NEW m \in 1..mark, NEW i \in 1..Len(queue'[q][t]), queue'[q][t][i] = m
        PROVE  FALSE
    <3>1. /\ queue'[p][s] = Append(queue[p][s], count + 1)
          /\ queue[p][s] \in Seq(Messages) /\ count + 1 \in Messages
          /\ q # p \/ t # s => queue'[q][t] = queue[q][t]
      BY <1>0, <1>1, PushEffect
    <3>2. m # count + 1
      BY <2>2
    <3>3. i \in 1..Len(queue[q][t]) /\ queue[q][t][i] = m
      <4>1. CASE q = p /\ t = s
        <5>1. /\ Len(queue[p][s]) \in Nat /\ Len(queue'[p][s]) = Len(queue[p][s]) + 1
              /\ \A j \in 1..Len(queue[p][s]) : queue'[p][s][j] = queue[p][s][j]
              /\ queue'[p][s][Len(queue[p][s]) + 1] = count + 1
          BY <3>1, AppendElements
        <5>2. i # Len(queue[p][s]) + 1
          BY <2>3, <3>2, <4>1, <5>1
        <5> QED
          BY <2>3, <4>1, <5>1, <5>2
      <4>2. CASE q # p \/ t # s
        BY <2>3, <3>1, <4>2
      <4> QED
        BY <4>1, <4>2
    <3> QED
      BY <2>3, <3>3 DEF SizeInv, DrainedIsEmpty, Queued
  <2>4. DrainedIsEmpty'
    BY <2>2, <2>3 DEF DrainedIsEmpty, Queued
  <2> QED
    BY <2>1, <2>2, <2>4 DEF SizeInv
<1>2. ASSUME NEW s \in Sources, PopSource(s) PROVE SizeInv'
  <2>1. IsFiniteSet(Places') /\ SizeIsQueued'
    <3>0. IsFiniteSet(Places) /\ <<level, s, Len(queue[level][s])>> \in Places
      BY <1>0, <1>2, PopPlaces DEF SizeInv
    <3>1. /\ IsFiniteSet(Places \ {<<level, s, Len(queue[level][s])>>})
          /\ Cardinality(Places \ {<<level, s, Len(queue[level][s])>>}) = Cardinality(Places) - 1
      BY <3>0, FS_RemoveElement
    <3>2. Places' = Places \ {<<level, s, Len(queue[level][s])>>}
      BY <1>0, <1>2, PopPlaces
    <3>3. size' = size - 1 /\ size = Cardinality(Places)
      BY <1>2 DEF PopSource, SizeInv, SizeIsQueued
    <3> QED
      BY <3>1, <3>2, <3>3 DEF SizeIsQueued
  <2>2. mark' = mark /\ count' = count /\ drain' = drain /\ forEmpty' = forEmpty
    BY <1>2 DEF PopSource, drainVars
  <2>3. ASSUME drain = "drained", forEmpty, NEW q \in Levels, NEW t \in Sources,
               NEW m \in 1..mark, NEW i \in 1..Len(queue'[q][t]), queue'[q][t][i] = m
        PROVE  FALSE
    <3>1. /\ queue'[level][s] = Tail(queue[level][s])
          /\ queue[level][s] \in Seq(Messages) /\ queue[level][s] # <<>>
          /\ q # level \/ t # s => queue'[q][t] = queue[q][t]
      BY <1>0, <1>2, PopEffect
    <3>2. \E j \in 1..Len(queue[q][t]) : queue[q][t][j] = m
      <4>1. CASE q = level /\ t = s
        <5>1. i + 1 \in 1..Len(queue[level][s]) /\ queue[level][s][i + 1] = queue'[level][s][i]
          <6>1. i \in 1..Len(Tail(queue[level][s])) /\ queue'[level][s][i] = Tail(queue[level][s])[i]
            BY <2>3, <3>1, <4>1
          <6> QED
            BY <3>1, <6>1, TailElements
        <5> QED
          BY <2>3, <4>1, <5>1
      <4>2. CASE q # level \/ t # s
        BY <2>3, <3>1, <4>2
      <4> QED
        BY <4>1, <4>2
    <3> QED
      BY <2>3, <3>2 DEF SizeInv, DrainedIsEmpty, Queued
  <2>4. DrainedIsEmpty'
    BY <2>2, <2>3 DEF DrainedIsEmpty, Queued
  <2> QED
    BY <2>1, <2>2, <2>4 DEF SizeInv
<1>3. CASE UNCHANGED <<queue, size, count>>
  <2>1. IsFiniteSet(Places') /\ SizeIsQueued'
    BY <1>3 DEF SizeInv, SizeIsQueued, Places
  <2>2. \/ mark' = mark /\ forEmpty' = forEmpty
              /\ (drain' = "drained" => drain = "drained" \/ size <= DrainTarget)
        \/ mark' = count /\ (drain' = "drained" /\ forEmpty' => size <= 0)
    <3>1. ASSUME NEW empty \in BOOLEAN, DrainCall(empty)
          PROVE  mark' = count /\ (drain' = "drained" /\ forEmpty' => size <= 0)
      BY <1>0, <3>1 DEF DrainCall, TypeOK
    <3>2. CASE ~\E empty \in BOOLEAN : DrainCall(empty)
      <4>1. mark' = mark /\ forEmpty' = forEmpty
        BY <3>2 DEF Next, Work, SchedStep, SchedCheck, SchedWait, SchedWake, StartRound,
           SkipSource, PopSource, SendHeld, PeekHigher, EndRound, PruneStep, PruneWake,
           PruneNext, DrainWake, DrainCheck, DrainTimeout, Stop, AbortTasks, QueueMessage,
           SetConnection, vars, drainVars
      <4>2. drain' = "drained" => drain = "drained" \/ size <= DrainTarget
        BY <3>2 DEF Next, Work, SchedStep, SchedCheck, SchedWait, SchedWake, StartRound,
           SkipSource, PopSource, SendHeld, PeekHigher, EndRound, PruneStep, PruneWake,
           PruneNext, DrainWake, DrainCheck, DrainTimeout, Stop, AbortTasks, QueueMessage,
           SetConnection, vars, drainVars
      <4> QED
        BY <4>1, <4>2
    <3> QED
      BY <3>1, <3>2
  <2>3. mark' <= count'
    BY <1>0, <1>3, <2>2 DEF SizeInv, TypeOK
  <2>4. CASE drain' = "drained" /\ forEmpty' /\ size <= 0
    <3>1. Cardinality(Places) \in Nat /\ size = Cardinality(Places)
      BY FS_CardinalityType DEF SizeInv, SizeIsQueued
    <3>2. Places = {}
      BY <2>4, <3>1, FS_EmptySet DEF SizeInv
    <3>3. \A q \in Levels, t \in Sources : 1..Len(queue[q][t]) = {}
      BY <3>2, PlaceOf
    <3> QED
      <4>1. DrainedIsEmpty'
        BY <1>3, <3>3 DEF DrainedIsEmpty, Queued
      <4> QED
        BY <2>1, <2>3, <4>1 DEF SizeInv
  <2>5. CASE ~(drain' = "drained" /\ forEmpty' /\ size <= 0)
    <3>1. drain' = "drained" /\ forEmpty' =>
             drain = "drained" /\ forEmpty /\ mark' = mark
      BY <2>2, <2>5 DEF DrainTarget
    <3>2. DrainedIsEmpty'
      BY <1>3, <3>1 DEF DrainedIsEmpty, Queued, SizeInv
    <3> QED
      BY <2>1, <2>3, <3>2 DEF SizeInv
  <2> QED
    BY <2>4, <2>5
<1>4. \/ \E p \in Levels, s \in Sources : QueueMessage(p, s)
      \/ \E s \in Sources : PopSource(s)
      \/ UNCHANGED <<queue, size, count>>
  BY DEF Next, Work, SchedStep, SchedCheck, SchedWait, SchedWake, StartRound,
     SkipSource, SendHeld, PeekHigher, EndRound, PruneStep, PruneWake, PruneNext,
     DrainCall, DrainWake, DrainCheck, DrainTimeout, Stop, AbortTasks, SetConnection,
     vars, queueVars, histVars
<1> QED
  BY <1>1, <1>2, <1>3, <1>4

\* An empty queue has size zero.
LEMMA SizeInit == Init => SizeInv
<1> SUFFICES ASSUME Init PROVE SizeInv
  OBVIOUS
<1>1. \A p \in Levels, s \in Sources : queue[p][s] = <<>>
  BY DEF Init
<1>2. \A p \in Levels, s \in Sources : 1..Len(queue[p][s]) = {}
  BY <1>1
<1>3. Places = {}
  BY <1>2, PlacesOnly
<1> QED
  BY <1>3, FS_EmptySet DEF Init, SizeInv, SizeIsQueued, DrainedIsEmpty

\* The two invariants together are inductive.
LEMMA SizeInductive == Spec => []SizeInv
  BY SizeInit, SizeStep, QueueInductive, PTL DEF Spec

\* queued_message_size is what is queued, for any number of messages, sources
\* and levels, while producers, the scheduler and the pruner interleave: it
\* neither drifts nor goes below zero.
THEOREM SizeIsQueuedHolds == Spec => []SizeIsQueued
<1>1. SizeInv => SizeIsQueued
  BY DEF SizeInv
<1> QED
  BY <1>1, SizeInductive, PTL

\* wait_for_queue_drain(true) succeeds only when all that was queued before
\* the call has left the queue, also when the deadline ends the wait or other
\* producers go on queueing.
THEOREM DrainedIsEmptyHolds == Spec => []DrainedIsEmpty
<1>1. SizeInv => DrainedIsEmpty
  BY DEF SizeInv
<1> QED
  BY <1>1, SizeInductive, PTL

=============================================================================
