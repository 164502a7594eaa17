-------------------------- MODULE JobLifecycleProofs --------------------------
(***************************************************************************)
(* Theorems about JobLifecycle, for any jobs, requests and bounds.         *)
(***************************************************************************)
EXTENDS JobLifecycle, SequenceTheorems, TLAPS

OnWire(j, m)   == \E l \in Lanes : \E i \in DOMAIN wire[j][l] : wire[j][l][i] = m
Reported(j, s) == \E i \in DOMAIN up[j] : up[j][i] = s

\* States that only the cluster reports, once it has the job
Progress == {"Active", "Finished"}

\* What the cluster says of a job, wherever its report has come to, follows
\* the delivery of a SUBMIT.
HeardInv ==
    /\ \A j \in Jobs :
         /\ latest[j] \in Progress => "SUBMIT" \in heard[j]
         /\ \A s \in Progress : Reported(j, s) => "SUBMIT" \in heard[j]
         /\ remote[j] # "unknown" => "SUBMIT" \in heard[j]
    /\ \A j \in Jobs : \A s \in Progress : upd = <<j, s>> => "SUBMIT" \in heard[j]

\* Nothing of a job whose submission was never queued is, or is about to be,
\* under way, and no one is about to cancel it with a message.
QueuedInv ==
    \A j \in Jobs \ queued :
        /\ ~OnWire(j, "SUBMIT") /\ ~OnWire(j, "CANCEL")
        /\ "SUBMIT" \notin heard[j] /\ "CANCEL" \notin heard[j]
        /\ latest[j] \notin {"Submitting", "Cancelling"}
        /\ cpc[j] \notin {"stamp", "insert"}
        /\ \A r \in Requests : rjob[r] = j => rrow[r] # "Cancelling"
        /\ pass = "CANCEL" => j \notin todo

JobInv == TypeOK /\ HeardInv /\ QueuedInv

-----------------------------------------------------------------------------
(* Rows                                                                    *)

\* The rows stamped before and after one of them are sequences of writers.
LEMMA PositionFacts ==
    ASSUME TypeOK, NEW j \in Jobs, NEW w, IsStamped(j, w)
    PROVE  /\ OlderThan(j, w) \in Seq(Writers)
           /\ NewerThan(j, w) \in Seq(Writers)
<1>1. stamped[j] \in Seq(Writers)
  BY DEF TypeOK
<1>2. Position(j, w) \in 1..Len(stamped[j]) /\ Len(stamped[j]) \in Nat
  BY <1>1 DEF IsStamped, Position
<1>3. \A i \in 1..Len(stamped[j]) : stamped[j][i] \in Writers
  BY <1>1
<1>4. OlderThan(j, w) \in Seq(Writers)
  <2>1. \A i \in 1..(Position(j, w) - 1) : stamped[j][i] \in Writers
    BY <1>2, <1>3
  <2> QED BY <1>2, <2>1, SubSeqProperties DEF OlderThan
<1>5. NewerThan(j, w) \in Seq(Writers)
  <2>1. \A i \in (Position(j, w) + 1)..Len(stamped[j]) : stamped[j][i] \in Writers
    BY <1>2, <1>3
  <2> QED BY <1>2, <2>1, SubSeqProperties DEF NewerThan
<1> QED BY <1>4, <1>5

\* A stamp keeps the type of stamped.
LEMMA StampEffect ==
    ASSUME TypeOK, NEW j \in Jobs, NEW w \in Writers, Stamp(j, w)
    PROVE  stamped' \in [Jobs -> Seq(Writers)]
  BY DEF TypeOK, Stamp

\* An insertion changes the latest row of its job, or none.
LEMMA InsertEffect ==
    ASSUME TypeOK, NEW j \in Jobs, NEW w, NEW s \in JobStates, InsertRow(j, w, s)
    PROVE  /\ stamped' \in [Jobs -> Seq(Writers)]
           /\ latest' \in [Jobs -> JobStates \cup {NoRow}]
           /\ \A k \in Jobs : latest'[k] = latest[k] \/ (k = j /\ latest'[k] = s)
<1>1. CASE IsStamped(j, w)
  <2>1. NewerThan(j, w) \in Seq(Writers)
    BY <1>1, PositionFacts
  <2> QED BY <1>1, <2>1 DEF InsertRow, TypeOK
<1>2. CASE ~IsStamped(j, w)
  BY <1>2 DEF InsertRow, TypeOK, rowVars
<1> QED BY <1>1, <1>2

\* A writer that goes leaves the latest rows alone.
LEMMA NoInsertEffect ==
    ASSUME TypeOK, NEW w, NoInsert(w)
    PROVE  stamped' \in [Jobs -> Seq(Writers)] /\ latest' = latest
<1>1. ASSUME NEW j \in Jobs, IsStamped(j, w)
      PROVE  OlderThan(j, w) \o NewerThan(j, w) \in Seq(Writers)
  BY <1>1, PositionFacts, ConcatProperties
<1>2. ASSUME NEW j \in Jobs
      PROVE  stamped[j] \in Seq(Writers)
  BY <1>2 DEF TypeOK
<1> QED BY <1>1, <1>2 DEF NoInsert

-----------------------------------------------------------------------------
(* Messages and reports                                                    *)

\* The elements of a tail are elements of the sequence.
LEMMA TailElements ==
    ASSUME NEW S, NEW seq \in Seq(S), seq # <<>>, NEW i \in DOMAIN Tail(seq)
    PROVE  i + 1 \in 1..Len(seq) /\ i + 1 \in DOMAIN seq /\ seq[i + 1] = Tail(seq)[i]
<1>1. Len(Tail(seq)) = Len(seq) - 1 /\ Len(seq) \in Nat /\ DOMAIN seq = 1..Len(seq)
  BY HeadTailProperties
<1>2. DOMAIN Tail(seq) = 1..Len(Tail(seq))
  BY HeadTailProperties
<1>3. i \in 1..Len(Tail(seq))
  BY <1>2
<1>4. Tail(seq)[i] = seq[i + 1]
  BY <1>3, HeadTailProperties
<1> QED BY <1>1, <1>3, <1>4

\* queue_message puts one message on the wire, and remembers a SUBMIT.
LEMMA QueueEffect ==
    ASSUME TypeOK, NEW j \in Jobs, NEW l \in Lanes, NEW m \in Messages, Queue(j, l, m)
    PROVE  /\ wire' \in [Jobs -> [Lanes -> Seq(Messages)]]
           /\ queued \subseteq queued' /\ queued' \subseteq Jobs
           /\ m = "SUBMIT" => j \in queued'
           /\ \A k \in Jobs, n \in Messages :
                 OnWire(k, n)' => OnWire(k, n) \/ (k = j /\ n = m)
<1>1. wire[j] \in [Lanes -> Seq(Messages)] /\ wire[j][l] \in Seq(Messages)
  BY DEF TypeOK
<1>2. Append(wire[j][l], m) \in Seq(Messages)
  BY <1>1
<1>3. wire' = [wire EXCEPT ![j] = [@ EXCEPT ![l] = Append(wire[j][l], m)]]
  BY <1>1 DEF Queue, TypeOK
<1>4. wire' \in [Jobs -> [Lanes -> Seq(Messages)]]
  BY <1>1, <1>2, <1>3 DEF TypeOK
<1>5. ASSUME NEW k \in Jobs, NEW n \in Messages, OnWire(k, n)', ~(k = j /\ n = m)
      PROVE  OnWire(k, n)
  <2>0. PICK q \in Lanes : \E i \in DOMAIN wire'[k][q] : wire'[k][q][i] = n
    BY <1>5 DEF OnWire
  <2>1. PICK i \in DOMAIN wire'[k][q] : wire'[k][q][i] = n
    BY <2>0
  <2>2. CASE k = j /\ q = l
    <3>1. wire'[k][q] = Append(wire[j][l], m)
      BY <1>1, <1>3, <2>2 DEF TypeOK
    <3>2. i \in 1..Len(wire[j][l]) /\ wire[j][l][i] = n
      BY <1>1, <1>5, <2>1, <2>2, <3>1
    <3>3. i \in DOMAIN wire[j][l]
      BY <3>2, <1>1
    <3> QED BY <2>2, <3>2, <3>3 DEF OnWire
  <2>3. CASE ~(k = j /\ q = l)
    <3>1. wire'[k][q] = wire[k][q]
      BY <1>1, <1>3, <2>3 DEF TypeOK
    <3> QED BY <2>1, <3>1 DEF OnWire
  <2> QED BY <2>2, <2>3
<1> QED BY <1>4, <1>5 DEF Queue, TypeOK

\* A message that is lost or delivered leaves the others.
LEMMA TakeEffect ==
    ASSUME TypeOK, NEW j \in Jobs, NEW l \in Lanes, wire[j][l] # <<>>,
           wire' = [wire EXCEPT ![j][l] = Tail(@)]
    PROVE  /\ wire' \in [Jobs -> [Lanes -> Seq(Messages)]]
           /\ Head(wire[j][l]) \in Messages /\ OnWire(j, Head(wire[j][l]))
           /\ \A k \in Jobs, n \in Messages : OnWire(k, n)' => OnWire(k, n)
<1>1. wire[j] \in [Lanes -> Seq(Messages)] /\ wire[j][l] \in Seq(Messages)
  BY DEF TypeOK
<1>2. /\ Tail(wire[j][l]) \in Seq(Messages) /\ Head(wire[j][l]) \in Messages
      /\ 1 \in DOMAIN wire[j][l] /\ Head(wire[j][l]) = wire[j][l][1]
  BY <1>1
<1>3. wire' = [wire EXCEPT ![j] = [@ EXCEPT ![l] = Tail(wire[j][l])]]
  BY <1>1 DEF TypeOK
<1>4. wire' \in [Jobs -> [Lanes -> Seq(Messages)]]
  BY <1>1, <1>2, <1>3 DEF TypeOK
<1>5. ASSUME NEW k \in Jobs, NEW n \in Messages, OnWire(k, n)'
      PROVE  OnWire(k, n)
  <2>0. PICK q \in Lanes : \E i \in DOMAIN wire'[k][q] : wire'[k][q][i] = n
    BY <1>5 DEF OnWire
  <2>1. PICK i \in DOMAIN wire'[k][q] : wire'[k][q][i] = n
    BY <2>0
  <2>2. CASE k = j /\ q = l
    <3>1. wire'[k][q] = Tail(wire[j][l])
      BY <1>1, <1>3, <2>2 DEF TypeOK
    <3>2. i + 1 \in 1..Len(wire[j][l]) /\ wire[j][l][i + 1] = n
      BY <1>1, <2>1, <3>1, TailElements
    <3>3. i + 1 \in DOMAIN wire[j][l]
      BY <3>2, <1>1
    <3> QED BY <2>2, <3>2, <3>3 DEF OnWire
  <2>3. CASE ~(k = j /\ q = l)
    <3>1. wire'[k][q] = wire[k][q]
      BY <1>1, <1>3, <2>3 DEF TypeOK
    <3> QED BY <2>1, <3>1 DEF OnWire
  <2> QED BY <2>2, <2>3
<1> QED BY <1>2, <1>4, <1>5 DEF OnWire

\* The cluster reports one thing at a time.
LEMMA ReportEffect ==
    ASSUME TypeOK, NEW j \in Jobs, NEW s \in Reports \cup {Malformed}, Report(j, s)
    PROVE  /\ up' \in [Jobs -> Seq(Reports \cup {Malformed})]
           /\ \A k \in Jobs, t \in Progress :
                 Reported(k, t)' => Reported(k, t) \/ (k = j /\ t = s)
<1>1. up[j] \in Seq(Reports \cup {Malformed})
  BY DEF TypeOK
<1>2. CASE UNCHANGED up
  BY <1>2 DEF TypeOK, Reported
<1>3. CASE up' = [up EXCEPT ![j] = Append(up[j], s)]
  <2>1. up' \in [Jobs -> Seq(Reports \cup {Malformed})]
    BY <1>1, <1>3 DEF TypeOK
  <2>2. ASSUME NEW k \in Jobs, NEW t \in Progress, Reported(k, t)', ~(k = j /\ t = s)
        PROVE  Reported(k, t)
    <3>1. PICK i \in DOMAIN up'[k] : up'[k][i] = t
      BY <2>2 DEF Reported
    <3>2. CASE k = j
      <4>1. up'[k] = Append(up[j], s)
        BY <1>3, <3>2 DEF TypeOK
      <4>2. i \in 1..Len(up[j]) /\ up[j][i] = t
        BY <1>1, <2>2, <3>1, <3>2, <4>1
      <4>3. i \in DOMAIN up[j]
        BY <4>2, <1>1
      <4> QED BY <3>2, <4>2, <4>3 DEF Reported
    <3>3. CASE k # j
      BY <1>3, <3>1, <3>3 DEF Reported, TypeOK
    <3> QED BY <3>2, <3>3
  <2> QED BY <2>1, <2>2
<1> QED BY <1>2, <1>3 DEF Report

\* A report that is read was reported, and the others stay.
LEMMA ReadEffect ==
    ASSUME TypeOK, NEW j \in Jobs, up[j] # <<>>, up' = [up EXCEPT ![j] = Tail(@)]
    PROVE  /\ up' \in [Jobs -> Seq(Reports \cup {Malformed})]
           /\ Head(up[j]) \in Reports \cup {Malformed} /\ Reported(j, Head(up[j]))
           /\ \A k \in Jobs, t \in Progress : Reported(k, t)' => Reported(k, t)
<1>1. up[j] \in Seq(Reports \cup {Malformed})
  BY DEF TypeOK
<1>2. /\ Tail(up[j]) \in Seq(Reports \cup {Malformed})
      /\ Head(up[j]) \in Reports \cup {Malformed}
      /\ 1 \in DOMAIN up[j] /\ Head(up[j]) = up[j][1]
  BY <1>1
<1>3. up' \in [Jobs -> Seq(Reports \cup {Malformed})]
  BY <1>1, <1>2 DEF TypeOK
<1>4. ASSUME NEW k \in Jobs, NEW t \in Progress, Reported(k, t)'
      PROVE  Reported(k, t)
  <2>1. PICK i \in DOMAIN up'[k] : up'[k][i] = t
    BY <1>4 DEF Reported
  <2>2. CASE k = j
    <3>1. up'[k] = Tail(up[j])
      BY <2>2 DEF TypeOK
    <3>2. i + 1 \in 1..Len(up[j]) /\ up[j][i + 1] = t
      BY <1>1, <2>1, <3>1, TailElements
    <3>3. i + 1 \in DOMAIN up[j]
      BY <3>2, <1>1
    <3> QED BY <2>2, <3>2, <3>3 DEF Reported
  <2>3. CASE k # j
    BY <2>1, <2>3 DEF Reported, TypeOK
  <2> QED BY <2>2, <2>3
<1> QED BY <1>2, <1>3, <1>4 DEF Reported

-----------------------------------------------------------------------------
(* The type invariant                                                      *)

\* The initial state: no job is known, queued or reported on.
THEOREM JobInit == Init => JobInv
<1> SUFFICES ASSUME Init PROVE JobInv
  OBVIOUS
<1> USE WriterAssumption
<1>1. TypeOK
  <2>1. /\ latest \in [Jobs -> JobStates \cup {NoRow}]
        /\ stamped \in [Jobs -> Seq(Writers)]
        /\ cpc \in [Jobs -> {"idle", "created", "send", "stamp", "insert", "done"}]
    BY DEF Init
  <2>2. /\ wire \in [Jobs -> [Lanes -> Seq(Messages)]]
        /\ up \in [Jobs -> Seq(Reports \cup {Malformed})]
        /\ upd \in (Jobs \X Reports) \cup {<<>>}
    BY DEF Init
  <2>3. /\ rpc \in [Requests -> {"idle", "loaded", "insert", "send"}]
        /\ rjob \in [Requests -> Jobs \cup {NoJob}]
        /\ rrow \in [Requests -> {"Cancelled", "Cancelling", "Deleted", "Deleting", NoRow}]
        /\ rsend \in [Requests -> BOOLEAN]
        /\ \A r \in Requests : rpc[r] = "idle"
    BY DEF Init
  <2>4. pass \in Messages /\ todo = NoScan /\ queued \subseteq Jobs /\ online \in BOOLEAN
    BY DEF Init, Messages
  <2>6. faults \in 0..MaxFaults
    BY BoundAssumption DEF Init
  <2>5. /\ remote \in [Jobs -> {"unknown", "live", "ended", "gone"}]
        /\ heard \in [Jobs -> SUBSET Messages]
    BY DEF Init
  <2> QED BY <2>1, <2>2, <2>3, <2>4, <2>5, <2>6 DEF TypeOK
<1>2. HeardInv
  BY DEF Init, HeardInv, Reported, Progress, NoRow
<1>3. QueuedInv
  BY DEF Init, QueuedInv, OnWire, NoRow, NoScan
<1> QED BY <1>1, <1>2, <1>3 DEF JobInv

\* The parts of the type invariant that most actions leave alone
LEMMA TypeFrame ==
    ASSUME TypeOK,
           UNCHANGED <<requestVars, resendVars, online, faults>>,
           latest' \in [Jobs -> JobStates \cup {NoRow}],
           stamped' \in [Jobs -> Seq(Writers)],
           cpc' \in [Jobs -> {"idle", "created", "send", "stamp", "insert", "done"}],
           wire' \in [Jobs -> [Lanes -> Seq(Messages)]],
           up' \in [Jobs -> Seq(Reports \cup {Malformed})],
           upd' \in (Jobs \X Reports) \cup {<<>>},
           remote' \in [Jobs -> {"unknown", "live", "ended", "gone"}],
           queued' \subseteq Jobs,
           heard' \in [Jobs -> SUBSET Messages]
    PROVE  TypeOK'
  BY DEF TypeOK, requestVars, resendVars

\* The steps of create_job keep the types.
LEMMA CreateType ==
    ASSUME TypeOK, NEW j \in Jobs,
           CreateJob(j) \/ CreateStep(j) \/ CreateDropped(j)
    PROVE  TypeOK'
<1> USE DEF rowVars, queueVars, remoteVars, CreateGoto
<1>0. j \in Writers /\ "SUBMIT" \in Messages /\ "job" \in Lanes
  BY DEF Writers, Messages, Lanes
<1>1. CASE CreateJob(j)
  <2>1. latest' \in [Jobs -> JobStates \cup {NoRow}]
    BY <1>1 DEF CreateJob, TypeOK, JobStates
  <2> QED BY <1>1, <2>1, TypeFrame DEF CreateJob, TypeOK
<1>2. CASE CreateCheck(j)
  <2>1. latest' \in [Jobs -> JobStates \cup {NoRow}]
    BY <1>2 DEF CreateCheck, TypeOK
  <2>2. cpc' \in [Jobs -> {"idle", "created", "send", "stamp", "insert", "done"}]
    <3>1. \E t \in {"send", "done"} : cpc' = [cpc EXCEPT ![j] = t]
      BY <1>2 DEF CreateCheck
    <3> QED BY <3>1 DEF TypeOK
  <2> QED BY <1>2, <2>1, <2>2, TypeFrame DEF CreateCheck, TypeOK
<1>3. CASE CreateSend(j)
  <2>1. wire' \in [Jobs -> [Lanes -> Seq(Messages)]] /\ queued' \subseteq Jobs
    BY <1>0, <1>3, QueueEffect DEF CreateSend
  <2> QED BY <1>3, <2>1, TypeFrame DEF CreateSend, TypeOK
<1>4. CASE CreateStamp(j)
  <2>1. stamped' \in [Jobs -> Seq(Writers)]
    BY <1>0, <1>4, StampEffect DEF CreateStamp
  <2> QED BY <1>4, <2>1, TypeFrame DEF CreateStamp, TypeOK
<1>5. CASE CreateInsert(j)
  <2>1. /\ stamped' \in [Jobs -> Seq(Writers)]
        /\ latest' \in [Jobs -> JobStates \cup {NoRow}]
    <3>1. CASE InsertRow(j, j, "Submitting")
      BY <3>1, InsertEffect DEF JobStates
    <3>2. CASE NoInsert(j)
      BY <3>2, NoInsertEffect DEF TypeOK
    <3> QED BY <1>5, <3>1, <3>2 DEF CreateInsert
  <2> QED BY <1>5, <2>1, TypeFrame DEF CreateInsert, TypeOK
<1>6. CASE CreateDropped(j)
  <2>1. /\ stamped' \in [Jobs -> Seq(Writers)]
        /\ latest' \in [Jobs -> JobStates \cup {NoRow}]
    BY <1>6, NoInsertEffect DEF CreateDropped, TypeOK
  <2> QED BY <1>6, <2>1, TypeFrame DEF CreateDropped, TypeOK
<1> QED BY <1>1, <1>2, <1>3, <1>4, <1>5, <1>6 DEF CreateStep

\* The steps of handle_update_job, of the wire and of the cluster keep the types.
LEMMA ReportType ==
    ASSUME TypeOK, NEW j \in Jobs,
           \/ UpdateStamp(j) \/ UpdateReject(j) \/ UpdateInsert
           \/ RemoteProceeds(j)
           \/ \E l \in Lanes : LoseMessage(j, l) \/ Deliver(j, l)
    PROVE  TypeOK'
<1> USE DEF rowVars, queueVars, remoteVars
<1>1. CASE UpdateStamp(j)
  <2>1. stamped' \in [Jobs -> Seq(Writers)]
    BY <1>1, StampEffect DEF UpdateStamp, Writers
  <2>2. up' \in [Jobs -> Seq(Reports \cup {Malformed})] /\ Head(up[j]) \in Reports
    BY <1>1, ReadEffect DEF UpdateStamp
  <2>3. upd' \in (Jobs \X Reports) \cup {<<>>}
    BY <1>1, <2>2 DEF UpdateStamp
  <2> QED BY <1>1, <2>1, <2>2, <2>3, TypeFrame DEF UpdateStamp, TypeOK
<1>2. CASE UpdateReject(j)
  <2>1. up' \in [Jobs -> Seq(Reports \cup {Malformed})]
    BY <1>2, ReadEffect DEF UpdateReject
  <2> QED BY <1>2, <2>1, TypeFrame DEF UpdateReject, TypeOK
<1>3. CASE UpdateInsert
  <2>1. upd[1] \in Jobs /\ upd[2] \in Reports
    BY <1>3 DEF UpdateInsert, TypeOK
  <2>2. /\ stamped' \in [Jobs -> Seq(Writers)]
        /\ latest' \in [Jobs -> JobStates \cup {NoRow}]
    <3>1. CASE InsertRow(upd[1], Updater, upd[2])
      BY <2>1, <3>1, InsertEffect DEF JobStates, Reports
    <3>2. CASE NoInsert(Updater)
      BY <3>2, NoInsertEffect DEF TypeOK
    <3> QED BY <1>3, <3>1, <3>2 DEF UpdateInsert
  <2> QED BY <1>3, <2>2, TypeFrame DEF UpdateInsert, TypeOK
<1>4. CASE RemoteProceeds(j)
  <2>1. up' \in [Jobs -> Seq(Reports \cup {Malformed})]
    BY <1>4, ReportEffect DEF RemoteProceeds, Reports
  <2>2. remote' \in [Jobs -> {"unknown", "live", "ended", "gone"}]
    BY <1>4 DEF RemoteProceeds, TypeOK
  <2> QED BY <1>4, <2>1, <2>2, TypeFrame DEF RemoteProceeds, TypeOK
<1>5. ASSUME NEW l \in Lanes, LoseMessage(j, l)
      PROVE  TypeOK'
  <2>1. wire' \in [Jobs -> [Lanes -> Seq(Messages)]]
    BY <1>5, TakeEffect DEF LoseMessage
  <2> QED BY <1>5, <2>1, TypeFrame DEF LoseMessage, TypeOK
<1>6. ASSUME NEW l \in Lanes, Deliver(j, l)
      PROVE  TypeOK'
  <2>1. wire' \in [Jobs -> [Lanes -> Seq(Messages)]] /\ Head(wire[j][l]) \in Messages
    BY <1>6, TakeEffect DEF Deliver
  <2>2. heard' \in [Jobs -> SUBSET Messages]
    BY <1>6, <2>1 DEF Deliver, TypeOK
  <2>3. up' \in [Jobs -> Seq(Reports \cup {Malformed})]
    <3>1. CASE UNCHANGED up
      BY <3>1 DEF TypeOK
    <3>2. CASE \E s \in Reports : Report(j, s)
      BY <3>2, ReportEffect
    <3> QED BY <1>6, <3>1, <3>2 DEF Deliver, Reports
  <2>4. remote' \in [Jobs -> {"unknown", "live", "ended", "gone"}]
    <3>1. /\ remote \in [Jobs -> {"unknown", "live", "ended", "gone"}]
          /\ \E t \in {"unknown", "live", "ended", "gone"} :
               remote' = [remote EXCEPT ![j] = t]
      <4>1. /\ remote \in [Jobs -> {"unknown", "live", "ended", "gone"}]
            /\ remote = [remote EXCEPT ![j] = remote[j]]
        BY DEF TypeOK
      <4> QED BY <1>6, <4>1 DEF Deliver
    <3> QED BY <3>1
  <2> QED BY <1>6, <2>1, <2>2, <2>3, <2>4, TypeFrame DEF Deliver, TypeOK
<1> QED BY <1>1, <1>2, <1>3, <1>4, <1>5, <1>6

\* The counterpart of TypeFrame for the requests
LEMMA RequestFrame ==
    ASSUME TypeOK,
           UNCHANGED <<cpc, resendVars, up, upd, online, remoteVars, faults>>,
           latest' \in [Jobs -> JobStates \cup {NoRow}],
           stamped' \in [Jobs -> Seq(Writers)],
           wire' \in [Jobs -> [Lanes -> Seq(Messages)]],
           queued' \subseteq Jobs,
           rpc' \in [Requests -> {"idle", "loaded", "insert", "send"}],
           rjob' \in [Requests -> Jobs \cup {NoJob}],
           rrow' \in [Requests -> {"Cancelled", "Cancelling", "Deleted", "Deleting", NoRow}],
           rsend' \in [Requests -> BOOLEAN],
           \A r \in Requests : rpc'[r] # "idle" => rjob'[r] # NoJob /\ rrow'[r] # NoRow
    PROVE  TypeOK'
  BY DEF TypeOK, resendVars, remoteVars

\* A request that ends leaves the other requests alone.
LEMMA IdleEffect ==
    ASSUME TypeOK, NEW r \in Requests, RequestIdle(r)
    PROVE  /\ rpc' \in [Requests -> {"idle", "loaded", "insert", "send"}]
           /\ rjob' \in [Requests -> Jobs \cup {NoJob}]
           /\ rrow' \in [Requests -> {"Cancelled", "Cancelling", "Deleted", "Deleting", NoRow}]
           /\ rsend' \in [Requests -> BOOLEAN]
           /\ \A q \in Requests : rpc'[q] # "idle" => rjob'[q] # NoJob /\ rrow'[q] # NoRow
           /\ \A q \in Requests, j \in Jobs :
                 rjob'[q] = j => rjob[q] = j /\ rrow'[q] = rrow[q]
<1> USE WriterAssumption
<1>1. rsend' \in [Requests -> BOOLEAN]
  BY DEF RequestIdle, TypeOK
<1>2. /\ rpc' \in [Requests -> {"idle", "loaded", "insert", "send"}]
      /\ rjob' \in [Requests -> Jobs \cup {NoJob}]
      /\ rrow' \in [Requests -> {"Cancelled", "Cancelling", "Deleted", "Deleting", NoRow}]
  BY DEF RequestIdle, TypeOK
<1>3. \A q \in Requests : rpc'[q] # "idle" => rjob'[q] # NoJob /\ rrow'[q] # NoRow
  BY DEF RequestIdle, TypeOK
<1>4. \A q \in Requests, j \in Jobs : rjob'[q] = j => rjob[q] = j /\ rrow'[q] = rrow[q]
  BY DEF RequestIdle, TypeOK
<1> QED BY <1>1, <1>2, <1>3, <1>4

\* The steps of cancel_job and delete_job keep the types.
LEMMA RequestType ==
    ASSUME TypeOK, NEW r \in Requests,
           RequestLoad(r) \/ RequestStep(r) \/ RequestDropped(r)
    PROVE  TypeOK'
<1> USE WriterAssumption DEF rowVars, queueVars, remoteVars
<1>1. CASE RequestLoad(r)
  <2>1. PICK j \in Jobs \ WideJobs, m \in {"CANCEL", "DELETE"} :
           /\ rpc' = [rpc EXCEPT ![r] = "loaded"]
           /\ rjob' = [rjob EXCEPT ![r] = j]
           /\ rrow' = [rrow EXCEPT ![r] = NewState(m, latest[j])]
    BY <1>1 DEF RequestLoad
  <2>2. NewState(m, latest[j]) \in {"Cancelled", "Cancelling", "Deleted", "Deleting"}
    BY DEF NewState
  <2>3. /\ rpc' \in [Requests -> {"idle", "loaded", "insert", "send"}]
        /\ rjob' \in [Requests -> Jobs \cup {NoJob}]
        /\ rrow' \in [Requests -> {"Cancelled", "Cancelling", "Deleted", "Deleting", NoRow}]
    BY <2>1, <2>2 DEF TypeOK
  <2>4. \A q \in Requests : rpc'[q] # "idle" => rjob'[q] # NoJob /\ rrow'[q] # NoRow
    BY <2>1, <2>2 DEF TypeOK, NoRow
  <2> QED BY <1>1, <2>3, <2>4, RequestFrame DEF RequestLoad, TypeOK
<1>2. CASE RequestDecide(r)
  <2>1. stamped' \in [Jobs -> Seq(Writers)]
    <3>1. rjob[r] \in Jobs
      BY <1>2 DEF RequestDecide, TypeOK
    <3> QED BY <1>2, <3>1, StampEffect DEF RequestDecide, Writers
  <2>2. rsend' \in [Requests -> BOOLEAN]
    BY <1>2 DEF RequestDecide, TypeOK
  <2>3. /\ rpc' \in [Requests -> {"idle", "loaded", "insert", "send"}]
        /\ \A q \in Requests : rpc'[q] # "idle" => rjob'[q] # NoJob /\ rrow'[q] # NoRow
    BY <1>2 DEF RequestDecide, TypeOK
  <2> QED BY <1>2, <2>1, <2>2, <2>3, RequestFrame DEF RequestDecide, TypeOK
<1>3. CASE RequestInsert(r)
  <2>1. rjob[r] \in Jobs /\ rrow[r] \in JobStates
    BY <1>3 DEF RequestInsert, TypeOK, JobStates
  <2>2. CASE InsertRow(rjob[r], r, rrow[r]) /\ rpc' = [rpc EXCEPT ![r] = "send"]
             /\ UNCHANGED <<rjob, rrow, rsend>>
    <3>1. /\ stamped' \in [Jobs -> Seq(Writers)]
          /\ latest' \in [Jobs -> JobStates \cup {NoRow}]
      BY <2>1, <2>2, InsertEffect
    <3>2. /\ rpc' \in [Requests -> {"idle", "loaded", "insert", "send"}]
          /\ \A q \in Requests : rpc'[q] # "idle" => rjob'[q] # NoJob /\ rrow'[q] # NoRow
      BY <1>3, <2>2 DEF RequestInsert, TypeOK
    <3> QED BY <1>3, <2>2, <3>1, <3>2, RequestFrame DEF RequestInsert, TypeOK
  <2>3. CASE NoInsert(r) /\ RequestIdle(r)
    <3>1. /\ stamped' \in [Jobs -> Seq(Writers)]
          /\ latest' \in [Jobs -> JobStates \cup {NoRow}]
      BY <2>3, NoInsertEffect DEF TypeOK
    <3> QED BY <1>3, <2>3, <3>1, IdleEffect, RequestFrame DEF RequestInsert, TypeOK
  <2> QED BY <1>3, <2>2, <2>3 DEF RequestInsert
<1>4. CASE RequestSend(r)
  <2>1. wire' \in [Jobs -> [Lanes -> Seq(Messages)]] /\ queued' \subseteq Jobs
    <3>1. rjob[r] \in Jobs /\ WireMessage(rrow[r]) \in Messages /\ "job" \in Lanes
      BY <1>4 DEF RequestSend, TypeOK, WireMessage, Messages, Lanes
    <3>2. CASE Queue(rjob[r], "job", WireMessage(rrow[r]))
      BY <3>1, <3>2, QueueEffect
    <3>3. CASE UNCHANGED queueVars
      BY <3>3 DEF TypeOK
    <3> QED BY <1>4, <3>2, <3>3 DEF RequestSend
  <2> QED BY <1>4, <2>1, IdleEffect, RequestFrame DEF RequestSend, TypeOK
<1>5. CASE RequestDropped(r)
  <2>1. /\ stamped' \in [Jobs -> Seq(Writers)]
        /\ latest' \in [Jobs -> JobStates \cup {NoRow}]
    BY <1>5, NoInsertEffect DEF RequestDropped, TypeOK
  <2> QED BY <1>5, <2>1, IdleEffect, RequestFrame DEF RequestDropped, TypeOK
<1> QED BY <1>1, <1>2, <1>3, <1>4, <1>5 DEF RequestStep

\* What the resend task does to its own state
LEMMA ResendEffect ==
    ASSUME TypeOK, NEW list, list \subseteq Jobs, Resend(list)
    PROVE  /\ pass' \in Messages
           /\ todo' = NoScan \/ (todo' = list /\ pass' = pass)
  BY DEF Resend, NextPass, TypeOK, Messages

\* The steps of run_resend keep the types.
LEMMA ResendType ==
    ASSUME TypeOK, ResendStep
    PROVE  TypeOK'
<1> USE DEF rowVars, requestVars, queueVars, remoteVars
<1>1. /\ pass' \in Messages /\ (todo' = NoScan \/ todo' \subseteq Jobs)
      /\ wire' \in [Jobs -> [Lanes -> Seq(Messages)]] /\ queued' \subseteq Jobs
      /\ UNCHANGED <<rowVars, cpc, requestVars, up, upd, online, remoteVars, faults>>
  <2>1. CASE ResendScan
    <3>1. \E list \in SUBSET Jobs : Resend(list)
      <4>2. CASE Resend({})
        BY <4>2
      <4>3. ASSUME NEW old \in SUBSET Jobs,
                   Resend({j \in old : latest[j] \in ResendStates(pass)})
            PROVE  \E list \in SUBSET Jobs : Resend(list)
        BY <4>3
      <4> QED BY <2>1, <4>2, <4>3 DEF ResendScan
    <3>2. PICK list \in SUBSET Jobs : Resend(list)
      BY <3>1
    <3> QED BY <2>1, <3>2, ResendEffect DEF ResendScan, TypeOK
  <2>2. ASSUME NEW j \in Jobs, ResendSend(j)
        PROVE  /\ pass' \in Messages /\ (todo' = NoScan \/ todo' \subseteq Jobs)
               /\ wire' \in [Jobs -> [Lanes -> Seq(Messages)]] /\ queued' \subseteq Jobs
               /\ UNCHANGED <<rowVars, cpc, requestVars, up, upd, online, remoteVars,
                              faults>>
    <3>1. todo \ {j} \subseteq Jobs
      BY <2>2 DEF ResendSend, TypeOK
    <3>2. /\ pass' \in Messages /\ (todo' = NoScan \/ todo' \subseteq Jobs)
      BY <2>2, <3>1, ResendEffect DEF ResendSend
    <3>3. wire' \in [Jobs -> [Lanes -> Seq(Messages)]] /\ queued' \subseteq Jobs
      <4>1. CASE UNCHANGED queueVars
        BY <4>1 DEF TypeOK
      <4>2. CASE Queue(j, "resend", pass)
        BY <4>2, QueueEffect DEF TypeOK, Lanes
      <4> QED BY <2>2, <4>1, <4>2 DEF ResendSend
    <3> QED BY <2>2, <3>2, <3>3 DEF ResendSend
  <2> QED BY <2>1, <2>2 DEF ResendStep
<1> QED BY <1>1 DEF TypeOK

\* Connections, losses and crashes keep the types.
LEMMA FaultType ==
    ASSUME TypeOK, ClusterConnects \/ ConnectionLost \/ Crash
    PROVE  TypeOK'
<1> USE DEF rowVars, requestVars, resendVars, queueVars, remoteVars
<1>1. CASE ClusterConnects
  BY <1>1 DEF ClusterConnects, TypeOK
<1>2. CASE ConnectionLost
  <2>1. faults' \in 0..MaxFaults
    BY <1>2, BoundAssumption DEF ConnectionLost, TypeOK
  <2> QED BY <1>2, <2>1 DEF ConnectionLost, TypeOK
<1>3. CASE Crash
  <2>1. faults' \in 0..MaxFaults
    BY <1>3, BoundAssumption DEF Crash, TypeOK
  <2>2. /\ stamped' \in [Jobs -> Seq(Writers)]
        /\ cpc' \in [Jobs -> {"idle", "created", "send", "stamp", "insert", "done"}]
        /\ wire' \in [Jobs -> [Lanes -> Seq(Messages)]]
        /\ up' \in [Jobs -> Seq(Reports \cup {Malformed})]
        /\ upd' \in (Jobs \X Reports) \cup {<<>>}
    BY <1>3 DEF Crash, TypeOK
  <2>3. /\ rpc' \in [Requests -> {"idle", "loaded", "insert", "send"}]
        /\ rjob' \in [Requests -> Jobs \cup {NoJob}]
        /\ rrow' \in [Requests -> {"Cancelled", "Cancelling", "Deleted", "Deleting", NoRow}]
        /\ rsend' \in [Requests -> BOOLEAN]
        /\ \A r \in Requests : rpc'[r] = "idle"
    BY <1>3 DEF Crash
  <2>4. pass' \in Messages /\ todo' = NoScan /\ online' \in BOOLEAN
    BY <1>3 DEF Crash, Messages
  <2>5. UNCHANGED <<latest, queued, remote, heard>>
    BY <1>3 DEF Crash
  <2> QED BY <2>1, <2>2, <2>3, <2>4, <2>5 DEF TypeOK
<1> QED BY <1>1, <1>2, <1>3

\* Every step keeps the types.
LEMMA TypeStep == TypeOK /\ [Next]_vars => TypeOK'
<1> SUFFICES ASSUME TypeOK, [Next]_vars PROVE TypeOK'
  OBVIOUS
<1>1. ASSUME NEW j \in Jobs, CreateJob(j) \/ CreateStep(j) \/ CreateDropped(j)
      PROVE  TypeOK'
  BY <1>1, CreateType
<1>2. ASSUME NEW j \in Jobs, UpdateStamp(j) \/ UpdateReject(j) \/ RemoteProceeds(j)
      PROVE  TypeOK'
  BY <1>2, ReportType
<1>3. ASSUME NEW j \in Jobs, NEW l \in Lanes, LoseMessage(j, l) \/ Deliver(j, l)
      PROVE  TypeOK'
  BY <1>3, ReportType
<1>4. ASSUME NEW r \in Requests, RequestLoad(r) \/ RequestStep(r) \/ RequestDropped(r)
      PROVE  TypeOK'
  BY <1>4, RequestType
<1>5. CASE ResendStep
  BY <1>5, ResendType
<1>6. CASE UpdateInsert
  <2>1. PICK j : j \in Jobs
    BY <1>6 DEF UpdateInsert, TypeOK
  <2> QED BY <1>6, <2>1, ReportType
<1>7. CASE ClusterConnects \/ ConnectionLost \/ Crash
  BY <1>7, FaultType
<1>8. CASE UNCHANGED vars
  BY <1>8 DEF vars, rowVars, requestVars, resendVars, queueVars, remoteVars, TypeOK
<1> QED BY <1>1, <1>2, <1>3, <1>4, <1>5, <1>6, <1>7, <1>8 DEF Next

-----------------------------------------------------------------------------
(* What the cluster has reported                                           *)

\* An action that makes no report and no row of a report keeps HeardInv.
LEMMA HeardFrame ==
    ASSUME HeardInv, UNCHANGED <<upd, remoteVars>>,
           \A j \in Jobs, s \in Progress : Reported(j, s)' => Reported(j, s),
           \A j \in Jobs : latest'[j] \in Progress => latest[j] \in Progress
    PROVE  HeardInv'
  BY DEF HeardInv, remoteVars

\* With up unchanged, the same is reported.
LEMMA SameReports ==
    ASSUME UNCHANGED up
    PROVE  \A j \in Jobs, s \in Progress : Reported(j, s)' => Reported(j, s)
  BY DEF Reported

\* create_job records nothing that only the cluster can report.
LEMMA CreateHeard ==
    ASSUME JobInv, NEW j \in Jobs, CreateJob(j) \/ CreateStep(j) \/ CreateDropped(j)
    PROVE  HeardInv'
<1> USE DEF rowVars, queueVars, remoteVars
<1>1. TypeOK /\ HeardInv
  BY DEF JobInv
<1>2. UNCHANGED <<up, upd, remoteVars>>
  BY DEF CreateJob, CreateStep, CreateCheck, CreateSend, CreateStamp, CreateInsert,
         CreateDropped
<1>3. \A k \in Jobs : latest'[k] \in Progress => latest[k] \in Progress
  <2>1. CASE CreateJob(j) \/ CreateCheck(j)
    BY <1>1, <2>1 DEF CreateJob, CreateCheck, TypeOK, Progress, NoRow
  <2>2. CASE CreateSend(j) \/ CreateStamp(j)
    BY <2>2 DEF CreateSend, CreateStamp
  <2>3. CASE NoInsert(j)
    BY <1>1, <2>3, NoInsertEffect
  <2>4. CASE InsertRow(j, j, "Submitting")
    BY <1>1, <2>4, InsertEffect DEF Progress, JobStates
  <2> QED BY <2>1, <2>2, <2>3, <2>4 DEF CreateStep, CreateInsert, CreateDropped
<1> QED BY <1>1, <1>2, <1>3, SameReports, HeardFrame

\* cancel_job and delete_job record nothing that only the cluster can report.
LEMMA RequestHeard ==
    ASSUME JobInv, NEW r \in Requests,
           RequestLoad(r) \/ RequestStep(r) \/ RequestDropped(r)
    PROVE  HeardInv'
<1> USE DEF rowVars, queueVars, remoteVars
<1>1. TypeOK /\ HeardInv
  BY DEF JobInv
<1>2. UNCHANGED <<up, upd, remoteVars>>
  BY DEF RequestLoad, RequestStep, RequestDecide, RequestInsert, RequestSend,
         RequestDropped
<1>3. \A k \in Jobs : latest'[k] \in Progress => latest[k] \in Progress
  <2>1. CASE RequestLoad(r) \/ RequestDecide(r) \/ RequestSend(r)
    BY <2>1 DEF RequestLoad, RequestDecide, RequestSend
  <2>2. CASE NoInsert(r)
    BY <1>1, <2>2, NoInsertEffect
  <2>3. CASE rpc[r] = "insert" /\ InsertRow(rjob[r], r, rrow[r])
    <3>1. rjob[r] \in Jobs /\ rrow[r] \in JobStates /\ rrow[r] \notin Progress
      BY <1>1, <2>3 DEF TypeOK, JobStates, Progress
    <3> QED BY <1>1, <2>3, <3>1, InsertEffect
  <2> QED BY <2>1, <2>2, <2>3 DEF RequestStep, RequestInsert, RequestDropped
<1> QED BY <1>1, <1>2, <1>3, SameReports, HeardFrame

\* The cluster reports progress only of a job it was told of.
LEMMA DeliverHeard ==
    ASSUME JobInv, NEW j \in Jobs, NEW l \in Lanes, Deliver(j, l)
    PROVE  HeardInv'
<1> USE DEF rowVars
<1>1. TypeOK /\ HeardInv
  BY DEF JobInv
<1>2. UNCHANGED <<latest, upd>>
  BY DEF Deliver
<1>3. PICK m : m = Head(wire[j][l])
  OBVIOUS
<1>4. heard' = [heard EXCEPT ![j] = @ \cup {m}]
  BY <1>3 DEF Deliver
<1>5. \A k \in Jobs : heard[k] \subseteq heard'[k]
  BY <1>1, <1>4 DEF TypeOK
<1>6. /\ \A k \in Jobs : remote'[k] # "unknown" => "SUBMIT" \in heard'[k]
      /\ \A k \in Jobs, s \in Progress : Reported(k, s)' => "SUBMIT" \in heard'[k]
  <2>1. CASE m = "SUBMIT"
    <3>1. "SUBMIT" \in heard'[j]
      BY <1>1, <1>4, <2>1 DEF TypeOK
    <3>2. \A k \in Jobs : k # j => remote'[k] = remote[k]
      BY <1>1, <1>3, <2>1 DEF Deliver, TypeOK
    <3>3. \A k \in Jobs, s \in Progress :
             Reported(k, s)' => Reported(k, s) \/ (k = j /\ s = "Active")
      <4>1. CASE UNCHANGED up
        BY <4>1, SameReports
      <4>2. CASE Report(j, "Active")
        BY <1>1, <4>2, ReportEffect DEF Reports
      <4> QED BY <1>3, <2>1, <4>1, <4>2 DEF Deliver
    <3> QED BY <1>1, <1>5, <3>1, <3>2, <3>3 DEF HeardInv
  <2>2. CASE m # "SUBMIT"
    <3>1. \A k \in Jobs : remote'[k] # "unknown" => remote[k] # "unknown"
      BY <1>1, <1>3, <2>2 DEF Deliver, TypeOK
    <3>2. \A k \in Jobs, s \in Progress : Reported(k, s)' => Reported(k, s)
      <4>1. Report(j, "Cancelled") \/ Report(j, "Deleted")
        BY <1>3, <2>2 DEF Deliver
      <4> QED BY <1>1, <4>1, ReportEffect DEF Reports, Progress
    <3> QED BY <1>1, <1>5, <3>1, <3>2 DEF HeardInv
  <2> QED BY <2>1, <2>2
<1> QED BY <1>1, <1>2, <1>5, <1>6 DEF HeardInv

\* Every step keeps HeardInv.
LEMMA HeardStep == JobInv /\ [Next]_vars => HeardInv'
<1> SUFFICES ASSUME JobInv, [Next]_vars PROVE HeardInv'
  OBVIOUS
<1> USE DEF rowVars, requestVars, resendVars, queueVars, remoteVars
<1>0. TypeOK /\ HeardInv
  BY DEF JobInv
<1>1. ASSUME NEW j \in Jobs, CreateJob(j) \/ CreateStep(j) \/ CreateDropped(j)
      PROVE  HeardInv'
  BY <1>1, CreateHeard
<1>2. ASSUME NEW r \in Requests, RequestLoad(r) \/ RequestStep(r) \/ RequestDropped(r)
      PROVE  HeardInv'
  BY <1>2, RequestHeard
<1>3. ASSUME NEW j \in Jobs, UpdateStamp(j)
      PROVE  HeardInv'
  <2>1. /\ Reported(j, Head(up[j])) /\ upd' = <<j, Head(up[j])>>
        /\ \A k \in Jobs, t \in Progress : Reported(k, t)' => Reported(k, t)
    BY <1>0, <1>3, ReadEffect DEF UpdateStamp
  <2>2. UNCHANGED <<latest, remoteVars>>
    BY <1>3 DEF UpdateStamp
  <2>3. \A k \in Jobs, s \in Progress : upd' = <<k, s>> => "SUBMIT" \in heard[k]
    BY <1>0, <2>1 DEF HeardInv
  <2> QED BY <1>0, <2>1, <2>2, <2>3 DEF HeardInv
<1>4. ASSUME NEW j \in Jobs, UpdateReject(j)
      PROVE  HeardInv'
  <2>1. \A k \in Jobs, t \in Progress : Reported(k, t)' => Reported(k, t)
    BY <1>0, <1>4, ReadEffect DEF UpdateReject
  <2> QED BY <1>0, <1>4, <2>1, HeardFrame DEF UpdateReject
<1>5. CASE UpdateInsert
  <2>1. upd = <<upd[1], upd[2]>> /\ upd[1] \in Jobs /\ upd[2] \in Reports
    BY <1>0, <1>5 DEF UpdateInsert, TypeOK
  <2>2. \A k \in Jobs : latest'[k] = latest[k] \/ (k = upd[1] /\ latest'[k] = upd[2])
    <3>1. CASE InsertRow(upd[1], Updater, upd[2])
      BY <1>0, <2>1, <3>1, InsertEffect DEF JobStates, Reports
    <3>2. CASE NoInsert(Updater)
      BY <1>0, <3>2, NoInsertEffect
    <3> QED BY <1>5, <3>1, <3>2 DEF UpdateInsert
  <2>3. upd[2] \in Progress => "SUBMIT" \in heard[upd[1]]
    BY <1>0, <2>1 DEF HeardInv
  <2>4. UNCHANGED <<up, remoteVars>> /\ upd' = <<>>
    BY <1>5 DEF UpdateInsert
  <2>5. \A k \in Jobs, s \in Progress : upd' # <<k, s>>
    BY <2>4
  <2> QED BY <1>0, <2>2, <2>3, <2>4, <2>5, SameReports DEF HeardInv
<1>6. ASSUME NEW j \in Jobs, RemoteProceeds(j)
      PROVE  HeardInv'
  <2>1. "SUBMIT" \in heard[j] /\ UNCHANGED <<latest, upd, heard>>
    BY <1>0, <1>6 DEF RemoteProceeds, HeardInv
  <2>2. \A k \in Jobs, t \in Progress : Reported(k, t)' => Reported(k, t) \/ k = j
    BY <1>0, <1>6, ReportEffect DEF RemoteProceeds, Reports
  <2>3. \A k \in Jobs : remote'[k] = remote[k] \/ k = j
    BY <1>0, <1>6 DEF RemoteProceeds, TypeOK
  <2> QED BY <1>0, <2>1, <2>2, <2>3 DEF HeardInv
<1>7. ASSUME NEW j \in Jobs, NEW l \in Lanes, Deliver(j, l)
      PROVE  HeardInv'
  BY <1>7, DeliverHeard
<1>8. ASSUME NEW j \in Jobs, NEW l \in Lanes, LoseMessage(j, l)
      PROVE  HeardInv'
  BY <1>0, <1>8, SameReports, HeardFrame DEF LoseMessage
<1>9. CASE ResendStep
  <2>1. UNCHANGED <<latest, up, upd, remoteVars>>
    BY <1>9 DEF ResendStep, ResendScan, ResendSend
  <2> QED BY <1>0, <2>1, SameReports, HeardFrame
<1>10. CASE ClusterConnects \/ ConnectionLost
  <2>1. UNCHANGED <<latest, up, upd, remoteVars>>
    BY <1>10 DEF ClusterConnects, ConnectionLost
  <2> QED BY <1>0, <2>1, SameReports, HeardFrame
<1>11. CASE Crash
  <2>1. UNCHANGED <<latest, remote, heard>> /\ upd' = <<>>
    BY <1>11 DEF Crash
  <2>2. \A k \in Jobs, s \in Progress : ~Reported(k, s)'
    BY <1>11 DEF Crash, Reported
  <2>3. \A k \in Jobs, s \in Progress : upd' # <<k, s>>
    BY <2>1
  <2> QED BY <1>0, <2>1, <2>2, <2>3 DEF HeardInv
<1>12. CASE UNCHANGED vars
  BY <1>0, <1>12, SameReports, HeardFrame DEF vars
<1> QED BY <1>1, <1>2, <1>3, <1>4, <1>5, <1>6, <1>7, <1>8, <1>9, <1>10, <1>11, <1>12
        DEF Next

-----------------------------------------------------------------------------
(* What was queued                                                         *)

\* The parts of QueuedInv, each as a claim about one step
WireKept == \A j \in Jobs \ queued' :
    \A m \in {"SUBMIT", "CANCEL"} : OnWire(j, m)' => OnWire(j, m)
RowKept == \A j \in Jobs \ queued' :
    latest'[j] \in {"Submitting", "Cancelling"} => latest[j] \in {"Submitting", "Cancelling"}
CreateKept == \A j \in Jobs \ queued' :
    cpc'[j] \in {"stamp", "insert"} => cpc[j] \in {"stamp", "insert"}
RequestKept == \A j \in Jobs \ queued' : \A r \in Requests :
    rjob'[r] = j /\ rrow'[r] = "Cancelling" => rjob[r] = j /\ rrow[r] = "Cancelling"
ResendKept == \A j \in Jobs \ queued' :
    pass' = "CANCEL" /\ j \in todo' => pass = "CANCEL" /\ j \in todo

\* A step with all its parts kept keeps QueuedInv.
LEMMA QueuedFrame ==
    ASSUME QueuedInv, queued \subseteq queued', UNCHANGED heard,
           WireKept, RowKept, CreateKept, RequestKept, ResendKept
    PROVE  QueuedInv'
<1> SUFFICES ASSUME NEW j \in Jobs \ queued'
             PROVE  /\ ~OnWire(j, "SUBMIT")' /\ ~OnWire(j, "CANCEL")'
                    /\ "SUBMIT" \notin heard'[j] /\ "CANCEL" \notin heard'[j]
                    /\ latest'[j] \notin {"Submitting", "Cancelling"}
                    /\ cpc'[j] \notin {"stamp", "insert"}
                    /\ \A r \in Requests : rjob'[r] = j => rrow'[r] # "Cancelling"
                    /\ pass' = "CANCEL" => j \notin todo'
  BY DEF QueuedInv
<1>1. j \in Jobs \ queued
  OBVIOUS
<1>2. ~OnWire(j, "SUBMIT")' /\ ~OnWire(j, "CANCEL")'
  BY <1>1 DEF QueuedInv, WireKept
<1>3. "SUBMIT" \notin heard'[j] /\ "CANCEL" \notin heard'[j]
  BY <1>1 DEF QueuedInv
<1>4. /\ latest'[j] \notin {"Submitting", "Cancelling"}
      /\ cpc'[j] \notin {"stamp", "insert"}
  BY <1>1 DEF QueuedInv, RowKept, CreateKept
<1>5. \A r \in Requests : rjob'[r] = j => rrow'[r] # "Cancelling"
  BY <1>1 DEF QueuedInv, RequestKept
<1>6. pass' = "CANCEL" => j \notin todo'
  BY <1>1 DEF QueuedInv, ResendKept
<1> QED BY <1>2, <1>3, <1>4, <1>5, <1>6

\* With wire unchanged, the same messages are under way.
LEMMA SameWire == UNCHANGED wire => WireKept
  BY DEF WireKept, OnWire

\* What does not change is kept.
LEMMA SameRest ==
    /\ UNCHANGED latest => RowKept
    /\ UNCHANGED cpc => CreateKept
    /\ UNCHANGED <<rjob, rrow>> => RequestKept
    /\ UNCHANGED <<pass, todo>> => ResendKept
  BY DEF RowKept, CreateKept, RequestKept, ResendKept

\* create_job records Submitting only after it has queued the SUBMIT.
LEMMA CreateQueued ==
    ASSUME JobInv, NEW j \in Jobs, CreateJob(j) \/ CreateStep(j) \/ CreateDropped(j)
    PROVE  QueuedInv'
<1> USE DEF rowVars, requestVars, resendVars, queueVars, remoteVars, CreateGoto
<1>0. TypeOK /\ QueuedInv
  BY DEF JobInv
<1>1. UNCHANGED <<rjob, rrow, pass, todo, heard>>
  BY DEF CreateJob, CreateStep, CreateCheck, CreateSend, CreateStamp, CreateInsert,
         CreateDropped
<1>2. CASE CreateJob(j) \/ CreateCheck(j)
  <2>1. UNCHANGED <<wire, queued>>
    BY <1>2 DEF CreateJob, CreateCheck
  <2>2. RowKept
    BY <1>0, <1>2 DEF CreateJob, CreateCheck, RowKept, TypeOK, NoRow
  <2>3. CreateKept
    BY <1>0, <1>2 DEF CreateJob, CreateCheck, CreateKept, TypeOK
  <2> QED BY <1>0, <1>1, <2>1, <2>2, <2>3, SameWire, SameRest, QueuedFrame
<1>3. CASE CreateSend(j)
  <2>1. /\ queued \subseteq queued' /\ j \in queued'
        /\ \A k \in Jobs, n \in Messages :
              OnWire(k, n)' => OnWire(k, n) \/ (k = j /\ n = "SUBMIT")
    BY <1>0, <1>3, QueueEffect DEF CreateSend, Lanes, Messages
  <2>2. WireKept
    BY <2>1 DEF WireKept, Messages
  <2>3. CreateKept
    BY <1>0, <1>3, <2>1 DEF CreateSend, CreateKept, TypeOK
  <2>4. UNCHANGED latest
    BY <1>3 DEF CreateSend
  <2> QED BY <1>0, <1>1, <2>1, <2>2, <2>3, <2>4, SameRest, QueuedFrame
<1>4. CASE CreateStamp(j)
  <2>1. UNCHANGED <<latest, wire, queued>>
    BY <1>4 DEF CreateStamp
  <2>2. CreateKept
    BY <1>0, <1>4 DEF CreateStamp, CreateKept, TypeOK
  <2> QED BY <1>0, <1>1, <2>1, <2>2, SameWire, SameRest, QueuedFrame
<1>5. CASE CreateInsert(j) \/ CreateDropped(j)
  <2>1. UNCHANGED <<wire, queued>>
    BY <1>5 DEF CreateInsert, CreateDropped
  <2>2. RowKept
    <3>1. CASE NoInsert(j)
      BY <1>0, <3>1, NoInsertEffect, SameRest
    <3>2. CASE cpc[j] = "insert" /\ InsertRow(j, j, "Submitting")
      <4>1. j \in queued'
        BY <1>0, <2>1, <3>2 DEF QueuedInv
      <4>2. \A k \in Jobs : latest'[k] = latest[k] \/ k = j
        BY <1>0, <3>2, InsertEffect DEF JobStates
      <4> QED BY <4>1, <4>2 DEF RowKept
    <3> QED BY <1>5, <3>1, <3>2 DEF CreateInsert, CreateDropped
  <2>3. CreateKept
    BY <1>0, <1>5 DEF CreateInsert, CreateDropped, CreateKept, TypeOK
  <2> QED BY <1>0, <1>1, <2>1, <2>2, <2>3, SameWire, SameRest, QueuedFrame
<1> QED BY <1>2, <1>3, <1>4, <1>5 DEF CreateStep

\* A request that will send a cancellation has found the job submitted.
LEMMA LoadQueued ==
    ASSUME JobInv, NEW r \in Requests, RequestLoad(r)
    PROVE  QueuedInv'
<1> USE DEF rowVars, requestVars, resendVars, queueVars, remoteVars
<1>1. TypeOK /\ HeardInv /\ QueuedInv
  BY DEF JobInv
<1>2. PICK j \in Jobs, m \in {"CANCEL", "DELETE"} :
         /\ latest[j] # NoRow /\ latest[j] \notin InvalidStates(m)
         /\ rjob' = [rjob EXCEPT ![r] = j]
         /\ rrow' = [rrow EXCEPT ![r] = NewState(m, latest[j])]
  BY DEF RequestLoad
<1>3. UNCHANGED <<latest, cpc, wire, queued, pass, todo, heard>>
  BY DEF RequestLoad
<1>4. NewState(m, latest[j]) = "Cancelling" => latest[j] \in {"Submitting", "Active"}
  BY <1>1, <1>2 DEF NewState, InvalidStates, TypeOK, JobStates
<1>5. latest[j] \in {"Submitting", "Active"} => j \in queued
  BY <1>1 DEF HeardInv, QueuedInv, Progress
<1>6. RequestKept
  BY <1>1, <1>2, <1>3, <1>4, <1>5 DEF RequestKept, TypeOK
<1> QED BY <1>1, <1>3, <1>6, SameWire, SameRest, QueuedFrame

\* A request that sends CANCEL, or records it, is for a job that was queued.
LEMMA RequestQueued ==
    ASSUME JobInv, NEW r \in Requests, RequestStep(r) \/ RequestDropped(r)
    PROVE  QueuedInv'
<1> USE DEF rowVars, requestVars, resendVars, queueVars, remoteVars
<1>0. TypeOK /\ QueuedInv
  BY DEF JobInv
<1>1. UNCHANGED <<cpc, pass, todo, heard>>
  BY DEF RequestStep, RequestDecide, RequestInsert, RequestSend, RequestDropped
<1>2. ASSUME RequestIdle(r) PROVE RequestKept
  BY <1>0, <1>2, IdleEffect DEF RequestKept
<1>3. CASE RequestDecide(r)
  <2>1. UNCHANGED <<latest, rjob, rrow, wire, queued>>
    BY <1>3 DEF RequestDecide
  <2> QED BY <1>0, <1>1, <2>1, SameWire, SameRest, QueuedFrame
<1>4. CASE RequestInsert(r)
  <2>1. UNCHANGED <<wire, queued>>
    BY <1>4 DEF RequestInsert
  <2>2. RequestKept
    BY <1>2, <1>4, SameRest DEF RequestInsert
  <2>3. RowKept
    <3>1. CASE NoInsert(r)
      BY <1>0, <3>1, NoInsertEffect, SameRest
    <3>2. CASE InsertRow(rjob[r], r, rrow[r])
      <4>1. rjob[r] \in Jobs /\ rrow[r] \in JobStates /\ rrow[r] # "Submitting"
        BY <1>0, <1>4 DEF RequestInsert, TypeOK, JobStates
      <4>2. rrow[r] = "Cancelling" => rjob[r] \in queued
        BY <1>0, <4>1 DEF QueuedInv
      <4>3. \A k \in Jobs : latest'[k] = latest[k]
                              \/ (k = rjob[r] /\ latest'[k] = rrow[r])
        BY <1>0, <3>2, <4>1, InsertEffect
      <4> QED BY <2>1, <4>1, <4>2, <4>3 DEF RowKept
    <3> QED BY <1>4, <3>1, <3>2 DEF RequestInsert
  <2> QED BY <1>0, <1>1, <2>1, <2>2, <2>3, SameWire, SameRest, QueuedFrame
<1>5. CASE RequestSend(r)
  <2>1. RequestKept /\ UNCHANGED latest
    BY <1>2, <1>5 DEF RequestSend
  <2>2. queued \subseteq queued' /\ WireKept
    <3>1. CASE UNCHANGED queueVars
      BY <3>1, SameWire
    <3>2. CASE Queue(rjob[r], "job", WireMessage(rrow[r]))
      <4>1. rjob[r] \in Jobs /\ WireMessage(rrow[r]) \in {"CANCEL", "DELETE"}
        BY <1>0, <1>5 DEF RequestSend, TypeOK, WireMessage
      <4>2. WireMessage(rrow[r]) = "CANCEL" => rjob[r] \in queued
        BY <1>0, <4>1 DEF QueuedInv, WireMessage
      <4>3. /\ queued \subseteq queued'
            /\ \A k \in Jobs, n \in Messages :
                  OnWire(k, n)' => \/ OnWire(k, n)
                                   \/ k = rjob[r] /\ n = WireMessage(rrow[r])
        BY <1>0, <3>2, <4>1, QueueEffect DEF Lanes, Messages
      <4> QED BY <4>1, <4>2, <4>3 DEF WireKept, Messages
    <3> QED BY <1>5, <3>1, <3>2 DEF RequestSend
  <2> QED BY <1>0, <1>1, <2>1, <2>2, SameRest, QueuedFrame
<1>6. CASE RequestDropped(r)
  <2>1. UNCHANGED <<latest, wire, queued>> /\ RequestKept
    BY <1>0, <1>2, <1>6, NoInsertEffect DEF RequestDropped
  <2> QED BY <1>0, <1>1, <2>1, SameWire, SameRest, QueuedFrame
<1> QED BY <1>3, <1>4, <1>5, <1>6 DEF RequestStep

\* The pass for CANCEL takes up jobs that are being cancelled, and these have
\* been queued.
LEMMA ResendQueued ==
    ASSUME JobInv, ResendStep
    PROVE  QueuedInv'
<1> USE DEF rowVars, requestVars, queueVars, remoteVars
<1>0. TypeOK /\ QueuedInv
  BY DEF JobInv
<1>1. UNCHANGED <<latest, cpc, rjob, rrow, heard>>
  BY DEF ResendStep, ResendScan, ResendSend
<1>2. ASSUME todo' = NoScan PROVE ResendKept
  BY <1>2, WriterAssumption DEF NoScan, ResendKept
<1>3. CASE ResendScan
  <2>1. UNCHANGED <<wire, queued>>
    BY <1>3 DEF ResendScan
  <2>2. ResendKept
    <3>1. CASE Resend({})
      <4>1. todo' = NoScan
        BY <3>1 DEF Resend
      <4> QED BY <1>2, <4>1
    <3>2. ASSUME NEW old \in SUBSET Jobs,
                 Resend({j \in old : latest[j] \in ResendStates(pass)})
          PROVE  ResendKept
      <4>1. \/ todo' = NoScan
            \/ todo' = {j \in old : latest[j] \in ResendStates(pass)} /\ pass' = pass
        BY <1>0, <3>2, ResendEffect
      <4>2. pass = "CANCEL" => \A j \in Jobs : latest[j] \in ResendStates(pass) => j \in queued
        BY <1>0 DEF QueuedInv, ResendStates
      <4>3. CASE todo' = {j \in old : latest[j] \in ResendStates(pass)} /\ pass' = pass
        BY <2>1, <4>2, <4>3 DEF ResendKept
      <4> QED BY <1>2, <4>1, <4>3
    <3> QED BY <1>3, <3>1, <3>2 DEF ResendScan
  <2> QED BY <1>0, <1>1, <2>1, <2>2, SameWire, SameRest, QueuedFrame
<1>4. ASSUME NEW j \in Jobs, ResendSend(j)
      PROVE  QueuedInv'
  <2>1. todo \ {j} \subseteq Jobs /\ j \in todo /\ pass \in Messages
    BY <1>0, <1>4 DEF ResendSend, TypeOK
  <2>2. ResendKept
    <3>1. todo' = NoScan \/ (todo' = todo \ {j} /\ pass' = pass)
      BY <1>0, <1>4, <2>1, ResendEffect DEF ResendSend
    <3>2. CASE todo' = todo \ {j} /\ pass' = pass
      BY <3>2 DEF ResendKept
    <3> QED BY <1>2, <3>1, <3>2
  <2>3. queued \subseteq queued' /\ WireKept
    <3>1. CASE UNCHANGED queueVars
      BY <3>1, SameWire
    <3>2. CASE Queue(j, "resend", pass)
      <4>1. pass = "CANCEL" => j \in queued
        BY <1>0, <2>1 DEF QueuedInv
      <4>2. /\ queued \subseteq queued' /\ (pass = "SUBMIT" => j \in queued')
            /\ \A k \in Jobs, n \in Messages :
                  OnWire(k, n)' => OnWire(k, n) \/ (k = j /\ n = pass)
        BY <1>0, <2>1, <3>2, QueueEffect DEF Lanes
      <4> QED BY <4>1, <4>2 DEF WireKept, Messages
    <3> QED BY <1>4, <3>1, <3>2 DEF ResendSend
  <2> QED BY <1>0, <1>1, <2>2, <2>3, SameRest, QueuedFrame
<1> QED BY <1>3, <1>4 DEF ResendStep

\* Every step keeps QueuedInv.
LEMMA QueuedStep == JobInv /\ [Next]_vars => QueuedInv'
<1> SUFFICES ASSUME JobInv, [Next]_vars PROVE QueuedInv'
  OBVIOUS
<1> USE DEF rowVars, requestVars, resendVars, queueVars, remoteVars
<1>0. TypeOK /\ QueuedInv
  BY DEF JobInv
<1>1. ASSUME NEW j \in Jobs, CreateJob(j) \/ CreateStep(j) \/ CreateDropped(j)
      PROVE  QueuedInv'
  BY <1>1, CreateQueued
<1>2. ASSUME NEW r \in Requests, RequestLoad(r) \/ RequestStep(r) \/ RequestDropped(r)
      PROVE  QueuedInv'
  BY <1>2, LoadQueued, RequestQueued
<1>3. CASE ResendStep
  BY <1>3, ResendQueued
<1>4. ASSUME NEW j \in Jobs, UpdateStamp(j) \/ UpdateReject(j) \/ RemoteProceeds(j)
      PROVE  QueuedInv'
  <2>1. UNCHANGED <<latest, cpc, rjob, rrow, pass, todo, wire, queued, heard>>
    BY <1>4 DEF UpdateStamp, UpdateReject, RemoteProceeds
  <2> QED BY <1>0, <2>1, SameWire, SameRest, QueuedFrame
<1>5. CASE UpdateInsert
  <2>1. UNCHANGED <<cpc, rjob, rrow, pass, todo, wire, queued, heard>>
    BY <1>5 DEF UpdateInsert
  <2>2. RowKept
    <3>1. CASE NoInsert(Updater)
      BY <1>0, <3>1, NoInsertEffect, SameRest
    <3>2. CASE InsertRow(upd[1], Updater, upd[2])
      <4>1. upd[1] \in Jobs /\ upd[2] \in Reports
        BY <1>0, <1>5 DEF UpdateInsert, TypeOK
      <4>2. \A k \in Jobs : latest'[k] = latest[k] \/ latest'[k] = upd[2]
        BY <1>0, <3>2, <4>1, InsertEffect DEF JobStates, Reports
      <4> QED BY <4>1, <4>2 DEF RowKept, Reports
    <3> QED BY <1>5, <3>1, <3>2 DEF UpdateInsert
  <2> QED BY <1>0, <2>1, <2>2, SameWire, SameRest, QueuedFrame
<1>6. ASSUME NEW j \in Jobs, NEW l \in Lanes, LoseMessage(j, l)
      PROVE  QueuedInv'
  <2>1. UNCHANGED <<latest, cpc, rjob, rrow, pass, todo, queued, heard>>
    BY <1>6 DEF LoseMessage
  <2>2. WireKept
    BY <1>0, <1>6, TakeEffect DEF LoseMessage, WireKept, Messages
  <2> QED BY <1>0, <2>1, <2>2, SameRest, QueuedFrame
<1>7. ASSUME NEW j \in Jobs, NEW l \in Lanes, Deliver(j, l)
      PROVE  QueuedInv'
  <2>1. UNCHANGED <<latest, cpc, rjob, rrow, pass, todo, queued>>
    BY <1>7 DEF Deliver
  <2>2. /\ Head(wire[j][l]) \in Messages /\ OnWire(j, Head(wire[j][l]))
        /\ \A k \in Jobs, n \in Messages : OnWire(k, n)' => OnWire(k, n)
    BY <1>0, <1>7, TakeEffect DEF Deliver
  <2>3. heard' = [heard EXCEPT ![j] = @ \cup {Head(wire[j][l])}]
    BY <1>7 DEF Deliver
  <2>4. ASSUME NEW k \in Jobs \ queued
        PROVE  "SUBMIT" \notin heard'[k] /\ "CANCEL" \notin heard'[k]
    <3>1. /\ ~OnWire(k, "SUBMIT") /\ ~OnWire(k, "CANCEL")
          /\ "SUBMIT" \notin heard[k] /\ "CANCEL" \notin heard[k]
      BY <1>0 DEF QueuedInv
    <3>2. heard'[k] = heard[k] \/ (k = j /\ heard'[k] = heard[k] \cup {Head(wire[j][l])})
      BY <1>0, <2>3 DEF TypeOK
    <3>3. k = j => Head(wire[j][l]) # "SUBMIT" /\ Head(wire[j][l]) # "CANCEL"
      BY <2>2, <3>1
    <3> QED BY <3>1, <3>2, <3>3
  <2>5. ASSUME NEW k \in Jobs \ queued
        PROVE  ~OnWire(k, "SUBMIT")' /\ ~OnWire(k, "CANCEL")'
    BY <1>0, <2>2, <2>5 DEF QueuedInv, Messages
  <2> QED BY <1>0, <2>1, <2>4, <2>5 DEF QueuedInv
<1>8. CASE ClusterConnects \/ ConnectionLost
  <2>1. UNCHANGED <<latest, cpc, rjob, rrow, pass, todo, wire, queued, heard>>
    BY <1>8 DEF ClusterConnects, ConnectionLost
  <2> QED BY <1>0, <2>1, SameWire, SameRest, QueuedFrame
<1>9. CASE Crash
  <2>1. UNCHANGED <<latest, queued, heard>>
    BY <1>9 DEF Crash
  <2>2. WireKept
    BY <1>9 DEF Crash, WireKept, OnWire
  <2>3. CreateKept
    BY <1>9 DEF Crash, CreateKept
  <2>4. RequestKept
    BY <1>9, WriterAssumption DEF Crash, RequestKept
  <2>5. ResendKept
    BY <1>9 DEF Crash, ResendKept
  <2> QED BY <1>0, <2>1, <2>2, <2>3, <2>4, <2>5, SameRest, QueuedFrame
<1>10. CASE UNCHANGED vars
  BY <1>0, <1>10, SameWire, SameRest, QueuedFrame DEF vars
<1> QED BY <1>1, <1>2, <1>3, <1>4, <1>5, <1>6, <1>7, <1>8, <1>9, <1>10 DEF Next

-----------------------------------------------------------------------------
(* The theorems                                                            *)

\* Every reachable state of the job API, the resend task and the report handler
\* satisfies the inductive invariant.
THEOREM JobInductive == Spec => []JobInv
<1>1. JobInv /\ [Next]_vars => JobInv'
  BY TypeStep, HeardStep, QueuedStep DEF JobInv
<1> QED BY <1>1, JobInit, PTL DEF Spec

\* Type correctness: among the rest, a request of cancel_job or delete_job that
\* is being served has a job and a row, and only a JobStatus is recorded.
THEOREM JobTypeCorrect == Spec => []TypeOK
<1>1. JobInv => TypeOK
  BY DEF JobInv
<1> QED BY <1>1, JobInductive, PTL

\* The history of a job does not run ahead of the cluster: that it is active or
\* has finished is recorded only after a SUBMIT_JOB was delivered.
THEOREM HistoryBehindCluster == Spec => []NotForgotten
<1>1. JobInv => NotForgotten
  BY DEF JobInv, HeardInv, NotForgotten, Progress
<1> QED BY <1>1, JobInductive, PTL

\* cancel_job and the resend task send CANCEL_JOB only for a job whose
\* submission was queued before.
THEOREM CancelAfterSubmit == Spec => []CancelFollowsSubmit
<1>1. JobInv => CancelFollowsSubmit
  BY DEF JobInv, QueuedInv, CancelFollowsSubmit, OnWire
<1> QED BY <1>1, JobInductive, PTL

=============================================================================
