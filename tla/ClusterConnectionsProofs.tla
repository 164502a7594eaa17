----------------------- MODULE ClusterConnectionsProofs -----------------------
(***************************************************************************)
(* Proofs about ClusterConnections for any clusters, connections, and any  *)
(* number of tokens.                                                       *)
(***************************************************************************)
EXTENDS ClusterConnections, TLAPS

-----------------------------------------------------------------------------
(* The inductive invariant                                                 *)

\* Where the cluster of a connection is known, and where it may be mapped
Known  == {"found", "check", "install", "insert", "open", "ponging", "grace",
           "removing", "done"}
Served == {"open", "ponging", "grace"}

\* A token in the table is a cluster's, and so is a connection that has
\* presented one.
TargetInv ==
    /\ \A t \in rows : owner[t] \in Clusters
    /\ \A c \in Conns : hpc[c] \in Known => target[c] \in Clusters

\* connection_map holds connections that are served.  Whoever has taken one
\* out is the only one to remove it, and the handler removes its own.
RemovalInv ==
    /\ \A c \in mapped : hpc[c] \in Served
    /\ \A p \in Removers : (rstep[p] = "idle") <=> (rconn[p] = NoConn)
    /\ \A p \in Removers : rconn[p] # NoConn =>
          /\ rconn[p] \notin mapped
          /\ hpc[rconn[p]] \in Served \cup {"removing", "done"}
    /\ \A c \in Conns : rstep[c] # "idle" => hpc[c] = "removing"

\* The tracking maps forget a connection once its cluster has.
ForgetInv ==
    \A p \in Removers : rstep[p] = "forget" => sender[target[rconn[p]]] # rconn[p]

ConnInv ==
    /\ TypeOK /\ TargetInv /\ RemovalInv /\ ForgetInv
    /\ OnlineIsReal /\ PingsAreLive

USE DEF trackVars, peerVars, pingVars, removeVars, tokenVars, scanVars

-----------------------------------------------------------------------------
(* Types                                                                   *)

\* The steps of the reconnect scan keep the types.
LEMMA ScanType ==
    ASSUME TypeOK, NEW k \in Clusters,
           ScanStart(k) \/ ScanPurge(k) \/ ScanIssue(k) \/ ScanFail(k) \/ BackoffElapses(k)
    PROVE  TypeOK'
<1>1. CASE ScanStart(k)
  BY <1>1 DEF ScanStart, TypeOK
<1>2. CASE ScanPurge(k)
  BY <1>2 DEF ScanPurge, TypeOK
<1>3. CASE ScanIssue(k)
  <2>1. issued + 1 \in Tokens /\ issued' \in 0..MaxTokens
    BY <1>3, TokensAssumption DEF ScanIssue, TypeOK, Tokens
  <2> QED
    BY <1>3, <2>1 DEF ScanIssue, TypeOK
<1>4. CASE ScanFail(k)
  BY <1>4 DEF ScanFail, TypeOK
<1>5. CASE BackoffElapses(k)
  BY <1>5 DEF BackoffElapses, TypeOK
<1> QED
  BY <1>1, <1>2, <1>3, <1>4, <1>5

\* The steps by which a connection is admitted
Admission(c) ==
    Connect(c) \/ UuidLookup(c) \/ UuidConsume(c) \/ OnlineCheck(c)
       \/ Install(c) \/ Insert(c)

\* The steps of an admission keep the types.
LEMMA AdmissionType ==
    ASSUME TypeOK, TargetInv, NEW c \in Conns, Admission(c)
    PROVE  TypeOK'
<1>1. CASE Connect(c)
  <2>1. ASSUME NEW k \in LtkClusters, HandlerGoto(c, "check"),
               target' = [target EXCEPT ![c] = k], UNCHANGED token
        PROVE  TypeOK'
    BY <1>1, <2>1, LtkAssumption DEF Connect, HandlerGoto, TypeOK
  <2>2. ASSUME NEW t \in 1..issued, HandlerGoto(c, "lookup"),
               token' = [token EXCEPT ![c] = t], UNCHANGED target
        PROVE  TypeOK'
    <3>1. t \in Tokens
      BY TokensAssumption DEF TypeOK, Tokens
    <3> QED
      BY <1>1, <2>2, <3>1 DEF Connect, HandlerGoto, TypeOK
  <2> QED
    BY <1>1, <2>1, <2>2 DEF Connect
<1>2. CASE UuidLookup(c)
  <2>1. target' \in [Conns -> Clusters \cup {NoCluster}]
    BY <1>2 DEF UuidLookup, TypeOK, TargetInv
  <2>2. rows' \subseteq Tokens
    BY <1>2 DEF UuidLookup, TypeOK
  <2>3. hpc' \in [Conns -> {"idle", "lookup", "found", "check", "install", "insert",
                            "open", "ponging", "grace", "removing", "done", "rejected"}]
    BY <1>2 DEF UuidLookup, HandlerGoto, TypeOK
  <2> QED
    BY <1>2, <2>1, <2>2, <2>3 DEF UuidLookup, TypeOK
<1>3. CASE UuidConsume(c)
  BY <1>3 DEF UuidConsume, HandlerGoto, TypeOK
<1>4. CASE OnlineCheck(c)
  BY <1>4 DEF OnlineCheck, HandlerGoto, TypeOK
<1>5. CASE Install(c)
  BY <1>5 DEF Install, HandlerGoto, TypeOK
<1>6. CASE Insert(c)
  BY <1>6 DEF Insert, HandlerGoto, TypeOK
<1> QED
  BY <1>1, <1>2, <1>3, <1>4, <1>5, <1>6 DEF Admission

\* The steps of a connection that is served
Service(c) ==
    PongWrite(c) \/ WriteClose(c) \/ GraceEnds(c) \/ HandlerDone(c)
       \/ Pong(c) \/ PeerDies(c) \/ PeerLeaves(c)

\* The exact removal from connection_map leaves its variables in range,
\* whether it finds the connection or not.
LEMMA RemovesType ==
    ASSUME TypeOK, NEW p \in Removers, NEW c \in Conns, NEW close \in BOOLEAN,
           Removes(p, c, close)
    PROVE  /\ mapped' \subseteq Conns
           /\ rstep' \in [Removers -> {"idle", "close", "clear", "forget"}]
           /\ rconn' \in [Removers -> Conns \cup {NoConn}]
  BY DEF Removes, TypeOK

\* The steps of an accepted connection keep the types.
LEMMA ServiceType ==
    ASSUME TypeOK, NEW c \in Conns, Service(c)
    PROVE  TypeOK'
<1>0. c \in Removers
  BY DEF Removers
<1>1. CASE PongWrite(c)
  BY <1>1 DEF PongWrite, HandlerGoto, TypeOK
<1>2. CASE WriteClose(c)
  <2>1. hpc' \in [Conns -> {"idle", "lookup", "found", "check", "install", "insert",
                            "open", "ponging", "grace", "removing", "done", "rejected"}]
    BY <1>2 DEF WriteClose, HandlerGoto, TypeOK
  <2> QED
    BY <1>2, <2>1 DEF WriteClose, TypeOK
<1>3. CASE GraceEnds(c)
  <2>1. /\ mapped' \subseteq Conns
        /\ rstep' \in [Removers -> {"idle", "close", "clear", "forget"}]
        /\ rconn' \in [Removers -> Conns \cup {NoConn}]
    BY <1>0, <1>3, RemovesType DEF GraceEnds
  <2> QED
    BY <1>3, <2>1 DEF GraceEnds, HandlerGoto, TypeOK
<1>4. CASE HandlerDone(c)
  BY <1>4 DEF HandlerDone, HandlerGoto, TypeOK
<1>5. CASE Pong(c)
  BY <1>5 DEF Pong, HandlerGoto, TypeOK
<1>6. CASE PeerDies(c)
  BY <1>6 DEF PeerDies, TypeOK
<1>7. CASE PeerLeaves(c)
  <2>1. /\ mapped' \subseteq Conns
        /\ rstep' \in [Removers -> {"idle", "close", "clear", "forget"}]
        /\ rconn' \in [Removers -> Conns \cup {NoConn}]
    BY <1>0, <1>7, RemovesType DEF PeerLeaves
  <2> QED
    BY <1>7, <2>1 DEF PeerLeaves, HandlerGoto, TypeOK
<1> QED
  BY <1>1, <1>2, <1>3, <1>4, <1>5, <1>6, <1>7 DEF Service

\* A connection under removal is a cluster's.
LEMMA RemovedIsKnown ==
    ASSUME TypeOK, TargetInv, RemovalInv, NEW p \in Removers, rstep[p] # "idle"
    PROVE  /\ rconn[p] \in Conns /\ target[rconn[p]] \in Clusters
           /\ rconn[p] \notin mapped
           /\ hpc[rconn[p]] \in Served \cup {"removing", "done"}
<1>1. rconn[p] # NoConn
  BY DEF RemovalInv
<1>2. /\ rconn[p] \in Conns /\ rconn[p] \notin mapped
      /\ hpc[rconn[p]] \in Served \cup {"removing", "done"}
  BY <1>1 DEF RemovalInv, TypeOK
<1> QED
  BY <1>2 DEF TargetInv, Served, Known

\* What follows an exact removal (close, clear, forget) keeps the types.
LEMMA RemoveType ==
    ASSUME TypeOK, TargetInv, RemovalInv, NEW p \in Removers, RemoveStep(p)
    PROVE  TypeOK'
<1>1. CASE RemoveClose(p)
  <2>1. rconn[p] \in Conns /\ target[rconn[p]] \in Clusters
    BY <1>1, RemovedIsKnown DEF RemoveClose
  <2>2. closing' \subseteq Conns
    BY <1>1, <2>1 DEF RemoveClose, Online, TypeOK
  <2> QED
    BY <1>1, <2>1, <2>2 DEF RemoveClose, TypeOK
<1>2. CASE RemoveClear(p)
  BY <1>2 DEF RemoveClear, TypeOK
<1>3. CASE RemoveForget(p)
  <2>1. missed' \in [Conns -> 0..2]
    <3>1. 0 \in 0..2 /\ missed \in [Conns -> 0..2]
      BY DEF TypeOK
    <3> QED
      BY <1>3, <3>1 DEF RemoveForget
  <2> QED
    BY <1>3, <2>1 DEF RemoveForget, TypeOK
<1> QED
  BY <1>1, <1>2, <1>3 DEF RemoveStep

\* The steps of check_pings keep the types.
LEMMA PingType ==
    ASSUME TypeOK, TargetInv, RemovalInv, PingStep
    PROVE  TypeOK'
<1>1. CASE PingCollect
  BY <1>1 DEF PingCollect, TypeOK
<1>2. CASE PingCount
  <2>1. missed' \in [Conns -> 0..2]
    BY <1>2 DEF PingCount, TypeOK
  <2> QED
    BY <1>2, <2>1 DEF PingCount, TypeOK
<1>3. CASE PingBegin
  BY <1>3 DEF PingBegin, TypeOK
<1>4. CASE PingDone
  BY <1>4 DEF PingDone, TypeOK
<1>5. ASSUME NEW c \in Conns, PingEvict(c) PROVE TypeOK'
  <2>1. /\ mapped' \subseteq Conns
        /\ rstep' \in [Removers -> {"idle", "close", "clear", "forget"}]
        /\ rconn' \in [Removers -> Conns \cup {NoConn}]
    BY <1>5, RemovesType DEF PingEvict, Removers
  <2> QED
    BY <1>5, <2>1 DEF PingEvict, TypeOK
<1>6. ASSUME NEW c \in Conns, PingNext(c) PROVE TypeOK'
  <2>1. asked' \subseteq Conns /\ pings' \subseteq Conns /\ pongs' \subseteq Conns
    <3>1. CASE c \in mapped /\ Online(target[c])
      <4>1. sender[target[c]] \in Conns
        BY <3>1 DEF TypeOK, RemovalInv, TargetInv, Served, Known, Online
      <4> QED
        BY <1>6, <3>1, <4>1 DEF PingNext, TypeOK
    <3>2. CASE ~(c \in mapped /\ Online(target[c]))
      BY <1>6, <3>2 DEF PingNext, TypeOK
    <3> QED
      BY <3>1, <3>2
  <2> QED
    BY <1>6, <2>1 DEF PingNext, TypeOK
<1> QED
  BY <1>1, <1>2, <1>3, <1>4, <1>5, <1>6 DEF PingStep

-----------------------------------------------------------------------------
(* Where a connection belongs                                              *)

\* Every step keeps tokens and the connections that presented one a cluster's.
LEMMA TargetStep ==
    ASSUME TypeOK, TargetInv, Next
    PROVE  TargetInv'
<1>1. ASSUME NEW k \in Clusters,
             ScanStart(k) \/ ScanPurge(k) \/ ScanIssue(k) \/ ScanFail(k) \/ BackoffElapses(k)
      PROVE  TargetInv'
  <2>1. UNCHANGED <<hpc, target>>
    BY <1>1 DEF ScanStart, ScanPurge, ScanIssue, ScanFail, BackoffElapses
  <2>2. CASE ScanIssue(k)
    <3>1. issued + 1 \in Tokens
      BY <2>2, TokensAssumption DEF ScanIssue, TypeOK, Tokens
    <3> QED
      BY <2>1, <2>2, <3>1 DEF ScanIssue, TargetInv, TypeOK
  <2>3. CASE ~ScanIssue(k)
    <3>1. rows' \subseteq rows /\ UNCHANGED owner
      BY <1>1, <2>3 DEF ScanStart, ScanPurge, ScanFail, BackoffElapses
    <3> QED
      BY <2>1, <3>1 DEF TargetInv
  <2> QED
    BY <2>2, <2>3
<1>2. ASSUME NEW c \in Conns, Connect(c) \/ UuidLookup(c) PROVE TargetInv'
  <2>1. rows' \subseteq rows /\ UNCHANGED owner
    BY <1>2 DEF Connect, UuidLookup
  <2>2. \A d \in Conns \ {c} : hpc'[d] = hpc[d] /\ target'[d] = target[d]
    BY <1>2 DEF Connect, UuidLookup, HandlerGoto, TypeOK
  <2>3. hpc'[c] \in Known => target'[c] \in Clusters
    BY <1>2, LtkAssumption DEF Connect, UuidLookup, HandlerGoto, TypeOK, TargetInv, Known
  <2> QED
    BY <2>1, <2>2, <2>3 DEF TargetInv
<1>3. ASSUME NEW c \in Conns,
             (Admission(c) /\ ~Connect(c) /\ ~UuidLookup(c)) \/ Service(c)
      PROVE  TargetInv'
  <2>1. rows' \subseteq rows /\ UNCHANGED <<owner, target>>
    BY <1>3 DEF Admission, UuidConsume, OnlineCheck, Install, Insert, Service, PongWrite,
       WriteClose, GraceEnds, HandlerDone, Pong, PeerDies, PeerLeaves
  <2>2. \A d \in Conns : hpc'[d] \in Known => hpc[d] \in Known
    BY <1>3 DEF Admission, UuidConsume, OnlineCheck, Install, Insert, Service, PongWrite,
       WriteClose, GraceEnds, HandlerDone, Pong, PeerDies, PeerLeaves, HandlerGoto,
       Known, TypeOK
  <2> QED
    BY <2>1, <2>2 DEF TargetInv
<1>4. CASE (\E p \in Removers : RemoveStep(p)) \/ PingStep
  <2>1. UNCHANGED <<rows, owner, target, hpc>>
    BY <1>4 DEF RemoveStep, RemoveClose, RemoveClear, RemoveForget, PingStep, PingCollect,
       PingCount, PingBegin, PingDone, PingEvict, PingNext
  <2> QED
    BY <2>1 DEF TargetInv
<1> QED
  BY <1>1, <1>2, <1>3, <1>4 DEF Next, HandlerStep, Admission, Service

-----------------------------------------------------------------------------
(* The removal of a connection                                             *)

\* Every step is one of these groups.
LEMMA Steps ==
    ASSUME Next
    PROVE  \/ \E k \in Clusters :
                 \/ ScanStart(k) \/ ScanPurge(k) \/ ScanIssue(k) \/ ScanFail(k)
                 \/ BackoffElapses(k)
           \/ \E c \in Conns : Admission(c) \/ Service(c)
           \/ \E p \in Removers : RemoveStep(p)
           \/ PingStep
  BY DEF Next, HandlerStep, Admission, Service

\* The reconnect scan touches neither connections nor their bookkeeping.
LEMMA ScanFrame ==
    ASSUME NEW k \in Clusters,
           ScanStart(k) \/ ScanPurge(k) \/ ScanIssue(k) \/ ScanFail(k) \/ BackoffElapses(k)
    PROVE  UNCHANGED <<sender, mapped, trackVars, hpc, target, removeVars>>
  BY DEF ScanStart, ScanPurge, ScanIssue, ScanFail, BackoffElapses

\* What changes for others when a connection is taken out of connection_map
LEMMA Removed ==
    ASSUME TypeOK, RemovalInv, NEW p \in Removers, rstep[p] = "idle", NEW c \in Conns,
           NEW close \in BOOLEAN, Removes(p, c, close)
    PROVE  /\ mapped' \subseteq mapped /\ c \notin mapped'
           /\ \A d \in mapped : d \in mapped' \/ (d = c /\ rconn'[p] = c)
           /\ \A q \in Removers \ {p} : rstep'[q] = rstep[q] /\ rconn'[q] = rconn[q]
           /\ \/ rstep'[p] = "idle" /\ rconn'[p] = NoConn
              \/ rstep'[p] \in {"close", "clear"} /\ rconn'[p] = c /\ c \in mapped
           /\ \A d \in Conns : Leaving(d) => Leaving(d)'
<1>1. rconn[p] = NoConn
  BY DEF RemovalInv
<1>2. CASE c \in mapped
  <2>1. /\ mapped' = mapped \ {c} /\ rstep'[p] \in {"close", "clear"} /\ rconn'[p] = c
        /\ \A q \in Removers \ {p} : rstep'[q] = rstep[q] /\ rconn'[q] = rconn[q]
    BY <1>2 DEF Removes, TypeOK
  <2>2. \A d \in Conns : Leaving(d) => Leaving(d)'
    BY <1>1, <2>1, NoneAssumption DEF Leaving
  <2> QED
    BY <1>2, <2>1, <2>2
<1>3. CASE c \notin mapped
  <2>1. mapped' = mapped /\ rstep' = rstep /\ rconn' = rconn
    BY <1>3 DEF Removes
  <2>2. \A d \in Conns : Leaving(d) => Leaving(d)'
    BY <2>1 DEF Leaving
  <2>3. rstep'[p] = "idle" /\ rconn'[p] = NoConn
    BY <1>1, <2>1
  <2> QED
    BY <1>3, <2>1, <2>2, <2>3
<1> QED
  BY <1>2, <1>3

\* RemovalInv when p takes c out
LEMMA RemovalTaken ==
    ASSUME TypeOK, RemovalInv, NEW p \in Removers, rstep[p] = "idle", NEW c \in Conns,
           NEW close \in BOOLEAN, Removes(p, c, close),
           \A d \in Conns \ {c} : hpc'[d] = hpc[d],
           \/ p = Pinger /\ hpc' = hpc
           \/ p = c /\ hpc[c] \in Served /\ hpc'[c] = "removing"
    PROVE  RemovalInv'
<1>1. /\ mapped' \subseteq mapped /\ c \notin mapped'
      /\ \A q \in Removers \ {p} : rstep'[q] = rstep[q] /\ rconn'[q] = rconn[q]
      /\ \/ rstep'[p] = "idle" /\ rconn'[p] = NoConn
         \/ rstep'[p] \in {"close", "clear"} /\ rconn'[p] = c /\ c \in mapped
  BY Removed
<1>2. \A d \in mapped' : hpc'[d] \in Served
  BY <1>1 DEF RemovalInv, TypeOK
<1>3. \A q \in Removers : (rstep'[q] = "idle") <=> (rconn'[q] = NoConn)
  BY <1>1, NoneAssumption DEF RemovalInv
<1>4. ASSUME NEW q \in Removers, rconn'[q] # NoConn
      PROVE  rconn'[q] \notin mapped' /\ hpc'[rconn'[q]] \in Served \cup {"removing", "done"}
  <2>1. CASE q = p
    BY <1>1, <1>4, <2>1 DEF RemovalInv, Served
  <2>2. CASE q # p
    <3>1. rconn'[q] = rconn[q] /\ rconn[q] \in Conns /\ rconn[q] \notin mapped
          /\ hpc[rconn[q]] \in Served \cup {"removing", "done"}
      BY <1>1, <1>4, <2>2 DEF RemovalInv, TypeOK
    <3> QED
      BY <1>1, <3>1
  <2> QED
    BY <2>1, <2>2
<1>5. ASSUME NEW d \in Conns, rstep'[d] # "idle" PROVE hpc'[d] = "removing"
  <2>1. d \in Removers /\ d # Pinger
    BY NoneAssumption DEF Removers
  <2>2. CASE d = p
    BY <1>5, <2>1, <2>2
  <2>3. CASE d # p
    BY <1>1, <1>5, <2>1, <2>3 DEF RemovalInv, Served
  <2> QED
    BY <2>2, <2>3
<1> QED
  BY <1>2, <1>3, <1>4, <1>5 DEF RemovalInv

\* RemovalInv when a handler moves on, without removing anything
LEMMA RemovalMoved ==
    ASSUME TypeOK, RemovalInv, NEW c \in Conns, UNCHANGED <<rstep, rconn>>,
           mapped' \subseteq mapped \cup {c}, c \in mapped' => hpc'[c] \in Served,
           \A d \in Conns \ {c} : hpc'[d] = hpc[d],
           hpc[c] \in Served \cup {"removing", "done"} =>
              hpc'[c] \in Served \cup {"removing", "done"},
           mapped' = mapped \/ hpc[c] = "insert",
           rstep[c] # "idle" => hpc'[c] = "removing"
    PROVE  RemovalInv'
<1>1. \A d \in mapped' : hpc'[d] \in Served
  BY DEF RemovalInv, TypeOK
<1>2. ASSUME NEW q \in Removers, rconn[q] # NoConn
      PROVE  rconn[q] \notin mapped' /\ hpc'[rconn[q]] \in Served \cup {"removing", "done"}
  <2>1. rconn[q] \in Conns /\ rconn[q] \notin mapped
        /\ hpc[rconn[q]] \in Served \cup {"removing", "done"}
    BY <1>2 DEF RemovalInv, TypeOK
  <2> QED
    BY <2>1 DEF Served
<1> QED
  BY <1>1, <1>2 DEF RemovalInv

\* Every step keeps what is known of removals under way.
LEMMA RemovalStep ==
    ASSUME TypeOK, TargetInv, RemovalInv, Next
    PROVE  RemovalInv'
<1>1. ASSUME NEW k \in Clusters,
             ScanStart(k) \/ ScanPurge(k) \/ ScanIssue(k) \/ ScanFail(k) \/ BackoffElapses(k)
      PROVE  RemovalInv'
  BY <1>1, ScanFrame DEF RemovalInv
<1>2. ASSUME NEW c \in Conns, Admission(c) PROVE RemovalInv'
  <2>1. /\ UNCHANGED <<rstep, rconn>> /\ mapped' \subseteq mapped \cup {c}
        /\ mapped' = mapped \/ hpc[c] = "insert"
    BY <1>2 DEF Admission, Connect, UuidLookup, UuidConsume, OnlineCheck, Install, Insert
  <2>2. /\ \A d \in Conns \ {c} : hpc'[d] = hpc[d]
        /\ hpc[c] \in {"idle", "lookup", "found", "check", "install", "insert"}
        /\ hpc[c] = "insert" => hpc'[c] = "open"
    BY <1>2 DEF Admission, Connect, UuidLookup, UuidConsume, OnlineCheck, Install, Insert,
       HandlerGoto, TypeOK
  <2>3. c \notin mapped /\ rstep[c] = "idle"
    BY <2>2 DEF RemovalInv, Served
  <2>4. c \in mapped' => hpc'[c] \in Served
    BY <2>1, <2>2, <2>3 DEF Served
  <2>5. hpc[c] \notin Served \cup {"removing", "done"}
    BY <2>2 DEF Served
  <2> QED
    BY <2>1, <2>2, <2>3, <2>4, <2>5, RemovalMoved
<1>3. ASSUME NEW c \in Conns, Service(c) PROVE RemovalInv'
  <2>1. CASE GraceEnds(c) \/ PeerLeaves(c)
    <3>1. /\ \A d \in Conns \ {c} : hpc'[d] = hpc[d]
          /\ hpc[c] \in {"open", "grace"} /\ hpc'[c] = "removing"
      BY <2>1 DEF GraceEnds, PeerLeaves, HandlerGoto, TypeOK
    <3>2. PICK close \in BOOLEAN : Removes(c, c, close)
      BY <2>1 DEF GraceEnds, PeerLeaves
    <3>3. c \in Removers /\ rstep[c] = "idle" /\ hpc[c] \in Served
      BY <3>1 DEF RemovalInv, Removers, Served
    <3> QED
      BY <3>1, <3>2, <3>3, RemovalTaken
  <2>2. CASE ~GraceEnds(c) /\ ~PeerLeaves(c)
    <3>1. UNCHANGED <<mapped, rstep, rconn>>
      BY <1>3, <2>2 DEF Service, PongWrite, WriteClose, HandlerDone, Pong, PeerDies
    <3>2. /\ \A d \in Conns \ {c} : hpc'[d] = hpc[d]
          /\ hpc[c] \in Served \cup {"removing"} /\ hpc'[c] \in Served \cup {"done"}
          /\ hpc'[c] = "done" => hpc[c] = "removing" /\ rstep[c] = "idle"
          /\ hpc[c] = "removing" => hpc'[c] = "done"
      BY <1>3, <2>2 DEF Service, PongWrite, WriteClose, HandlerDone, Pong, PeerDies,
         HandlerGoto, TypeOK, Served
    <3>3. c \in mapped => hpc'[c] \in Served
      BY <3>2 DEF RemovalInv, Served
    <3>4. rstep[c] = "idle"
      BY <3>2 DEF RemovalInv, Served
    <3> QED
      BY <3>1, <3>2, <3>3, <3>4, RemovalMoved
  <2> QED
    BY <2>1, <2>2
<1>4. ASSUME NEW p \in Removers, RemoveStep(p) PROVE RemovalInv'
  <2>1. /\ UNCHANGED <<mapped, hpc>> /\ \A q \in Removers \ {p} : rstep'[q] = rstep[q]
        /\ rstep[p] # "idle"
    BY <1>4 DEF RemoveStep, RemoveClose, RemoveClear, RemoveForget, TypeOK
  <2>2. CASE RemoveForget(p)
    <3>1. /\ \A q \in Removers \ {p} : rconn'[q] = rconn[q]
          /\ rstep'[p] = "idle" /\ rconn'[p] = NoConn
      BY <2>2 DEF RemoveForget, TypeOK
    <3> QED
      BY <2>1, <3>1 DEF RemovalInv, Removers
  <2>3. CASE ~RemoveForget(p)
    <3>1. UNCHANGED rconn /\ rstep'[p] # "idle"
      BY <1>4, <2>3 DEF RemoveStep, RemoveClose, RemoveClear, TypeOK
    <3> QED
      BY <2>1, <3>1 DEF RemovalInv, Removers
  <2> QED
    BY <2>2, <2>3
<1>5. CASE PingStep
  <2>1. ASSUME NEW c \in Conns, PingEvict(c) PROVE RemovalInv'
    <3>1. UNCHANGED hpc /\ rstep[Pinger] = "idle" /\ Removes(Pinger, c, TRUE)
      BY <2>1 DEF PingEvict
    <3>2. Pinger \in Removers
      BY DEF Removers
    <3> QED
      BY <3>1, <3>2, RemovalTaken
  <2>2. CASE ~(\E c \in Conns : PingEvict(c))
    <3>1. UNCHANGED <<mapped, hpc, rstep, rconn>>
      BY <1>5, <2>2 DEF PingStep, PingCollect, PingCount, PingBegin, PingDone, PingNext
    <3> QED
      BY <3>1 DEF RemovalInv
  <2> QED
    BY <2>1, <2>2
<1> QED
  BY <1>1, <1>2, <1>3, <1>4, <1>5, Steps

-----------------------------------------------------------------------------
(* What a step changes for the connections others hold                     *)

\* A connection that is admitted is nobody's yet, except at its insertion.
LEMMA AdmissionFrame ==
    ASSUME TypeOK, RemovalInv, NEW c \in Conns, Admission(c)
    PROVE  /\ rstep' = rstep /\ rconn' = rconn /\ pings' = pings
           /\ mapped \subseteq mapped' /\ c \notin mapped
           /\ \A d \in Conns \ {c} : hpc'[d] = hpc[d] /\ target'[d] = target[d]
           /\ \A q \in Removers : rconn[q] # c
<1>1. /\ rstep' = rstep /\ rconn' = rconn /\ pings' = pings
      /\ mapped \subseteq mapped'
  BY DEF Admission, Connect, UuidLookup, UuidConsume, OnlineCheck, Install, Insert
<1>2. hpc[c] \in {"idle", "lookup", "found", "check", "install", "insert"}
  BY DEF Admission, Connect, UuidLookup, UuidConsume, OnlineCheck, Install, Insert
<1>3. \A d \in Conns \ {c} : hpc'[d] = hpc[d]
  BY DEF Admission, Connect, UuidLookup, UuidConsume, OnlineCheck, Install, Insert,
     HandlerGoto, TypeOK
<1>4. \A d \in Conns \ {c} : target'[d] = target[d]
  BY DEF Admission, Connect, UuidLookup, UuidConsume, OnlineCheck, Install, Insert,
     TypeOK
<1>5. c \notin mapped
  BY <1>2 DEF RemovalInv, Served
<1>6. \A q \in Removers : rconn[q] # c
  BY <1>2, NoneAssumption DEF RemovalInv, Served
<1> QED
  BY <1>1, <1>3, <1>4, <1>5, <1>6

\* What the steps of a served connection and of the ping task leave alone:
\* they move a connection from connection_map to a removal at most.
LEMMA ServedFrame ==
    ASSUME TypeOK, RemovalInv, PingStep \/ \E c \in Conns : Service(c)
    PROVE  /\ sender' = sender /\ target' = target
           /\ \A d \in Conns : hpc[d] = "insert" => hpc'[d] = "insert"
           /\ \A d \in Conns : Leaving(d) => Leaving(d)'
           /\ \A d \in mapped : d \in mapped' \/ Leaving(d)'
           /\ \A q \in Removers : rstep'[q] = "forget" =>
                 rstep[q] = "forget" /\ rconn'[q] = rconn[q]
<1>1. sender' = sender /\ target' = target
  BY DEF PingStep, PingCollect, PingCount, PingBegin, PingDone, PingEvict, PingNext,
     Service, PongWrite, WriteClose, GraceEnds, HandlerDone, Pong, PeerDies, PeerLeaves
<1>2. \A d \in Conns : hpc[d] = "insert" => hpc'[d] = "insert"
  <2>1. CASE PingStep
    BY <2>1 DEF PingStep, PingCollect, PingCount, PingBegin, PingDone, PingEvict, PingNext
  <2>2. ASSUME NEW c \in Conns, Service(c)
        PROVE  \A d \in Conns : hpc[d] = "insert" => hpc'[d] = "insert"
    BY <2>2 DEF Service, PongWrite, WriteClose, GraceEnds, HandlerDone, Pong, PeerDies,
       PeerLeaves, HandlerGoto, TypeOK
  <2> QED
    BY <2>1, <2>2
<1>3. CASE \E p \in Removers, c \in Conns, close \in BOOLEAN :
             rstep[p] = "idle" /\ Removes(p, c, close)
  <2>1. PICK p \in Removers, c \in Conns, close \in BOOLEAN :
           rstep[p] = "idle" /\ Removes(p, c, close)
    BY <1>3
  <2>2. /\ \A d \in mapped : d \in mapped' \/ (d = c /\ rconn'[p] = c)
        /\ \A q \in Removers \ {p} : rstep'[q] = rstep[q] /\ rconn'[q] = rconn[q]
        /\ \/ rstep'[p] = "idle" /\ rconn'[p] = NoConn
           \/ rstep'[p] \in {"close", "clear"} /\ rconn'[p] = c /\ c \in mapped
        /\ \A d \in Conns : Leaving(d) => Leaving(d)'
    BY <2>1, Removed
  <2>3. \A d \in mapped : d \in mapped' \/ Leaving(d)'
    BY <2>2 DEF Leaving
  <2>4. \A q \in Removers : rstep'[q] = "forget" =>
           rstep[q] = "forget" /\ rconn'[q] = rconn[q]
    BY <2>2
  <2> QED
    BY <1>1, <1>2, <2>2, <2>3, <2>4
<1>4. CASE mapped' = mapped /\ rstep' = rstep /\ rconn' = rconn
  <2>1. \A d \in Conns : Leaving(d) => Leaving(d)'
    BY <1>4 DEF Leaving
  <2> QED
    BY <1>1, <1>2, <1>4, <2>1
<1>5. ASSUME NEW c \in Conns, GraceEnds(c) \/ PeerLeaves(c)
      PROVE  \E close \in BOOLEAN : rstep[c] = "idle" /\ Removes(c, c, close)
  BY <1>5 DEF GraceEnds, PeerLeaves, RemovalInv
<1>6. ASSUME NEW c \in Conns, PingEvict(c)
      PROVE  rstep[Pinger] = "idle" /\ Removes(Pinger, c, TRUE)
  BY <1>6 DEF PingEvict
<1>7. CASE ~\E c \in Conns : GraceEnds(c) \/ PeerLeaves(c) \/ PingEvict(c)
  BY <1>4, <1>7 DEF PingStep, PingCollect, PingCount, PingBegin, PingDone, PingNext,
     Service, PongWrite, WriteClose, HandlerDone, Pong, PeerDies
<1> QED
  BY <1>3, <1>5, <1>6, <1>7 DEF Removers

\* The steps of remove_connection
LEMMA RemoveFrame ==
    ASSUME TypeOK, TargetInv, RemovalInv, NEW p \in Removers, RemoveStep(p)
    PROVE  /\ mapped' = mapped /\ target' = target /\ hpc' = hpc
           /\ \A k \in Clusters : sender'[k] = sender[k] \/ sender'[k] = NoConn
           /\ \A q \in Removers \ {p} : rstep'[q] = rstep[q] /\ rconn'[q] = rconn[q]
           /\ RemoveForget(p) \/ (rconn' = rconn /\ pings' = pings)
<1>1. mapped' = mapped /\ target' = target /\ hpc' = hpc
  BY DEF RemoveStep, RemoveClose, RemoveClear, RemoveForget
<1>2. \A k \in Clusters : sender'[k] = sender[k] \/ sender'[k] = NoConn
  BY DEF RemoveStep, RemoveClose, RemoveClear, RemoveForget, TypeOK
<1>3. \A q \in Removers \ {p} : rstep'[q] = rstep[q] /\ rconn'[q] = rconn[q]
  BY DEF RemoveStep, RemoveClose, RemoveClear, RemoveForget, TypeOK
<1>4. RemoveForget(p) \/ (rconn' = rconn /\ pings' = pings)
  BY DEF RemoveStep, RemoveClose, RemoveClear
<1> QED
  BY <1>1, <1>2, <1>3, <1>4

-----------------------------------------------------------------------------
(* The three invariants of a removal                                       *)

\* A removal that comes to the tracking maps has cleared its sender.
LEMMA ForgetStep ==
    ASSUME TypeOK, TargetInv, RemovalInv, ForgetInv, Next
    PROVE  ForgetInv'
<1>1. ASSUME NEW k \in Clusters,
             ScanStart(k) \/ ScanPurge(k) \/ ScanIssue(k) \/ ScanFail(k) \/ BackoffElapses(k)
      PROVE  ForgetInv'
  BY <1>1, ScanFrame DEF ForgetInv
<1>2. ASSUME NEW c \in Conns, Admission(c) PROVE ForgetInv'
  <2>1. SUFFICES ASSUME NEW q \in Removers, rstep'[q] = "forget"
                 PROVE  sender'[target'[rconn'[q]]] # rconn'[q]
    BY DEF ForgetInv
  <2>2. /\ rstep[q] = "forget" /\ rconn'[q] = rconn[q] /\ rconn[q] # c
        /\ \A d \in Conns \ {c} : target'[d] = target[d]
    BY <1>2, <2>1, AdmissionFrame
  <2>3. rconn[q] \in Conns /\ target[rconn[q]] \in Clusters
    BY <2>2, RemovedIsKnown
  <2>4. \A k \in Clusters : sender'[k] = sender[k] \/ sender'[k] = c
    BY <1>2 DEF Admission, Connect, UuidLookup, UuidConsume, OnlineCheck, Install, Insert,
       TypeOK
  <2> QED
    BY <2>2, <2>3, <2>4 DEF ForgetInv
<1>3. CASE PingStep \/ \E c \in Conns : Service(c)
  <2>1. /\ sender' = sender /\ target' = target
        /\ \A q \in Removers : rstep'[q] = "forget" =>
              rstep[q] = "forget" /\ rconn'[q] = rconn[q]
    BY <1>3, ServedFrame
  <2> QED
    BY <2>1 DEF ForgetInv
<1>4. ASSUME NEW p \in Removers, RemoveStep(p) PROVE ForgetInv'
  <2>1. SUFFICES ASSUME NEW q \in Removers, rstep'[q] = "forget"
                 PROVE  sender'[target'[rconn'[q]]] # rconn'[q]
    BY DEF ForgetInv
  <2>2. /\ target' = target
        /\ \A k \in Clusters : sender'[k] = sender[k] \/ sender'[k] = NoConn
        /\ \A r \in Removers \ {p} : rstep'[r] = rstep[r] /\ rconn'[r] = rconn[r]
    BY <1>4, RemoveFrame
  <2>3. CASE q # p
    <3>1. rstep[q] = "forget" /\ rconn'[q] = rconn[q]
      BY <2>1, <2>2, <2>3
    <3>2. rconn[q] \in Conns /\ target[rconn[q]] \in Clusters
      BY <3>1, RemovedIsKnown
    <3> QED
      BY <2>2, <3>1, <3>2, NoneAssumption DEF ForgetInv
  <2>4. CASE q = p
    <3>1. RemoveClear(p)
      BY <1>4, <2>1, <2>4 DEF RemoveStep, RemoveClose, RemoveForget, TypeOK
    <3>2. rconn[p] \in Conns /\ target[rconn[p]] \in Clusters
      BY <3>1, RemovedIsKnown DEF RemoveClear
    <3> QED
      BY <2>2, <2>4, <3>1, <3>2, NoneAssumption DEF RemoveClear, TypeOK
  <2> QED
    BY <2>3, <2>4
<1> QED
  BY <1>1, <1>2, <1>3, <1>4, Steps

\* The connection is registered, is about to be, or is being removed.
Present(c) == c \in mapped \/ Leaving(c) \/ hpc[c] = "insert"

\* OnlineIsReal when no cluster gets a new sender, and the connections that
\* are senders stay present
LEMMA OnlineKept ==
    ASSUME TypeOK, OnlineIsReal,
           \A k \in Clusters : sender'[k] = sender[k] \/ sender'[k] = NoConn,
           \A d \in Conns, k \in Clusters : sender[k] = d /\ sender'[k] = d =>
               Present(d)' /\ target'[d] = target[d]
    PROVE  OnlineIsReal'
<1>1. SUFFICES ASSUME NEW k \in Clusters, NEW d, sender'[k] = d, d # NoConn
               PROVE  target'[d] = k /\ Present(d)'
  BY DEF OnlineIsReal, Online, Present, Leaving
<1>2. sender'[k] = d /\ sender[k] = d /\ d \in Conns
  BY <1>1 DEF TypeOK
<1>3. target[d] = k
  BY <1>1, <1>2 DEF OnlineIsReal, Online
<1> QED
  BY <1>2, <1>3

\* Every step keeps is_online truthful.
LEMMA OnlineStep ==
    ASSUME TypeOK, TargetInv, RemovalInv, ForgetInv, OnlineIsReal, Next
    PROVE  OnlineIsReal'
<1>0. \A d \in Conns, k \in Clusters : sender[k] = d => Present(d) /\ target[d] = k
  BY NoneAssumption DEF OnlineIsReal, Online, Present
<1>1. ASSUME NEW k \in Clusters,
             ScanStart(k) \/ ScanPurge(k) \/ ScanIssue(k) \/ ScanFail(k) \/ BackoffElapses(k)
      PROVE  OnlineIsReal'
  BY <1>1, ScanFrame DEF OnlineIsReal, Online, Leaving
<1>2. ASSUME NEW c \in Conns, Admission(c) PROVE OnlineIsReal'
  <2>1. /\ rconn' = rconn /\ mapped \subseteq mapped' /\ c \notin mapped
        /\ \A d \in Conns \ {c} : hpc'[d] = hpc[d] /\ target'[d] = target[d]
        /\ \A q \in Removers : rconn[q] # c
    BY <1>2, AdmissionFrame
  <2>2. \A d \in Conns \ {c} : Present(d) => Present(d)'
    BY <2>1 DEF Present, Leaving
  <2>3. Present(c) => Insert(c)
    BY <1>2, <2>1 DEF Present, Leaving, Admission, Connect, UuidLookup, UuidConsume,
       OnlineCheck, Install
  <2>4. Insert(c) => Present(c)' /\ target' = target /\ sender' = sender
    BY DEF Insert, Present
  <2>5. CASE Install(c)
    <3>1. /\ sender' = [sender EXCEPT ![target[c]] = c] /\ target' = target
          /\ hpc'[c] = "insert" /\ target[c] \in Clusters
      BY <2>5 DEF Install, HandlerGoto, TypeOK, TargetInv, Known
    <3>2. SUFFICES ASSUME NEW k \in Clusters, NEW d, sender'[k] = d, d # NoConn
                   PROVE  target'[d] = k /\ Present(d)'
      BY DEF OnlineIsReal, Online, Present, Leaving
    <3>3. CASE k = target[c]
      <4>1. d = c
        BY <3>1, <3>2, <3>3 DEF TypeOK
      <4> QED
        BY <3>1, <3>3, <4>1 DEF Present
    <3>4. CASE k # target[c]
      <4>1. sender[k] = d /\ d \in Conns
        BY <3>1, <3>2, <3>4 DEF TypeOK
      <4>2. d # c /\ Present(d) /\ target[d] = k
        BY <1>0, <3>4, <4>1
      <4> QED
        BY <2>2, <3>1, <4>1, <4>2
    <3> QED
      BY <3>3, <3>4
  <2>6. CASE ~Install(c)
    <3>1. sender' = sender
      BY <1>2, <2>6 DEF Admission, Connect, UuidLookup, UuidConsume, OnlineCheck, Insert
    <3>2. ASSUME NEW d \in Conns, NEW k \in Clusters, sender[k] = d
          PROVE  Present(d)' /\ target'[d] = target[d]
      <4>1. Present(d)
        BY <1>0, <3>2
      <4>2. CASE d # c
        BY <2>1, <2>2, <4>1, <4>2
      <4>3. CASE d = c
        BY <2>3, <2>4, <4>1, <4>3
      <4> QED
        BY <4>2, <4>3
    <3> QED
      BY <3>1, <3>2, OnlineKept
  <2> QED
    BY <2>5, <2>6
<1>3. CASE PingStep \/ \E c \in Conns : Service(c)
  <2>1. /\ sender' = sender /\ target' = target
        /\ \A d \in Conns : hpc[d] = "insert" => hpc'[d] = "insert"
        /\ \A d \in Conns : Leaving(d) => Leaving(d)'
        /\ \A d \in mapped : d \in mapped' \/ Leaving(d)'
    BY <1>3, ServedFrame
  <2>2. \A d \in Conns : Present(d) => Present(d)'
    BY <2>1 DEF Present
  <2> QED
    BY <1>0, <2>1, <2>2, OnlineKept
<1>4. ASSUME NEW p \in Removers, RemoveStep(p) PROVE OnlineIsReal'
  <2>1. /\ mapped' = mapped /\ target' = target /\ hpc' = hpc
        /\ \A k \in Clusters : sender'[k] = sender[k] \/ sender'[k] = NoConn
        /\ \A q \in Removers \ {p} : rconn'[q] = rconn[q]
        /\ RemoveForget(p) \/ rconn' = rconn
    BY <1>4, RemoveFrame
  <2>2. ASSUME NEW d \in Conns, NEW k \in Clusters, sender[k] = d
        PROVE  Present(d)'
    <3>1. Present(d) /\ target[d] = k
      BY <1>0, <2>2
    <3>2. CASE RemoveForget(p)
      <4>1. rstep[p] = "forget"
        BY <3>2 DEF RemoveForget
      <4>2. d # rconn[p]
        BY <2>2, <3>1, <4>1 DEF ForgetInv
      <4>3. Leaving(d) => Leaving(d)'
        BY <2>1, <4>2 DEF Leaving
      <4> QED
        BY <2>1, <3>1, <4>3 DEF Present
    <3>3. CASE ~RemoveForget(p)
      <4>1. rconn' = rconn
        BY <2>1, <3>3
      <4> QED
        BY <2>1, <3>1, <4>1 DEF Present, Leaving
    <3> QED
      BY <3>2, <3>3
  <2> QED
    BY <2>1, <2>2, OnlineKept
<1> QED
  BY <1>1, <1>2, <1>3, <1>4, Steps

\* Every step keeps the ping entries those of live connections.
LEMMA PingsStep ==
    ASSUME TypeOK, TargetInv, RemovalInv, PingsAreLive, Next
    PROVE  PingsAreLive'
<1>1. ASSUME NEW k \in Clusters,
             ScanStart(k) \/ ScanPurge(k) \/ ScanIssue(k) \/ ScanFail(k) \/ BackoffElapses(k)
      PROVE  PingsAreLive'
  BY <1>1, ScanFrame DEF PingsAreLive, Leaving
<1>2. ASSUME NEW c \in Conns, Admission(c) PROVE PingsAreLive'
  <2>1. rconn' = rconn /\ pings' = pings /\ mapped \subseteq mapped'
    BY <1>2, AdmissionFrame
  <2> QED
    BY <2>1 DEF PingsAreLive, Leaving
<1>3. CASE PingStep \/ \E c \in Conns : Service(c)
  <2>1. /\ \A d \in Conns : Leaving(d) => Leaving(d)'
        /\ \A d \in mapped : d \in mapped' \/ Leaving(d)'
    BY <1>3, ServedFrame
  <2>2. pings' \subseteq pings \cup mapped
    BY <1>3 DEF PingStep, PingCollect, PingCount, PingBegin, PingDone, PingEvict, PingNext,
       Service, PongWrite, WriteClose, GraceEnds, HandlerDone, Pong, PeerDies, PeerLeaves
  <2>3. mapped \subseteq Conns
    BY DEF TypeOK
  <2> QED
    BY <2>1, <2>2, <2>3 DEF PingsAreLive
<1>4. ASSUME NEW p \in Removers, RemoveStep(p) PROVE PingsAreLive'
  <2>1. /\ mapped' = mapped
        /\ \A q \in Removers \ {p} : rconn'[q] = rconn[q]
        /\ RemoveForget(p) \/ (rconn' = rconn /\ pings' = pings)
    BY <1>4, RemoveFrame
  <2>2. CASE RemoveForget(p)
    <3>1. pings' = pings \ {rconn[p]}
      BY <2>2 DEF RemoveForget
    <3>2. \A d \in Conns : Leaving(d) => Leaving(d)' \/ d = rconn[p]
      BY <2>1 DEF Leaving
    <3> QED
      BY <2>1, <3>1, <3>2 DEF PingsAreLive
  <2>3. CASE rconn' = rconn /\ pings' = pings
    BY <2>1, <2>3 DEF PingsAreLive, Leaving
  <2> QED
    BY <2>1, <2>2, <2>3
<1> QED
  BY <1>1, <1>2, <1>3, <1>4, Steps

-----------------------------------------------------------------------------
(* The theorems                                                            *)

\* The invariant holds before any connection.
LEMMA ConnInit == Init => ConnInv
<1> SUFFICES ASSUME Init PROVE ConnInv
  OBVIOUS
<1>1. TypeOK
  BY TokensAssumption DEF Init, TypeOK, NoToken
<1>2. TargetInv
  BY DEF Init, TargetInv, Known
<1>3. RemovalInv
  BY DEF Init, RemovalInv, Removers
<1>4. ForgetInv /\ OnlineIsReal /\ PingsAreLive
  BY DEF Init, ForgetInv, OnlineIsReal, Online, PingsAreLive
<1> QED
  BY <1>1, <1>2, <1>3, <1>4 DEF ConnInv

\* Every step keeps the invariant.
LEMMA ConnStep == ConnInv /\ [Next]_vars => ConnInv'
<1>1. CASE ConnInv /\ Next
  <2> USE <1>1 DEF ConnInv
  <2>1. TypeOK'
    BY ScanType, AdmissionType, ServiceType, RemoveType, PingType, Steps
  <2>2. TargetInv' /\ RemovalInv' /\ ForgetInv'
    BY TargetStep, RemovalStep, ForgetStep
  <2>3. OnlineIsReal' /\ PingsAreLive'
    BY OnlineStep, PingsStep
  <2> QED
    BY <2>1, <2>2, <2>3
<1>2. CASE ConnInv /\ UNCHANGED vars
  BY <1>2 DEF vars, ConnInv, TypeOK, TargetInv, RemovalInv, ForgetInv, OnlineIsReal,
     Online, Leaving, PingsAreLive
<1> QED
  BY <1>1, <1>2

\* The inductive invariant holds for any set of clusters, with and without
\* long-term keys, any number of connections that come and go at any moment,
\* and any number of tokens: whoever takes a connection out of connection_map
\* is the only one to remove it.
THEOREM ConnInductive == Spec => []ConnInv
  BY ConnInit, ConnStep, PTL DEF Spec

\* Type correctness: among others, missed_pongs counts to 2 at most, and the
\* senders of the clusters are connections.
THEOREM ConnTypeCorrect == Spec => []TypeOK
<1>1. ConnInv => TypeOK
  BY DEF ConnInv
<1> QED
  BY <1>1, ConnInductive, PTL

\* A cluster is online only through a connection that is registered, about to
\* be, or still being removed, however the handler, the ping task and a second
\* connection of the cluster interleave in remove_connection.
THEOREM OnlineIsRealHolds == Spec => []OnlineIsReal
<1>1. ConnInv => OnlineIsReal
  BY DEF ConnInv
<1> QED
  BY <1>1, ConnInductive, PTL

\* ping_times holds entries of connections that are registered or still being
\* removed only, although the ping task and the handlers remove concurrently.
THEOREM PingsAreLiveHolds == Spec => []PingsAreLive
<1>1. ConnInv => PingsAreLive
  BY DEF ConnInv
<1> QED
  BY <1>1, ConnInductive, PTL

=============================================================================
