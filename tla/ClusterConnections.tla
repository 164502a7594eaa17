------------------------- MODULE ClusterConnections -------------------------
(***************************************************************************)
(* The connections of the master clusters: admission by a long-term key or *)
(* by a one-time token, keep-alive pings, removal, and the reconnect scan, *)
(* in `ClusterManager` of src/src/src/cluster/manager.rs.                  *)
(*                                                                         *)
(*   - a WebSocket handler admits its connection, reads from it and        *)
(*     removes it at the end;                                              *)
(*   - the ping task evicts connections that miss their pongs, and removes *)
(*     them as well;                                                       *)
(*   - the reconnect scan issues tokens for clusters that are offline.     *)
(*                                                                         *)
(* A step is one access to a DashMap, a watch channel or the database.     *)
(* Adjacent statements without an await are one step when the maps they    *)
(* write are read by the ping task only, once in a cycle.                  *)
(***************************************************************************)
EXTENDS Naturals, FiniteSets

CONSTANTS
    Clusters,    \* the configured clusters
    LtkClusters, \* those with a long-term key
    Conns,       \* connection ids, never reused
    NoConn,      \* no sender in the watch channel
    NoCluster,   \* no cluster known yet
    Pinger,      \* the task of run_ping
    MaxTokens    \* bound: tokens issued in a behaviour

ASSUME LtkAssumption == LtkClusters \subseteq Clusters
ASSUME NoneAssumption ==
    NoConn \notin Conns /\ NoCluster \notin Clusters /\ Pinger \notin Conns
ASSUME TokensAssumption == MaxTokens \in Nat

VARIABLES
    sender,   \* the watched connection of each cluster
    mapped,   \* the connections in connection_map
    pings,    \* the keys of ping_times
    pongs,    \* the keys of pong_times
    missed,   \* missed_pongs, 0 for a connection without an entry
    hpc,      \* where each WebSocket handler is
    token,    \* the token of its connection
    target,   \* the cluster it belongs to
    closing,  \* connections with a Close frame in their channel
    asked,    \* connections with an unanswered ping frame
    silent,   \* connections whose peer is gone without a word
    ping,     \* where the ping task is
    suspects, \* the connections it is working on
    rstep,    \* where each run of remove_connection is
    rconn,    \* and the connection it removes
    rows,     \* the tokens in the cluster_uuid table
    owner,    \* the cluster each issued token is for
    issued,   \* the number of tokens issued
    tried,    \* clusters with an entry in reconnect_attempts
    due,      \* clusters whose backoff has elapsed
    scan      \* where the reconnect scan of each cluster is

trackVars  == <<pings, pongs, missed>>
peerVars   == <<closing, asked, silent>>
pingVars   == <<ping, suspects>>
removeVars == <<rstep, rconn>>
tokenVars  == <<rows, owner, issued>>
scanVars   == <<tried, due, scan>>

vars == <<sender, mapped, trackVars, hpc, token, target, peerVars, pingVars,
          removeVars, tokenVars, scanVars>>

Tokens   == 1..MaxTokens
Removers == Conns \cup {Pinger}
NoToken  == 0

-----------------------------------------------------------------------------
(* Types and the initial state                                             *)

TypeOK ==
    /\ sender \in [Clusters -> Conns \cup {NoConn}]
    /\ mapped \subseteq Conns
    /\ pings \subseteq Conns /\ pongs \subseteq Conns
    /\ missed \in [Conns -> 0..2]
    /\ hpc \in [Conns -> {"idle", "lookup", "found", "check", "install",
                          "insert", "open", "ponging", "grace", "removing",
                          "done", "rejected"}]
    /\ token \in [Conns -> Tokens \cup {NoToken}]
    /\ target \in [Conns -> Clusters \cup {NoCluster}]
    /\ closing \subseteq Conns /\ asked \subseteq Conns /\ silent \subseteq Conns
    /\ ping \in {"asleep", "counting", "evicting", "pinging"}
    /\ suspects \subseteq Conns
    /\ rstep \in [Removers -> {"idle", "close", "clear", "forget"}]
    /\ rconn \in [Removers -> Conns \cup {NoConn}]
    /\ rows \subseteq Tokens
    /\ owner \in [Tokens -> Clusters \cup {NoCluster}]
    /\ issued \in 0..MaxTokens
    /\ tried \subseteq Clusters /\ due \subseteq Clusters
    /\ scan \in [Clusters -> {"idle", "counted", "purged"}]

Init ==
    /\ sender = [k \in Clusters |-> NoConn]
    /\ mapped = {} /\ pings = {} /\ pongs = {}
    /\ missed = [c \in Conns |-> 0]
    /\ hpc = [c \in Conns |-> "idle"]
    /\ token = [c \in Conns |-> NoToken]
    /\ target = [c \in Conns |-> NoCluster]
    /\ closing = {} /\ asked = {} /\ silent = {}
    /\ ping = "asleep" /\ suspects = {}
    /\ rstep = [p \in Removers |-> "idle"]
    /\ rconn = [p \in Removers |-> NoConn]
    /\ rows = {} /\ issued = 0
    /\ owner = [t \in Tokens |-> NoCluster]
    /\ tried = {} /\ due = {}
    /\ scan = [k \in Clusters |-> "idle"]

\* is_online
Online(k) == sender[k] # NoConn

-----------------------------------------------------------------------------
(* The reconnect scan                                                      *)

\* Mutant of ScanStart: the backoff never ends.
ScanStartOnce(k) ==
    /\ scan[k] = "idle" /\ ~Online(k) /\ k \notin LtkClusters
    /\ k \notin tried
    /\ scan' = [scan EXCEPT ![k] = "counted"]
    /\ tried' = tried \cup {k} /\ due' = due \ {k}
    /\ UNCHANGED <<sender, mapped, trackVars, hpc, token, target, peerVars,
                   pingVars, removeVars, tokenVars>>

\* A cluster is offline, has no long-term key, and is tried for the first time
\* or its backoff has elapsed.
ScanStart(k) ==
    /\ scan[k] = "idle" /\ ~Online(k) /\ k \notin LtkClusters
    /\ k \in tried => k \in due
    /\ scan' = [scan EXCEPT ![k] = "counted"]
    /\ tried' = tried \cup {k} /\ due' = due \ {k}
    /\ UNCHANGED <<sender, mapped, trackVars, hpc, token, target, peerVars,
                   pingVars, removeVars, tokenVars>>

\* The old tokens are deleted; a database error is only logged.
ScanPurge(k) ==
    /\ scan[k] = "counted"
    /\ scan' = [scan EXCEPT ![k] = "purged"]
    /\ \/ rows' = {t \in rows : owner[t] # k}
       \/ UNCHANGED rows
    /\ UNCHANGED <<sender, mapped, trackVars, hpc, token, target, peerVars,
                   pingVars, removeVars, owner, issued, tried, due>>

\* A fresh token is inserted and a client is launched with it.
ScanIssue(k) ==
    /\ scan[k] = "purged" /\ issued < MaxTokens
    /\ scan' = [scan EXCEPT ![k] = "idle"]
    /\ issued' = issued + 1
    /\ owner' = [owner EXCEPT ![issued + 1] = k]
    /\ rows' = rows \cup {issued + 1}
    /\ UNCHANGED <<sender, mapped, trackVars, hpc, token, target, peerVars,
                   pingVars, removeVars, tried, due>>

\* The insertion fails: the next scan tries again.
ScanFail(k) ==
    /\ scan[k] = "purged"
    /\ scan' = [scan EXCEPT ![k] = "idle"]
    /\ UNCHANGED <<sender, mapped, trackVars, hpc, token, target, peerVars,
                   pingVars, removeVars, tokenVars, tried, due>>

BackoffElapses(k) ==
    /\ k \in tried \ due
    /\ due' = due \cup {k}
    /\ UNCHANGED <<sender, mapped, trackVars, hpc, token, target, peerVars,
                   pingVars, removeVars, tokenVars, tried, scan>>

-----------------------------------------------------------------------------
(* handle_new_connection for a master cluster                               *)

HandlerGoto(c, s) == hpc' = [hpc EXCEPT ![c] = s]

\* A client connects with a long-term key, or with a token it was launched
\* with at some time.
Connect(c) ==
    /\ hpc[c] = "idle"
    /\ \/ \E k \in LtkClusters :
            /\ HandlerGoto(c, "check")
            /\ target' = [target EXCEPT ![c] = k] /\ UNCHANGED token
       \/ \E t \in 1..issued :
            /\ HandlerGoto(c, "lookup")
            /\ token' = [token EXCEPT ![c] = t] /\ UNCHANGED target
    /\ UNCHANGED <<sender, mapped, trackVars, peerVars, pingVars, removeVars,
                   tokenVars, scanVars>>

\* Expired tokens are deleted, whichever these are by now, and the token of
\* the connection is looked up: it is there, or it is not or the query fails.
UuidLookup(c) ==
    /\ hpc[c] = "lookup"
    /\ \E live \in SUBSET rows :
         /\ rows' = live
         /\ \/ /\ token[c] \in live
               /\ HandlerGoto(c, "found")
               /\ target' = [target EXCEPT ![c] = owner[token[c]]]
            \/ HandlerGoto(c, "rejected") /\ UNCHANGED target
    /\ UNCHANGED <<sender, mapped, trackVars, token, peerVars, pingVars,
                   removeVars, owner, issued, scanVars>>

\* All tokens of the cluster are deleted; a database error is only logged.
UuidConsume(c) ==
    /\ hpc[c] = "found"
    /\ HandlerGoto(c, "check")
    /\ \/ rows' = {t \in rows : owner[t] # target[c]}
       \/ UNCHANGED rows
    /\ UNCHANGED <<sender, mapped, trackVars, token, target, peerVars, pingVars,
                   removeVars, owner, issued, scanVars>>

\* The guard against a second connection.  With a long-term key the handler
\* sleeps between this check and the registration.
OnlineCheck(c) ==
    /\ hpc[c] = "check"
    /\ HandlerGoto(c, IF Online(target[c]) THEN "rejected" ELSE "install")
    /\ UNCHANGED <<sender, mapped, trackVars, token, target, peerVars, pingVars,
                   removeVars, tokenVars, scanVars>>

\* register_connection: set_connection(Some(ws_sender))
Install(c) ==
    /\ hpc[c] = "install"
    /\ HandlerGoto(c, "insert")
    /\ sender' = [sender EXCEPT ![target[c]] = c]
    /\ UNCHANGED <<mapped, trackVars, token, target, peerVars, pingVars,
                   removeVars, tokenVars, scanVars>>

\* register_connection: connection_map and pong_times, and the backoff is over.
Insert(c) ==
    /\ hpc[c] = "insert"
    /\ HandlerGoto(c, "open")
    /\ mapped' = mapped \cup {c} /\ pongs' = pongs \cup {c}
    /\ tried' = tried \ {target[c]} /\ due' = due \ {target[c]}
    /\ UNCHANGED <<sender, pings, missed, token, target, peerVars, pingVars,
                   removeVars, tokenVars, scan>>

-----------------------------------------------------------------------------
(* remove_connection, for the handler and for the ping task                *)

\* remove_exact_connection: whoever takes the entry out goes on.
Removes(p, c, close) ==
    IF c \in mapped
      THEN /\ mapped' = mapped \ {c}
           /\ rstep' = [rstep EXCEPT ![p] = IF close THEN "close" ELSE "clear"]
           /\ rconn' = [rconn EXCEPT ![p] = c]
      ELSE UNCHANGED <<mapped, rstep, rconn>>

\* Cluster::close queues a Close frame for whatever connection the cluster has
\* now, and clears it.
RemoveClose(p) ==
    /\ rstep[p] = "close"
    /\ rstep' = [rstep EXCEPT ![p] = "clear"]
    /\ LET k == target[rconn[p]] IN
         /\ closing' = IF Online(k) THEN closing \cup {sender[k]} ELSE closing
         /\ sender' = [sender EXCEPT ![k] = NoConn]
    /\ UNCHANGED <<mapped, trackVars, hpc, token, target, asked, silent,
                   pingVars, rconn, tokenVars, scanVars>>

\* Mutant of RemoveClear: only Cluster::close clears the connection.
RemoveClearNot(p) ==
    /\ rstep[p] = "clear"
    /\ rstep' = [rstep EXCEPT ![p] = "forget"]
    /\ UNCHANGED <<sender, mapped, trackVars, hpc, token, target, peerVars,
                   pingVars, rconn, tokenVars, scanVars>>

\* set_connection(None)
RemoveClear(p) ==
    /\ rstep[p] = "clear"
    /\ rstep' = [rstep EXCEPT ![p] = "forget"]
    /\ sender' = [sender EXCEPT ![target[rconn[p]]] = NoConn]
    /\ UNCHANGED <<mapped, trackVars, hpc, token, target, peerVars, pingVars,
                   rconn, tokenVars, scanVars>>

\* Mutant of RemoveForget: ping_times keeps its entry.
RemoveForgetPongs(p) ==
    /\ rstep[p] = "forget"
    /\ rstep' = [rstep EXCEPT ![p] = "idle"]
    /\ rconn' = [rconn EXCEPT ![p] = NoConn]
    /\ pongs' = pongs \ {rconn[p]}
    /\ missed' = [missed EXCEPT ![rconn[p]] = 0]
    /\ UNCHANGED <<sender, mapped, pings, hpc, token, target, peerVars, pingVars,
                   tokenVars, scanVars>>

\* The tracking maps forget the connection.
RemoveForget(p) ==
    /\ rstep[p] = "forget"
    /\ rstep' = [rstep EXCEPT ![p] = "idle"]
    /\ rconn' = [rconn EXCEPT ![p] = NoConn]
    /\ pings' = pings \ {rconn[p]} /\ pongs' = pongs \ {rconn[p]}
    /\ missed' = [missed EXCEPT ![rconn[p]] = 0]
    /\ UNCHANGED <<sender, mapped, hpc, token, target, peerVars, pingVars,
                   tokenVars, scanVars>>

RemoveStep(p) == RemoveClose(p) \/ RemoveClear(p) \/ RemoveForget(p)

-----------------------------------------------------------------------------
(* The read loop of handle_socket                                          *)

\* The peer answers a ping; handle_pong first looks into connection_map.
Pong(c) ==
    /\ hpc[c] = "open" /\ c \in asked \ silent
    /\ asked' = asked \ {c}
    /\ HandlerGoto(c, IF c \in mapped THEN "ponging" ELSE "open")
    /\ UNCHANGED <<sender, mapped, trackVars, token, target, closing, silent,
                   pingVars, removeVars, tokenVars, scanVars>>

\* handle_pong records the pong.
PongWrite(c) ==
    /\ hpc[c] = "ponging"
    /\ HandlerGoto(c, "open")
    /\ pongs' = pongs \cup {c}
    /\ missed' = [missed EXCEPT ![c] = 0]
    /\ UNCHANGED <<sender, mapped, pings, token, target, peerVars, pingVars,
                   removeVars, tokenVars, scanVars>>

\* The peer is gone, and the transport does not notice.
PeerDies(c) ==
    /\ hpc[c] = "open" /\ c \notin silent
    /\ silent' = silent \cup {c}
    /\ UNCHANGED <<sender, mapped, trackVars, hpc, token, target, closing, asked,
                   pingVars, removeVars, tokenVars, scanVars>>

\* The stream ends, in order or by an error, and the connection is removed.
PeerLeaves(c) ==
    /\ hpc[c] = "open"
    /\ HandlerGoto(c, "removing")
    /\ \E close \in BOOLEAN : Removes(c, c, close)
    /\ UNCHANGED <<sender, trackVars, token, target, peerVars, pingVars, tokenVars,
                   scanVars>>

\* The forwarder writes the Close frame and the grace period begins, or the
\* sink has failed.
WriteClose(c) ==
    /\ hpc[c] = "open" /\ c \in closing
    /\ closing' = closing \ {c}
    /\ HandlerGoto(c, "grace") \/ UNCHANGED hpc
    /\ UNCHANGED <<sender, mapped, trackVars, token, target, asked, silent,
                   pingVars, removeVars, tokenVars, scanVars>>

\* The peer has closed, or the grace period is over.
GraceEnds(c) ==
    /\ hpc[c] = "grace"
    /\ HandlerGoto(c, "removing")
    /\ \E close \in BOOLEAN : Removes(c, c, close)
    /\ UNCHANGED <<sender, trackVars, token, target, peerVars, pingVars, tokenVars,
                   scanVars>>

\* The handler returns.
HandlerDone(c) ==
    /\ hpc[c] = "removing" /\ rstep[c] = "idle"
    /\ HandlerGoto(c, "done")
    /\ UNCHANGED <<sender, mapped, trackVars, token, target, peerVars, pingVars,
                   removeVars, tokenVars, scanVars>>

HandlerStep(c) ==
    \/ UuidLookup(c) \/ UuidConsume(c) \/ OnlineCheck(c) \/ Install(c)
    \/ Insert(c) \/ PongWrite(c) \/ WriteClose(c) \/ GraceEnds(c)
    \/ HandlerDone(c)

-----------------------------------------------------------------------------
(* check_pings                                                             *)

\* The connections that were pinged and have no pong
PingCollect ==
    /\ ping = "asleep"
    /\ ping' = "counting" /\ suspects' = pings \ pongs
    /\ UNCHANGED <<sender, mapped, trackVars, hpc, token, target, peerVars,
                   removeVars, tokenVars, scanVars>>

\* Mutant of PingCount: a connection is evicted at its third miss only, and
\* the counter stops before that.
PingCountStuck ==
    /\ ping = "counting"
    /\ ping' = "evicting" /\ suspects' = {}
    /\ missed' = [c \in Conns |-> IF c \in suspects THEN 1 ELSE missed[c]]
    /\ UNCHANGED <<sender, mapped, pings, pongs, hpc, token, target, peerVars,
                   removeVars, tokenVars, scanVars>>

\* Mutant of PingCount: the count goes on beyond the limit.
PingCountLate ==
    /\ ping = "counting"
    /\ ping' = "evicting"
    /\ suspects' = {c \in suspects : missed[c] >= 2}
    /\ missed' = [c \in Conns |-> missed[c] + IF c \in suspects THEN 1 ELSE 0]
    /\ UNCHANGED <<sender, mapped, pings, pongs, hpc, token, target, peerVars,
                   removeVars, tokenVars, scanVars>>

\* Their misses are counted; with two in a row they are evicted.
PingCount ==
    /\ ping = "counting"
    /\ ping' = "evicting"
    /\ suspects' = {c \in suspects : missed[c] >= 1}
    /\ missed' = [c \in Conns |->
                    IF c \in suspects /\ missed[c] < 2 THEN missed[c] + 1
                                                       ELSE missed[c]]
    /\ UNCHANGED <<sender, mapped, pings, pongs, hpc, token, target, peerVars,
                   removeVars, tokenVars, scanVars>>

\* The next one is evicted, as soon as the last one is removed.
PingEvict(c) ==
    /\ ping = "evicting" /\ rstep[Pinger] = "idle" /\ c \in suspects
    /\ suspects' = suspects \ {c}
    /\ pings' = pings \ {c}
    /\ Removes(Pinger, c, TRUE)
    /\ UNCHANGED <<sender, pongs, missed, hpc, token, target, peerVars, ping,
                   tokenVars, scanVars>>

\* All are evicted: the iteration over connection_map begins.
PingBegin ==
    /\ ping = "evicting" /\ rstep[Pinger] = "idle" /\ suspects = {}
    /\ ping' = "pinging" /\ suspects' = mapped
    /\ UNCHANGED <<sender, mapped, trackVars, hpc, token, target, peerVars,
                   removeVars, tokenVars, scanVars>>

\* The ping goes to the connection the cluster has now.  The entry of
\* connection_map is locked until the tracking maps are written.
PingNext(c) ==
    /\ ping = "pinging" /\ c \in suspects
    /\ suspects' = suspects \ {c}
    /\ IF c \in mapped /\ Online(target[c])
         THEN /\ asked' = asked \cup {sender[target[c]]}
              /\ pings' = pings \cup {c} /\ pongs' = pongs \ {c}
         ELSE UNCHANGED <<asked, pings, pongs>>
    /\ UNCHANGED <<sender, mapped, missed, hpc, token, target, closing, silent,
                   ping, removeVars, tokenVars, scanVars>>

PingDone ==
    /\ ping = "pinging" /\ suspects = {}
    /\ ping' = "asleep"
    /\ UNCHANGED <<sender, mapped, trackVars, hpc, token, target, peerVars,
                   suspects, removeVars, tokenVars, scanVars>>

PingStep ==
    \/ PingCollect \/ PingCount \/ PingBegin \/ PingDone
    \/ \E c \in Conns : PingEvict(c) \/ PingNext(c)

-----------------------------------------------------------------------------
(* The specification                                                       *)

Next ==
    \/ \E k \in Clusters :
         \/ ScanStart(k) \/ ScanPurge(k) \/ ScanIssue(k) \/ ScanFail(k)
         \/ BackoffElapses(k)
    \/ \E c \in Conns :
         \/ Connect(c) \/ HandlerStep(c)
         \/ Pong(c) \/ PeerDies(c) \/ PeerLeaves(c)
    \/ \E p \in Removers : RemoveStep(p)
    \/ PingStep

Spec == Init /\ [][Next]_vars

\* Tokio runs the tasks and fires their timers, and the database does not
\* refuse the same insertion for ever.  Peers may do nothing.
Fairness ==
    /\ \A k \in Clusters :
         /\ WF_vars(ScanStart(k)) /\ WF_vars(ScanPurge(k))
         /\ SF_vars(ScanIssue(k)) /\ WF_vars(BackoffElapses(k))
    /\ \A c \in Conns : WF_vars(HandlerStep(c))
    /\ \A p \in Removers : WF_vars(RemoveStep(p))
    /\ WF_vars(PingStep)

FairSpec == Spec /\ Fairness

-----------------------------------------------------------------------------
(* Properties                                                              *)

\* The connection is being removed.
Leaving(c) == \E p \in Removers : rconn[p] = c

\* A cluster is online only through a connection that is registered, is about
\* to be, or whose removal has yet to clear it: is_online never vouches for a
\* connection that is gone, whoever removed it.
OnlineIsReal ==
    \A k \in Clusters : Online(k) =>
        LET c == sender[k] IN
        target[c] = k /\ (c \in mapped \/ Leaving(c) \/ hpc[c] = "insert")

\* ping_times holds no entry of a connection that is gone: the entries that
\* check_pings visits stay bounded by the open connections.
PingsAreLive == pings \subseteq mapped \cup {c \in Conns : Leaving(c)}

\* When the peer of a cluster falls silent, the cluster does not stay online
\* through it: two missed pongs evict the connection.
SilentGoesOffline ==
    \A k \in Clusters : sender[k] \in silent ~> sender[k] \notin silent

\* A cluster that is offline and waits for a client is offered a token again
\* and again, until it is online (or the bound on tokens is reached).
OfflineIsOffered ==
    \A k \in Clusters \ LtkClusters :
        ~Online(k) ~>
            Online(k) \/ issued = MaxTokens \/ \E t \in rows : owner[t] = k

-----------------------------------------------------------------------------
(* Statements of the repository that the code does not meet                *)

\* manager.rs:858 - "LTK match found - check for duplicate connection
\* (security)": a cluster has at most one registered connection.
OneConnection ==
    \A c, d \in mapped : target[c] = target[d] => c = d

\* manager.rs:1010 - pongs of connections that are "no longer present in
\* `connection_map`" are ignored, for "Re-creating tracking entries here for a
\* dead conn_id would leak them": a handler that has returned left no entry.
PongsAreLive ==
    \A c \in Conns : hpc[c] = "done" /\ ~Leaving(c) => c \notin pongs

\* cluster.rs:1399 - the peer of a closed connection "sees a real WebSocket
\* Close", "instead of being stranded on a half-open socket that still pongs":
\* a connection whose peer is alive is its cluster's, or on its way out.
NoneStranded ==
    \A c \in Conns :
        hpc[c] = "open" /\ c \notin silent ~>
            hpc[c] # "open" \/ c \in silent \/ sender[target[c]] = c

=============================================================================
