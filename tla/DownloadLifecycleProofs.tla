----------------------- MODULE DownloadLifecycleProofs -----------------------
(***************************************************************************)
(* Proofs about DownloadLifecycle for any numbers of downloads,            *)
(* connections and shutdown futures.                                       *)
(***************************************************************************)
EXTENDS DownloadLifecycle, TLAPS

-----------------------------------------------------------------------------
(* The inductive invariant                                                 *)

Closing(d) == state[d] \in {"Closing", "Closed"}

\* A cleanup request for the download is queued.
Requested(d) == \E i \in 1..Len(cleanups) : cleanups[i] = d

\* Some run of cleanup_file_download for d is at one of the steps S.
At(d, S) == \E p \in Cleaners : job[p] = d /\ step[p] \in S

BeforeGate       == {"lookup", "gate"}
BeforeUnregister == {"unregister"}
BeforeDisconnect == {"unregister", "disconnect"}
BeforeClose      == {"unregister", "disconnect", "close"}
BeforeTerminate  == {"unregister", "disconnect", "close", "detach", "terminate"}
PastGate         == {"unregister", "disconnect", "close", "detach", "terminate",
                     "complete"}

\* How far the HTTP handler has got, and what exists by then.
HttpInv ==
    \A d \in Downloads :
        /\ http[d] \in {"idle", "admitted"} => state[d] = "Absent"
        /\ http[d] \in {"building", "publishing"} =>
              state[d] = "Pending" /\ d \notin downloadMap
        /\ http[d] = "publishing" => d \in downloadClusters
        /\ http[d] \in {"idle", "admitted", "building", "publishing",
                        "created"} => ~armed[d]
        /\ http[d] \in {"idle", "admitted", "building", "publishing",
                        "created", "armed"} => d \notin asked
        /\ http[d] = "done" /\ armed[d] => ~Open(d)

\* Published sessions have a cluster; open ones are published or about to be.
RegistryInv ==
    /\ downloadMap \subseteq downloadClusters
    /\ \A d \in Downloads :
        /\ state[d] = "Absent" => d \notin downloadClusters
        /\ Open(d) => \/ d \in downloadMap
                      \/ http[d] \in {"building", "publishing"}
        /\ d \in downloadClusters =>
              \/ d \in downloadMap
              \/ http[d] = "publishing"
              \/ At(d, BeforeUnregister)
        /\ started[d] = IF Closing(d) /\ d \notin downloadClusters THEN 1 ELSE 0

\* A session has at most one connection, and only that one is installed.
BoundInv ==
    \A d \in Downloads :
        /\ state[d] \in {"Absent", "Pending"} => connection[d] = NoConn
        /\ state[d] = "Connected" => connection[d] # NoConn
        /\ sender[d] # NoConn => sender[d] = connection[d]

\* A handler belongs to the session it was bound to, until it is rejected.
HandlerInv ==
    \A c \in Conns :
        /\ ws[c] # "idle" => token[c] \in asked
        /\ ws[c] \in {"idle", "checking", "binding"} =>
              \A d \in Downloads : connection[d] # c
        /\ ws[c] \notin {"idle", "checking", "binding", "rejected"} =>
              connection[token[c]] = c
        /\ \A d \in Downloads : connection[d] = c => token[c] = d
        /\ c \in connMap =>
              ws[c] \notin {"idle", "checking", "binding", "bound", "found",
                            "wired", "checked", "rejected"}
        /\ ws[c] \in {"bound", "found", "rejected"} => sender[token[c]] # c
        /\ step[c] # "idle" => ws[c] = "cleaning"

\* A live connection has its resources until cleanup has taken them.
WiredInv ==
    \A c \in Conns :
        LET d == token[c] IN
        /\ ws[c] \in {"wired", "checked", "mapped", "accepted", "reading"}
           /\ IsConnected(d, c) => sender[d] = c
        /\ ws[c] \in {"mapped", "accepted", "reading"} /\ IsConnected(d, c)
              => c \in connMap
        /\ ws[c] \in {"accepted", "reading"} /\ closeFrame[c] = "none"
              => sender[d] = c

\* Cleanup works on closing sessions only, and only one run of it gets past
\* the gate.
CleanerInv ==
    /\ \A d \in Downloads : Requested(d) => Closing(d)
    /\ \A p \in Cleaners : step[p] # "idle" => Closing(job[p])
    /\ \A p \in Cleaners :
        step[p] \in PastGate =>
            /\ job[p] \notin downloadMap
            /\ step[p] = "unregister" <=> job[p] \in downloadClusters
            /\ step[p] \in {"disconnect", "close"} => connection[job[p]] # NoConn
            /\ step[p] \in {"detach", "complete"} => connection[job[p]] = NoConn
    /\ \A p, q \in Cleaners :
        step[p] \in PastGate /\ step[q] \in PastGate /\ job[p] = job[q] => p = q

\* What a closing session still has, someone is about to release.
ReleaseInv ==
    \A d \in Downloads : Closing(d) =>
        /\ d \in downloadMap => Requested(d) \/ At(d, BeforeGate)
        /\ tasks[d] # "terminated" =>
              d \in downloadMap \/ At(d, BeforeTerminate)
        /\ sender[d] # NoConn =>
              \/ d \in downloadMap
              \/ At(d, BeforeClose)
              \/ ws[sender[d]] \in {"wired", "checked", "mapped"}

\* And so it is with its entry in connection_map.
UnmapInv ==
    \A c \in connMap : Closing(token[c]) =>
          \/ token[c] \in downloadMap
          \/ At(token[c], BeforeDisconnect)
          \/ ws[c] = "mapped"

IInv ==
    /\ HttpInv /\ RegistryInv /\ BoundInv /\ HandlerInv
    /\ WiredInv /\ CleanerInv /\ ReleaseInv /\ UnmapInv

-----------------------------------------------------------------------------
(* Type correctness                                                        *)

\* The operations of DownloadSession keep its fields in range.
LEMMA SameSessionType ==
    ASSUME SessionTypeOK, UNCHANGED sessionVars PROVE SessionTypeOK'
  BY DEF SessionTypeOK, sessionVars

\* DownloadSession::new gives a session of the right type.
LEMMA NewSessionType ==
    ASSUME SessionTypeOK, NEW d \in Downloads, NewSession(d)
    PROVE  SessionTypeOK'
  BY DEF SessionTypeOK, NewSession, SessionStates

\* bind_connection keeps the types of the sessions.
LEMMA BindType ==
    ASSUME SessionTypeOK, NEW d \in Downloads, NEW c \in Conns,
           BindSession(d, c)
    PROVE  SessionTypeOK'
  BY DEF SessionTypeOK, BindSession, SessionStates

\* trigger keeps the types of the sessions and of the worker's channel.
LEMMA TriggerType ==
    ASSUME SessionTypeOK, NEW d \in Downloads, NEW r \in ShutdownReasons,
           TriggerSession(d, r)
    PROVE  SessionTypeOK'
<1>1. CASE CanTrigger(d)
  <2>1. cleanups' \in Seq(Downloads)
    BY <1>1 DEF SessionTypeOK, TriggerSession
  <2> QED BY <1>1, <2>1 DEF SessionTypeOK, TriggerSession, SessionStates
<1>2. CASE ~CanTrigger(d)
  BY <1>2, SameSessionType DEF TriggerSession
<1> QED BY <1>1, <1>2

\* complete keeps the types of the sessions.
LEMMA CompleteType ==
    ASSUME SessionTypeOK, NEW d \in Downloads, NEW c, CompleteSession(d, c)
    PROVE  SessionTypeOK'
  BY SameSessionType DEF SessionTypeOK, CompleteSession, SessionStates

\* The exit guard's completion keeps the types of the sessions.
LEMMA GuardCompleteType ==
    ASSUME SessionTypeOK, NEW c \in Conns, token[c] \in Downloads,
           GuardComplete(c)
    PROVE  SessionTypeOK'
  BY SameSessionType, CompleteType DEF GuardComplete

\* A guard that fires keeps the types of the sessions.
LEMMA FireGuardType ==
    ASSUME SessionTypeOK, NEW d \in Downloads, NEW r \in ShutdownReasons,
           FireGuard(d, r)
    PROVE  SessionTypeOK'
  BY SameSessionType, TriggerType DEF FireGuard

\* A handler past "idle" has presented the UUID of a download.
TokenInv == \A c \in Conns : ws[c] # "idle" => token[c] \in Downloads

\* A cleanup that runs has a download to clean up.
JobInv == \A p \in Cleaners : step[p] # "idle" => job[p] \in Downloads

TypeInv == TypeOK /\ TokenInv /\ JobInv

\* The initial state has the right types.
LEMMA TypeInit == Init => TypeInv
<1> SUFFICES ASSUME Init PROVE TypeInv
  OBVIOUS
<1>1. SessionTypeOK
  BY DEF Init, SessionInit, SessionTypeOK, SessionStates
<1> QED
  BY <1>1 DEF Init, TypeInv, TokenInv, JobInv, TypeOK, HttpSteps, WsSteps,
     CleanupSteps, Flags

\* remove_connection, whether it triggers the session or not, keeps the types.
LEMMA RemoveType ==
    ASSUME TypeInv, NEW c \in Conns, ws[c] # "idle", NEW r \in ShutdownReasons,
           RemoveConnection(c, r)
    PROVE  TypeInv'
<1> USE DEF registryVars, clusterVars, httpVars, shutdownVars
<1>1. c \in Cleaners /\ token[c] \in Downloads
  BY DEF Cleaners, TypeInv, TokenInv
<1>2. SessionTypeOK'
  BY <1>1, SameSessionType, TriggerType DEF RemoveConnection, TypeInv, TypeOK
<1>3. ws' \in [Conns -> WsSteps] /\ TokenInv'
  <2>1. \E w \in {"cleaning", "finishing"} : ws' = [ws EXCEPT ![c] = w]
    BY DEF RemoveConnection, WsGoto
  <2>2. UNCHANGED token
    BY DEF RemoveConnection
  <2> QED BY <1>1, <2>1, <2>2 DEF TypeInv, TypeOK, TokenInv, WsSteps
<1>4. /\ step' \in [Cleaners -> CleanupSteps]
      /\ job' \in [Cleaners -> Downloads \cup {NoDownload}]
      /\ JobInv'
  <2>1. CASE UNCHANGED <<step, job>>
    BY <2>1 DEF TypeInv, TypeOK, JobInv
  <2>2. CASE step' = [step EXCEPT ![c] = "lookup"] /\ job' = [job EXCEPT ![c] = token[c]]
    BY <1>1, <2>2 DEF TypeInv, TypeOK, JobInv, CleanupSteps
  <2> QED BY <2>1, <2>2 DEF RemoveConnection, CleanGoto
<1>5. UNCHANGED <<registryVars, clusterVars, httpVars, token, holds, closeFrame,
                  closedEvents, started, shutdownVars>>
  BY DEF RemoveConnection
<1> QED BY <1>2, <1>3, <1>4, <1>5 DEF TypeInv, TypeOK

\* Every step keeps the types.
LEMMA TypeStep == TypeInv /\ [Next]_vars => TypeInv'
<1> SUFFICES ASSUME TypeInv, [Next]_vars PROVE TypeInv'
  OBVIOUS
<1> USE DEF TypeInv, TokenInv, JobInv, TypeOK, HttpSteps, WsSteps,
            CleanupSteps, registryVars, clusterVars, httpVars, wsVars,
            cleanupVars, shutdownVars
<1>r. /\ {"ResponseError", "FileError", "ClusterOffline", "Complete",
          "ChunkTimeout"} \subseteq ShutdownReasons
      /\ {"WebSocketClosed", "WebSocketError", "ApplicationShutdown"}
            \subseteq ShutdownReasons
  BY DEF ShutdownReasons
<1>w. Conns \subseteq Cleaners /\ Worker \in Cleaners
  BY DEF Cleaners
<1>1. ASSUME NEW d \in Downloads,
             HttpEnter(d) \/ HttpStep(d) \/ DropHandler(d) \/ DropBody(d)
      PROVE  TypeInv'
  <2>1. CASE HttpEnter(d)
    BY <2>1, SameSessionType
       DEF HttpEnter, HttpGoto
  <2>2. CASE CreateSession(d)
    BY <2>2, SameSessionType, NewSessionType
       DEF CreateSession, HttpGoto
  <2>3. CASE RegisterCluster(d)
    BY <2>3, SameSessionType
       DEF RegisterCluster, HttpGoto
  <2>4. CASE PublishSession(d)
    BY <2>4, SameSessionType
       DEF PublishSession, HttpGoto
  <2>5. CASE ArmGuard(d)
    BY <2>5, SameSessionType
       DEF ArmGuard, HttpGoto, Lookup
  <2>6. CASE AskRemote(d)
    BY <2>6, <1>r, <1>w, SameSessionType, FireGuardType
       DEF AskRemote, HttpGoto
  <2>7. CASE LookupTransfer(d)
    BY <2>7, <1>r, <1>w, SameSessionType, FireGuardType
       DEF LookupTransfer, HttpGoto
  <2>8. CASE WaitTimeout(d)
    BY <2>8, <1>r, <1>w, SameSessionType, FireGuardType
       DEF WaitTimeout, HttpGoto, Flags
  <2>9. CASE WaitReady(d)
    BY <2>9, <1>r, <1>w, SameSessionType, FireGuardType
       DEF WaitReady, HttpGoto
  <2>10. CASE StreamEnd(d)
    BY <2>10, <1>r, <1>w, SameSessionType, FireGuardType
       DEF StreamEnd, HttpGoto
  <2>11. CASE DropHandler(d)
    BY <2>11, <1>r, <1>w, SameSessionType, FireGuardType
       DEF DropHandler, HttpGoto
  <2>12. CASE DropBody(d)
    BY <2>12, SameSessionType
       DEF DropBody, HttpGoto
  <2> QED
    BY <1>1, <2>1, <2>2, <2>3, <2>4, <2>5, <2>6, <2>7, <2>8, <2>9, <2>10, <2>11, <2>12
       DEF HttpStep
<1>2. ASSUME NEW c \in Conns, NEW d \in Downloads, Connect(c, d)
      PROVE  TypeInv'
  BY <1>2, SameSessionType DEF Connect, WsGoto
<1>3. ASSUME NEW c \in Conns, WsStep(c) \/ ReceiveFile(c) \/ PeerLeaves(c)
      PROVE  TypeInv'
  <2>1. CASE AdmitCheck(c)
    BY <2>1, SameSessionType
       DEF AdmitCheck, WsGoto
  <2>2. CASE AdmitBind(c)
    BY <2>2, SameSessionType, BindType
       DEF AdmitBind, WsGoto
  <2>3. CASE AdmitLookup(c)
    BY <2>3, <1>r, <1>w, SameSessionType, TriggerType
       DEF AdmitLookup, WsGoto
  <2>4. CASE AdmitInstall(c)
    BY <2>4, SameSessionType
       DEF AdmitInstall, WsGoto
  <2>5. CASE AdmitRecheck(c)
    BY <2>5, SameSessionType
       DEF AdmitRecheck, WsGoto
  <2>6. CASE AdmitInsert(c)
    BY <2>6, SameSessionType
       DEF AdmitInsert, WsGoto
  <2>7. CASE AdmitAccept(c)
    BY <2>7, SameSessionType
       DEF AdmitAccept, WsGoto
  <2>8. CASE RetainSession(c)
    BY <2>8, SameSessionType
       DEF RetainSession, WsGoto, IsConnected
  <2>9. CASE ForwardClose(c)
    BY <2>9, SameSessionType
       DEF ForwardClose
  <2>10. CASE EnterGrace(c)
    BY <2>10, SameSessionType
       DEF EnterGrace, WsGoto
  <2>11. CASE ReadFails(c)
    BY <2>11, <1>r, RemoveType DEF ReadFails
  <2>12. CASE GraceEnds(c)
    BY <2>12, <1>r, RemoveType DEF GraceEnds
  <2>13. CASE CleaningDone(c)
    BY <2>13, SameSessionType
       DEF CleaningDone, WsGoto
  <2>14. CASE HandlerExit(c)
    BY <2>14, SameSessionType, GuardCompleteType
       DEF HandlerExit, WsGoto, EmitClosedEvent
  <2>15. CASE ReceiveFile(c)
    BY <2>15, SameSessionType
       DEF ReceiveFile, Flags
  <2>16. CASE PeerLeaves(c)
    BY <2>16, <1>r, RemoveType DEF PeerLeaves
  <2> QED
    BY <1>3, <2>1, <2>2, <2>3, <2>4, <2>5, <2>6, <2>7, <2>8, <2>9, <2>10, <2>11, <2>12, <2>13, <2>14, <2>15, <2>16
       DEF WsStep
<1>4. CASE WorkerTake
  <2>1. Head(cleanups) \in Downloads /\ Tail(cleanups) \in Seq(Downloads)
    BY <1>4 DEF WorkerTake, SessionTypeOK
  <2> QED BY <1>4, <1>w, <2>1 DEF WorkerTake, CleanGoto, SessionTypeOK
<1>5. ASSUME NEW p \in Cleaners, CleanupStep(p) PROVE TypeInv'
  <2>1. CASE CleanupLookup(p)
    BY <2>1, SameSessionType DEF CleanupLookup, CleanGoto
  <2>2. CASE CleanupGate(p)
    BY <2>2, SameSessionType DEF CleanupGate, CleanGoto
  <2>3. CASE CleanupUnregister(p)
    BY <2>3, SameSessionType DEF CleanupUnregister, CleanGoto
  <2>4. CASE CleanupDisconnect(p)
    BY <2>4, SameSessionType DEF CleanupDisconnect, CleanGoto
  <2>5. CASE CleanupClose(p)
    BY <2>5, SameSessionType, NoConnAssumption
       DEF CleanupClose, CleanGoto
  <2>6. CASE CleanupDetach(p)
    BY <2>6, SameSessionType DEF CleanupDetach, CleanGoto
  <2>7. CASE CleanupTerminate(p)
    BY <2>7, SameSessionType DEF CleanupTerminate, CleanGoto
  <2>8. CASE CleanupComplete(p)
    BY <2>8, SameSessionType, CompleteType DEF CleanupComplete, CleanGoto
  <2> QED
    BY <1>5, <2>1, <2>2, <2>3, <2>4, <2>5, <2>6, <2>7, <2>8
       DEF CleanupStep
<1>6. ASSUME NEW a \in Arms, BeginShutdown(a) \/ ShutdownStep(a) PROVE TypeInv'
  <2>1. CASE BeginShutdown(a)
    BY <2>1, SameSessionType DEF BeginShutdown
  <2>6. CASE BeginSweep(a)
    BY <2>6, SameSessionType DEF BeginSweep
  <2>2. CASE BeginDrain(a)
    BY <2>2, SameSessionType DEF BeginDrain
  <2>3. CASE DrainDeadline(a)
    BY <2>3, SameSessionType DEF DrainDeadline
  <2>4. ASSUME NEW d \in Downloads, TriggerNext(a, d) PROVE TypeInv'
    BY <2>4, <1>r, TriggerType DEF TriggerNext
  <2>5. ASSUME NEW d \in Downloads, DrainNext(a, d) PROVE TypeInv'
    BY <2>5, SameSessionType DEF DrainNext
  <2> QED BY <1>6, <2>1, <2>2, <2>3, <2>4, <2>5, <2>6 DEF ShutdownStep
<1>7. CASE UNCHANGED vars
  BY <1>7, SameSessionType DEF vars
<1> QED BY <1>1, <1>2, <1>3, <1>4, <1>5, <1>6, <1>7 DEF Next

\* TypeOK holds of every behaviour: the composition of HTTP handlers,
\* WebSocket handlers, cleanup worker and shutdown futures keeps every
\* registry, channel and control point within its range.
THEOREM TypeCorrect == Spec => []TypeOK
<1>1. TypeInv => TypeOK
  BY DEF TypeInv
<1> QED BY TypeInit, TypeStep, <1>1, PTL DEF Spec

-----------------------------------------------------------------------------
(* Preservation of the inductive invariant, action by action               *)

\* The effect of an operation on the sessions: nothing ...
SessionsSame ==
    /\ state' = state /\ connection' = connection
    /\ \A e \in Downloads : Requested(e)' <=> Requested(e)

\* ... or, if it fires, that d moves to Closing and a request is queued.
Fires(d, fires) ==
    /\ connection' = connection
    /\ \A e \in Downloads :
          state'[e] = IF e = d /\ fires THEN "Closing" ELSE state[e]
    /\ \A e \in Downloads :
          Requested(e)' <=> Requested(e) \/ (e = d /\ fires)

\* Sessions that do not change are the same to every part of the invariant.
LEMMA SameEffect == ASSUME UNCHANGED sessionVars PROVE SessionsSame
  BY DEF sessionVars, SessionsSame, Requested

\* With the channel unchanged, the same cleanups are pending.
LEMMA SameQueue ==
    ASSUME UNCHANGED cleanups
    PROVE  \A e \in Downloads : Requested(e)' <=> Requested(e)
  BY DEF Requested

\* What trigger does to the sessions and to the pending cleanups.
LEMMA TriggerEffect ==
    ASSUME TypeInv, NEW d \in Downloads, NEW r, TriggerSession(d, r)
    PROVE  Fires(d, Open(d))
<1>1. CASE Open(d)
  <2>1. cleanups \in Seq(Downloads) /\ cleanups' = Append(cleanups, d)
    BY <1>1 DEF TriggerSession, CanTrigger, TypeInv, TypeOK, SessionTypeOK
  <2>2. ASSUME NEW e \in Downloads
        PROVE  Requested(e)' <=> Requested(e) \/ e = d
    <3>1. /\ Len(cleanups') = Len(cleanups) + 1
          /\ Len(cleanups) \in Nat
          /\ \A i \in 1..Len(cleanups) : cleanups'[i] = cleanups[i]
          /\ cleanups'[Len(cleanups) + 1] = d
      BY <2>1
    <3> QED BY <3>1 DEF Requested
  <2> QED
    BY <1>1, <2>2 DEF Fires, TriggerSession, CanTrigger, TypeInv, TypeOK,
       SessionTypeOK
<1>2. CASE ~Open(d)
  BY <1>2, SameEffect DEF TriggerSession, CanTrigger, SessionsSame, Fires
<1> QED BY <1>1, <1>2

\* What a guard that fires does: a trigger, or nothing.
LEMMA FireGuardEffect ==
    ASSUME TypeInv, NEW d \in Downloads, NEW r, FireGuard(d, r)
    PROVE  Fires(d, armed[d] /\ Open(d))
<1>1. CASE armed[d]
  BY <1>1, TriggerEffect DEF FireGuard, Fires
<1>2. CASE ~armed[d]
  BY <1>2, SameEffect DEF FireGuard, SessionsSame, Fires
<1> QED BY <1>1, <1>2

\* What the worker's recv does to the pending cleanups.
LEMMA TakeEffect ==
    ASSUME TypeInv, cleanups # <<>>, cleanups' = Tail(cleanups)
    PROVE  /\ Head(cleanups) \in Downloads
           /\ Requested(Head(cleanups))
           /\ \A e \in Downloads : Requested(e)' => Requested(e)
           /\ \A e \in Downloads :
                 Requested(e) => Requested(e)' \/ e = Head(cleanups)
<1>1. cleanups \in Seq(Downloads)
  BY DEF TypeInv, TypeOK, SessionTypeOK
<1>2. /\ Len(cleanups) \in Nat /\ Len(cleanups) >= 1
      /\ Len(cleanups') = Len(cleanups) - 1
      /\ \A i \in 1..Len(cleanups') : cleanups'[i] = cleanups[i + 1]
      /\ Head(cleanups) = cleanups[1]
      /\ Head(cleanups) \in Downloads
  BY <1>1
<1>3. Requested(Head(cleanups))
  BY <1>2 DEF Requested
<1>4. ASSUME NEW e \in Downloads, Requested(e)' PROVE Requested(e)
  <2>1. PICK i \in 1..Len(cleanups') : cleanups'[i] = e
    BY <1>4 DEF Requested
  <2>2. i + 1 \in 1..Len(cleanups) /\ cleanups[i + 1] = e
    BY <1>2, <2>1
  <2> QED BY <2>2 DEF Requested
<1>5. ASSUME NEW e \in Downloads, Requested(e), e # Head(cleanups)
      PROVE  Requested(e)'
  <2>1. PICK i \in 1..Len(cleanups) : cleanups[i] = e
    BY <1>5 DEF Requested
  <2>2. i - 1 \in 1..Len(cleanups') /\ cleanups'[i - 1] = e
    BY <1>2, <1>5, <2>1
  <2> QED BY <2>2 DEF Requested
<1> QED BY <1>2, <1>3, <1>4, <1>5

\* Runs of cleanup_file_download that stay where they are ...
LEMMA AtSame ==
    ASSUME NEW S, UNCHANGED <<step, job>>
    PROVE  \A d \in Downloads : At(d, S)' <=> At(d, S)
  BY DEF At

\* Steps that touch neither the sessions nor the runs of cleanup
LEMMA Undisturbed ==
    ASSUME UNCHANGED <<state, cleanups, step, job>>
    PROVE  \A e \in Downloads :
             /\ Closing(e)' <=> Closing(e)
             /\ Requested(e)' <=> Requested(e)
             /\ At(e, BeforeGate)' <=> At(e, BeforeGate)
             /\ At(e, BeforeUnregister)' <=> At(e, BeforeUnregister)
             /\ At(e, BeforeDisconnect)' <=> At(e, BeforeDisconnect)
             /\ At(e, BeforeClose)' <=> At(e, BeforeClose)
             /\ At(e, BeforeTerminate)' <=> At(e, BeforeTerminate)
  BY AtSame, SameQueue
     DEF Closing, BeforeGate, BeforeUnregister, BeforeDisconnect, BeforeClose,
         BeforeTerminate

\* ... and one that moves from its step to s.
LEMMA AtMove ==
    ASSUME TypeInv, NEW p \in Cleaners, NEW s, NEW S,
           CleanGoto(p, s), UNCHANGED job
    PROVE  /\ s \in S => At(job[p], S)'
           /\ \A d \in Downloads :
                At(d, S) /\ (d # job[p] \/ step[p] \notin S \/ s \in S)
                  => At(d, S)'
           /\ \A d \in Downloads :
                At(d, S)' => At(d, S) \/ (d = job[p] /\ s \in S)
  BY DEF At, CleanGoto, TypeInv, TypeOK

\* Cleanup is not disturbed by what happens to sessions that are not closing.
LEMMA CleanerFrame ==
    ASSUME TypeInv, IInv, UNCHANGED <<step, job, cleanups>>,
           \A d \in Downloads : Closing(d) =>
              /\ Closing(d)' /\ connection'[d] = connection[d]
              /\ d \in downloadMap' <=> d \in downloadMap
              /\ d \in downloadClusters' <=> d \in downloadClusters
    PROVE  CleanerInv'
<1> USE DEF IInv, TypeInv, JobInv
<1>1. \A d \in Downloads : Requested(d)' => Closing(d)'
  BY SameQueue DEF CleanerInv
<1>2. \A p \in Cleaners : (step[p] # "idle" => Closing(job[p]))'
  BY DEF CleanerInv
<1>3. \A p \in Cleaners : step[p] \in PastGate =>
        step[p] # "idle" /\ job[p] \in Downloads /\ Closing(job[p])
  BY DEF CleanerInv, PastGate
<1> QED BY <1>1, <1>2, <1>3 DEF CleanerInv

\* Each part of the invariant depends on the variables it mentions.
LEMMA Frames ==
    ASSUME IInv
    PROVE  /\ UNCHANGED <<http, state, armed, asked, downloadMap,
                          downloadClusters>> => HttpInv'
           /\ UNCHANGED <<downloadMap, downloadClusters, state, http, step, job,
                          started>> => RegistryInv'
           /\ UNCHANGED <<state, connection, sender>> => BoundInv'
           /\ UNCHANGED <<ws, token, asked, connection, connMap, sender, step>>
                => HandlerInv'
           /\ UNCHANGED <<ws, token, state, connection, sender, connMap,
                          closeFrame>> => WiredInv'
           /\ UNCHANGED <<cleanups, state, step, job, downloadMap,
                          downloadClusters, connection>> => CleanerInv'
           /\ UNCHANGED <<state, downloadMap, cleanups, step, job, tasks, sender,
                          ws>> => ReleaseInv'
           /\ UNCHANGED <<state, downloadMap, step, job, ws, token, connMap>>
                => UnmapInv'
<1> USE DEF IInv
<1>1. UNCHANGED <<http, state, armed, asked, downloadMap, downloadClusters>>
        => HttpInv'
  BY DEF HttpInv, Open
<1>2. UNCHANGED <<downloadMap, downloadClusters, state, http, step, job, started>>
        => RegistryInv'
  BY DEF RegistryInv, Open, Closing, At
<1>3. UNCHANGED <<state, connection, sender>> => BoundInv'
  BY DEF BoundInv
<1>4. UNCHANGED <<ws, token, asked, connection, connMap, sender, step>>
        => HandlerInv'
  BY DEF HandlerInv
<1>5. UNCHANGED <<ws, token, state, connection, sender, connMap, closeFrame>>
        => WiredInv'
  BY DEF WiredInv, IsConnected
<1>6. UNCHANGED <<cleanups, state, step, job, downloadMap, downloadClusters,
                  connection>> => CleanerInv'
  BY DEF CleanerInv, Requested, Closing
<1>7. UNCHANGED <<state, downloadMap, cleanups, step, job, tasks, sender, ws>>
        => ReleaseInv'
  BY DEF ReleaseInv, Requested, Closing, At
<1>8. UNCHANGED <<state, downloadMap, step, job, ws, token, connMap>> => UnmapInv'
  BY DEF UnmapInv, Closing, At
<1> QED BY <1>1, <1>2, <1>3, <1>4, <1>5, <1>6, <1>7, <1>8

\* HttpEnter keeps the inductive invariant.
LEMMA HttpEnterPreserves ==
    ASSUME TypeInv, TypeInv', IInv, NEW d \in Downloads, HttpEnter(d)
    PROVE  IInv'
<1> USE DEF IInv, TypeInv, TokenInv, TypeOK, SessionTypeOK,
        sessionVars, registryVars, clusterVars, httpVars,
        wsVars, cleanupVars, shutdownVars
<1>1. HttpInv'
  BY DEF HttpEnter, HttpGoto, HttpInv, RegistryInv, Open
<1>2. RegistryInv'
  BY AtSame
     DEF HttpEnter, HttpGoto, RegistryInv, HttpInv, CleanerInv, Closing,
        Open, PastGate
<1> QED BY <1>1, <1>2, Frames DEF HttpEnter, HttpGoto

\* ArmGuard keeps the inductive invariant.
LEMMA ArmGuardPreserves ==
    ASSUME TypeInv, TypeInv', IInv, NEW d \in Downloads, ArmGuard(d)
    PROVE  IInv'
<1> USE DEF IInv, TypeInv, TokenInv, TypeOK, SessionTypeOK,
        sessionVars, registryVars, clusterVars, httpVars,
        wsVars, cleanupVars, shutdownVars
<1>1. HttpInv'
  BY DEF ArmGuard, HttpGoto, Lookup, HttpInv, RegistryInv, Open
<1>2. RegistryInv'
  BY AtSame
     DEF ArmGuard, HttpGoto, Lookup, RegistryInv, HttpInv, CleanerInv,
        Closing, Open, PastGate
<1> QED BY <1>1, <1>2, Frames DEF ArmGuard, HttpGoto

\* DropBody keeps the inductive invariant.
LEMMA DropBodyPreserves ==
    ASSUME TypeInv, TypeInv', IInv, NEW d \in Downloads, DropBody(d)
    PROVE  IInv'
<1> USE DEF IInv, TypeInv, TokenInv, TypeOK, SessionTypeOK,
        sessionVars, registryVars, clusterVars, httpVars,
        wsVars, cleanupVars, shutdownVars
<1>1. HttpInv'
  BY DEF DropBody, HttpGoto, HttpInv, RegistryInv, Open
<1>2. RegistryInv'
  BY AtSame
     DEF DropBody, HttpGoto, RegistryInv, HttpInv, CleanerInv, Closing,
        Open, PastGate
<1> QED BY <1>1, <1>2, Frames DEF DropBody, HttpGoto

\* RegisterCluster keeps the inductive invariant.
LEMMA RegisterClusterPreserves ==
    ASSUME TypeInv, TypeInv', IInv, NEW d \in Downloads, RegisterCluster(d)
    PROVE  IInv'
<1> USE DEF IInv, TypeInv, TokenInv, TypeOK, SessionTypeOK,
        sessionVars, registryVars, clusterVars, httpVars,
        wsVars, cleanupVars, shutdownVars
<1>1. HttpInv'
  BY DEF RegisterCluster, HttpGoto, HttpInv, RegistryInv, Open
<1>2. RegistryInv'
  BY AtSame
     DEF RegisterCluster, HttpGoto, RegistryInv, HttpInv, CleanerInv,
        Closing, Open, PastGate
<1>3. CleanerInv'
  BY CleanerFrame
     DEF RegisterCluster, Closing, HttpInv
<1> QED BY <1>1, <1>2, <1>3, Frames DEF RegisterCluster, HttpGoto

\* PublishSession keeps the inductive invariant.
LEMMA PublishSessionPreserves ==
    ASSUME TypeInv, TypeInv', IInv, NEW d \in Downloads, PublishSession(d)
    PROVE  IInv'
<1> USE DEF IInv, TypeInv, TokenInv, TypeOK, SessionTypeOK,
        sessionVars, registryVars, clusterVars, httpVars,
        wsVars, cleanupVars, shutdownVars
<1>1. HttpInv'
  BY DEF PublishSession, HttpGoto, HttpInv, RegistryInv, Open
<1>2. RegistryInv'
  BY AtSame
     DEF PublishSession, HttpGoto, RegistryInv, HttpInv, CleanerInv,
        Closing, Open, PastGate
<1>3. CleanerInv'
  BY CleanerFrame
     DEF PublishSession, Closing, HttpInv
<1>4. ReleaseInv'
  BY SameQueue, AtSame
     DEF PublishSession, HttpGoto, ReleaseInv, HandlerInv, BoundInv,
        RegistryInv, Closing, HttpInv
<1>5. UnmapInv'
  BY AtSame
     DEF PublishSession, HttpGoto, UnmapInv, HandlerInv, RegistryInv,
        Closing, HttpInv
<1> QED BY <1>1, <1>2, <1>3, <1>4, <1>5, Frames DEF PublishSession, HttpGoto

\* CreateSession keeps the inductive invariant.
LEMMA CreateSessionPreserves ==
    ASSUME TypeInv, TypeInv', IInv, NEW d \in Downloads, CreateSession(d)
    PROVE  IInv'
<1> USE DEF IInv, TypeInv, TokenInv, TypeOK, SessionTypeOK,
        sessionVars, registryVars, clusterVars, httpVars,
        wsVars, cleanupVars, shutdownVars
<1>1. HttpInv'
  BY DEF CreateSession, HttpGoto, NewSession, HttpInv, RegistryInv, Open
<1>2. RegistryInv'
  BY AtSame
     DEF CreateSession, HttpGoto, NewSession, RegistryInv, HttpInv,
        CleanerInv, Closing, Open, PastGate
<1>3. BoundInv'
  BY DEF CreateSession, HttpGoto, NewSession, BoundInv, HandlerInv, HttpInv
<1>4. WiredInv'
  BY DEF CreateSession, HttpGoto, NewSession, WiredInv, HandlerInv,
        BoundInv, IsConnected, HttpInv
<1>5. CleanerInv'
  BY CleanerFrame
     DEF CreateSession, NewSession, Closing, HttpInv
<1>6. ReleaseInv'
  BY SameQueue, AtSame
     DEF CreateSession, HttpGoto, NewSession, ReleaseInv, HandlerInv,
        BoundInv, RegistryInv, Closing, HttpInv
<1>7. UnmapInv'
  BY AtSame
     DEF CreateSession, HttpGoto, NewSession, UnmapInv, HandlerInv,
        RegistryInv, Closing, HttpInv
<1> QED BY <1>1, <1>2, <1>3, <1>4, <1>5, <1>6, <1>7, Frames DEF CreateSession, HttpGoto, NewSession

\* A step of download_file that may fire the guard keeps all but HttpInv and RegistryInv.
LEMMA FiresPreserves ==
    ASSUME TypeInv, TypeInv', IInv, NEW d \in Downloads, NEW fires \in BOOLEAN,
           Fires(d, fires), fires => d \in downloadMap /\ Open(d),
           UNCHANGED <<registryVars, clusterVars, asked, ws, token, closeFrame,
                       cleanupVars>>
    PROVE  BoundInv' /\ HandlerInv' /\ WiredInv' /\ CleanerInv'
           /\ ReleaseInv' /\ UnmapInv'
<1> USE DEF IInv, TypeInv, TokenInv, TypeOK, SessionTypeOK, registryVars,
        clusterVars, cleanupVars
<1>1. BoundInv'
  BY DEF Fires, BoundInv
<1>2. HandlerInv'
  BY DEF Fires, HandlerInv
<1>3. WiredInv'
  BY DEF Fires, WiredInv, HandlerInv, IsConnected
<1>4. CleanerInv'
  BY DEF Fires, CleanerInv, Closing, JobInv
<1>5. ReleaseInv'
  BY AtSame DEF Fires, ReleaseInv, RegistryInv, Closing, Open
<1>6. UnmapInv'
  BY AtSame DEF Fires, UnmapInv, HandlerInv, Closing
<1> QED BY <1>1, <1>2, <1>3, <1>4, <1>5, <1>6

\* AskRemote keeps the inductive invariant.
LEMMA AskRemotePreserves ==
    ASSUME TypeInv, TypeInv', IInv, NEW d \in Downloads, AskRemote(d)
    PROVE  IInv'
<1> USE DEF IInv, TypeInv, TypeOK, SessionTypeOK, httpVars, wsVars,
        registryVars, clusterVars, cleanupVars
<1>1. CASE http'[d] = "done"
  <2>0. /\ http' = [http EXCEPT ![d] = "done"]
        /\ http[d] \notin {"idle", "building", "publishing"}
        /\ UNCHANGED <<armed, asked, ws, token, closeFrame, cleanupVars,
                       registryVars, clusterVars>>
    BY <1>1 DEF AskRemote, HttpGoto
  <2>1. Fires(d, armed[d] /\ Open(d))
    BY <1>1, FireGuardEffect DEF AskRemote, HttpGoto
  <2>2. armed[d] /\ Open(d) => d \in downloadMap
    BY <2>0 DEF RegistryInv, HttpInv
  <2>3. HttpInv'
    BY <2>0, <2>1 DEF Fires, HttpInv, Open
  <2>4. RegistryInv'
    BY <2>0, <2>1, <2>2, AtSame DEF Fires, RegistryInv, Open, Closing
  <2> QED BY <2>0, <2>1, <2>2, <2>3, <2>4, FiresPreserves
<1>2. CASE http'[d] # "done"
  <2>1. UNCHANGED sessionVars
    BY <1>2 DEF AskRemote, HttpGoto
  <2>2. HttpInv'
    BY <1>2, <2>1 DEF AskRemote, HttpGoto, HttpInv, Open, sessionVars
  <2>3. RegistryInv'
    BY <1>2, <2>1, AtSame
       DEF AskRemote, HttpGoto, RegistryInv, HttpInv, Open, Closing, sessionVars
  <2>4. HandlerInv'
    BY <2>1 DEF AskRemote, HandlerInv, sessionVars
  <2> QED BY <2>1, <2>2, <2>3, <2>4, Frames DEF AskRemote, sessionVars
<1> QED BY <1>1, <1>2

\* LookupTransfer keeps the inductive invariant.
LEMMA LookupTransferPreserves ==
    ASSUME TypeInv, TypeInv', IInv, NEW d \in Downloads, LookupTransfer(d)
    PROVE  IInv'
<1> USE DEF IInv, TypeInv, TypeOK, SessionTypeOK, httpVars, wsVars,
        registryVars, clusterVars, cleanupVars
<1>1. CASE http'[d] = "done"
  <2>0. /\ http' = [http EXCEPT ![d] = "done"]
        /\ http[d] \notin {"idle", "building", "publishing"}
        /\ UNCHANGED <<armed, asked, ws, token, closeFrame, cleanupVars,
                       registryVars, clusterVars>>
    BY <1>1 DEF LookupTransfer, HttpGoto
  <2>1. Fires(d, armed[d] /\ Open(d))
    BY <1>1, FireGuardEffect DEF LookupTransfer, HttpGoto
  <2>2. armed[d] /\ Open(d) => d \in downloadMap
    BY <2>0 DEF RegistryInv, HttpInv
  <2>3. HttpInv'
    BY <2>0, <2>1 DEF Fires, HttpInv, Open
  <2>4. RegistryInv'
    BY <2>0, <2>1, <2>2, AtSame DEF Fires, RegistryInv, Open, Closing
  <2> QED BY <2>0, <2>1, <2>2, <2>3, <2>4, FiresPreserves
<1>2. CASE http'[d] # "done"
  <2>1. UNCHANGED sessionVars
    BY <1>2 DEF LookupTransfer, HttpGoto
  <2>2. HttpInv'
    BY <1>2, <2>1 DEF LookupTransfer, HttpGoto, HttpInv, Open, sessionVars
  <2>3. RegistryInv'
    BY <1>2, <2>1, AtSame
       DEF LookupTransfer, HttpGoto, RegistryInv, HttpInv, Open, Closing, sessionVars
  <2>4. HandlerInv'
    BY <2>1 DEF LookupTransfer, HandlerInv, sessionVars
  <2> QED BY <2>1, <2>2, <2>3, <2>4, Frames DEF LookupTransfer, sessionVars
<1> QED BY <1>1, <1>2

\* WaitTimeout keeps the inductive invariant.
LEMMA WaitTimeoutPreserves ==
    ASSUME TypeInv, TypeInv', IInv, NEW d \in Downloads, WaitTimeout(d)
    PROVE  IInv'
<1> USE DEF IInv, TypeInv, TypeOK, SessionTypeOK, httpVars, wsVars,
        registryVars, clusterVars, cleanupVars
<1>1. CASE http'[d] = "done"
  <2>0. /\ http' = [http EXCEPT ![d] = "done"]
        /\ http[d] \notin {"idle", "building", "publishing"}
        /\ UNCHANGED <<armed, asked, ws, token, closeFrame, cleanupVars,
                       registryVars, clusterVars>>
    BY <1>1 DEF WaitTimeout, HttpGoto
  <2>1. Fires(d, armed[d] /\ Open(d))
    BY <1>1, FireGuardEffect DEF WaitTimeout, HttpGoto
  <2>2. armed[d] /\ Open(d) => d \in downloadMap
    BY <2>0 DEF RegistryInv, HttpInv
  <2>3. HttpInv'
    BY <2>0, <2>1 DEF Fires, HttpInv, Open
  <2>4. RegistryInv'
    BY <2>0, <2>1, <2>2, AtSame DEF Fires, RegistryInv, Open, Closing
  <2> QED BY <2>0, <2>1, <2>2, <2>3, <2>4, FiresPreserves
<1>2. CASE http'[d] # "done"
  <2>1. UNCHANGED sessionVars
    BY <1>2 DEF WaitTimeout, HttpGoto
  <2>2. HttpInv'
    BY <1>2, <2>1 DEF WaitTimeout, HttpGoto, HttpInv, Open, sessionVars
  <2>3. RegistryInv'
    BY <1>2, <2>1, AtSame
       DEF WaitTimeout, HttpGoto, RegistryInv, HttpInv, Open, Closing, sessionVars
  <2>4. HandlerInv'
    BY <2>1 DEF WaitTimeout, HandlerInv, sessionVars
  <2> QED BY <2>1, <2>2, <2>3, <2>4, Frames DEF WaitTimeout, sessionVars
<1> QED BY <1>1, <1>2

\* WaitReady keeps the inductive invariant.
LEMMA WaitReadyPreserves ==
    ASSUME TypeInv, TypeInv', IInv, NEW d \in Downloads, WaitReady(d)
    PROVE  IInv'
<1> USE DEF IInv, TypeInv, TypeOK, SessionTypeOK, httpVars, wsVars,
        registryVars, clusterVars, cleanupVars
<1>1. CASE http'[d] = "done"
  <2>0. /\ http' = [http EXCEPT ![d] = "done"]
        /\ http[d] \notin {"idle", "building", "publishing"}
        /\ UNCHANGED <<armed, asked, ws, token, closeFrame, cleanupVars,
                       registryVars, clusterVars>>
    BY <1>1 DEF WaitReady, HttpGoto
  <2>1. Fires(d, armed[d] /\ Open(d))
    BY <1>1, FireGuardEffect DEF WaitReady, HttpGoto
  <2>2. armed[d] /\ Open(d) => d \in downloadMap
    BY <2>0 DEF RegistryInv, HttpInv
  <2>3. HttpInv'
    BY <2>0, <2>1 DEF Fires, HttpInv, Open
  <2>4. RegistryInv'
    BY <2>0, <2>1, <2>2, AtSame DEF Fires, RegistryInv, Open, Closing
  <2> QED BY <2>0, <2>1, <2>2, <2>3, <2>4, FiresPreserves
<1>2. CASE http'[d] # "done"
  <2>1. UNCHANGED sessionVars
    BY <1>2 DEF WaitReady, HttpGoto
  <2>2. HttpInv'
    BY <1>2, <2>1 DEF WaitReady, HttpGoto, HttpInv, Open, sessionVars
  <2>3. RegistryInv'
    BY <1>2, <2>1, AtSame
       DEF WaitReady, HttpGoto, RegistryInv, HttpInv, Open, Closing, sessionVars
  <2>4. HandlerInv'
    BY <2>1 DEF WaitReady, HandlerInv, sessionVars
  <2> QED BY <2>1, <2>2, <2>3, <2>4, Frames DEF WaitReady, sessionVars
<1> QED BY <1>1, <1>2

\* StreamEnd keeps the inductive invariant.
LEMMA StreamEndPreserves ==
    ASSUME TypeInv, TypeInv', IInv, NEW d \in Downloads, StreamEnd(d)
    PROVE  IInv'
<1> USE DEF IInv, TypeInv, TypeOK, SessionTypeOK, httpVars, wsVars,
        registryVars, clusterVars, cleanupVars
<1>1. CASE http'[d] = "done"
  <2>0. /\ http' = [http EXCEPT ![d] = "done"]
        /\ http[d] \notin {"idle", "building", "publishing"}
        /\ UNCHANGED <<armed, asked, ws, token, closeFrame, cleanupVars,
                       registryVars, clusterVars>>
    BY <1>1 DEF StreamEnd, HttpGoto
  <2>1. Fires(d, armed[d] /\ Open(d))
    BY <1>1, FireGuardEffect DEF StreamEnd, HttpGoto
  <2>2. armed[d] /\ Open(d) => d \in downloadMap
    BY <2>0 DEF RegistryInv, HttpInv
  <2>3. HttpInv'
    BY <2>0, <2>1 DEF Fires, HttpInv, Open
  <2>4. RegistryInv'
    BY <2>0, <2>1, <2>2, AtSame DEF Fires, RegistryInv, Open, Closing
  <2> QED BY <2>0, <2>1, <2>2, <2>3, <2>4, FiresPreserves
<1>2. CASE http'[d] # "done"
  <2>1. UNCHANGED sessionVars
    BY <1>2 DEF StreamEnd, HttpGoto
  <2>2. HttpInv'
    BY <1>2, <2>1 DEF StreamEnd, HttpGoto, HttpInv, Open, sessionVars
  <2>3. RegistryInv'
    BY <1>2, <2>1, AtSame
       DEF StreamEnd, HttpGoto, RegistryInv, HttpInv, Open, Closing, sessionVars
  <2>4. HandlerInv'
    BY <2>1 DEF StreamEnd, HandlerInv, sessionVars
  <2> QED BY <2>1, <2>2, <2>3, <2>4, Frames DEF StreamEnd, sessionVars
<1> QED BY <1>1, <1>2

\* DropHandler keeps the inductive invariant.
LEMMA DropHandlerPreserves ==
    ASSUME TypeInv, TypeInv', IInv, NEW d \in Downloads, DropHandler(d)
    PROVE  IInv'
<1> USE DEF IInv, TypeInv, TypeOK, SessionTypeOK, httpVars, wsVars,
        registryVars, clusterVars, cleanupVars
<1>1. CASE http'[d] = "done"
  <2>0. /\ http' = [http EXCEPT ![d] = "done"]
        /\ http[d] \notin {"idle", "building", "publishing"}
        /\ UNCHANGED <<armed, asked, ws, token, closeFrame, cleanupVars,
                       registryVars, clusterVars>>
    BY <1>1 DEF DropHandler, HttpGoto
  <2>1. Fires(d, armed[d] /\ Open(d))
    BY <1>1, FireGuardEffect DEF DropHandler, HttpGoto
  <2>2. armed[d] /\ Open(d) => d \in downloadMap
    BY <2>0 DEF RegistryInv, HttpInv
  <2>3. HttpInv'
    BY <2>0, <2>1 DEF Fires, HttpInv, Open
  <2>4. RegistryInv'
    BY <2>0, <2>1, <2>2, AtSame DEF Fires, RegistryInv, Open, Closing
  <2> QED BY <2>0, <2>1, <2>2, <2>3, <2>4, FiresPreserves
<1>2. CASE http'[d] # "done"
  <2>1. UNCHANGED sessionVars
    BY <1>2 DEF DropHandler, HttpGoto
  <2>2. HttpInv'
    BY <1>2, <2>1 DEF DropHandler, HttpGoto, HttpInv, Open, sessionVars
  <2>3. RegistryInv'
    BY <1>2, <2>1, AtSame
       DEF DropHandler, HttpGoto, RegistryInv, HttpInv, Open, Closing, sessionVars
  <2>4. HandlerInv'
    BY <2>1 DEF DropHandler, HandlerInv, sessionVars
  <2> QED BY <2>1, <2>2, <2>3, <2>4, Frames DEF DropHandler, sessionVars
<1> QED BY <1>1, <1>2

\* Connect keeps the inductive invariant.
LEMMA ConnectPreserves ==
    ASSUME TypeInv, TypeInv', IInv, NEW c \in Conns, NEW d \in Downloads, Connect(c, d)
    PROVE  IInv'
<1> USE DEF IInv, TypeInv, TokenInv, TypeOK, SessionTypeOK,
        sessionVars, registryVars, clusterVars, httpVars,
        wsVars, cleanupVars, shutdownVars
<1>1. HandlerInv'
  BY DEF Connect, WsGoto, HandlerInv, BoundInv, HttpInv
<1>2. WiredInv'
  BY DEF Connect, WsGoto, WiredInv, HandlerInv, BoundInv, IsConnected
<1>3. ReleaseInv'
  BY SameQueue, AtSame
     DEF Connect, WsGoto, ReleaseInv, HandlerInv, BoundInv, RegistryInv,
        Closing
<1>4. UnmapInv'
  BY AtSame
     DEF Connect, WsGoto, UnmapInv, HandlerInv, RegistryInv, Closing
<1> QED BY <1>1, <1>2, <1>3, <1>4, Frames DEF Connect, WsGoto

\* AdmitCheck keeps the inductive invariant.
LEMMA AdmitCheckPreserves ==
    ASSUME TypeInv, TypeInv', IInv, NEW c \in Conns, AdmitCheck(c)
    PROVE  IInv'
<1> USE DEF IInv, TypeInv, TokenInv, TypeOK, SessionTypeOK,
        sessionVars, registryVars, clusterVars, httpVars,
        wsVars, cleanupVars, shutdownVars
<1>1. HandlerInv'
  BY NoConnAssumption
     DEF AdmitCheck, WsGoto, IsConnected, HandlerInv, BoundInv, HttpInv
<1>2. WiredInv'
  BY NoConnAssumption
     DEF AdmitCheck, WsGoto, IsConnected, WiredInv, HandlerInv, BoundInv
<1>3. ReleaseInv'
  BY SameQueue, NoConnAssumption, AtSame
     DEF AdmitCheck, WsGoto, IsConnected, ReleaseInv, HandlerInv, BoundInv,
        RegistryInv, Closing
<1>4. UnmapInv'
  BY NoConnAssumption, AtSame
     DEF AdmitCheck, WsGoto, IsConnected, UnmapInv, HandlerInv, RegistryInv,
        Closing
<1> QED BY <1>1, <1>2, <1>3, <1>4, Frames DEF AdmitCheck, WsGoto

\* EnterGrace keeps the inductive invariant.
LEMMA EnterGracePreserves ==
    ASSUME TypeInv, TypeInv', IInv, NEW c \in Conns, EnterGrace(c)
    PROVE  IInv'
<1> USE DEF IInv, TypeInv, TokenInv, TypeOK, SessionTypeOK,
        sessionVars, registryVars, clusterVars, httpVars,
        wsVars, cleanupVars, shutdownVars
<1>t. token[c] \in Downloads /\ connection[token[c]] = c
  BY DEF EnterGrace, HandlerInv
<1>1. HandlerInv'
  BY NoConnAssumption, <1>t
     DEF EnterGrace, WsGoto, IsConnected, HandlerInv, BoundInv, HttpInv
<1>2. WiredInv'
  BY NoConnAssumption, <1>t
     DEF EnterGrace, WsGoto, IsConnected, WiredInv, HandlerInv, BoundInv
<1>3. ReleaseInv'
  BY SameQueue, NoConnAssumption, <1>t, AtSame
     DEF EnterGrace, WsGoto, IsConnected, ReleaseInv, HandlerInv, BoundInv,
        RegistryInv, Closing
<1>4. UnmapInv'
  BY NoConnAssumption, <1>t, AtSame
     DEF EnterGrace, WsGoto, IsConnected, UnmapInv, HandlerInv, RegistryInv,
        Closing
<1> QED BY <1>1, <1>2, <1>3, <1>4, Frames DEF EnterGrace, WsGoto

\* RetainSession keeps the inductive invariant.
LEMMA RetainSessionPreserves ==
    ASSUME TypeInv, TypeInv', IInv, NEW c \in Conns, RetainSession(c)
    PROVE  IInv'
<1> USE DEF IInv, TypeInv, TokenInv, TypeOK, SessionTypeOK,
        sessionVars, registryVars, clusterVars, httpVars,
        wsVars, cleanupVars, shutdownVars
<1>t. token[c] \in Downloads /\ connection[token[c]] = c
  BY DEF RetainSession, HandlerInv
<1>1. HandlerInv'
  BY NoConnAssumption, <1>t
     DEF RetainSession, WsGoto, IsConnected, HandlerInv, BoundInv, HttpInv
<1>2. WiredInv'
  BY NoConnAssumption, <1>t
     DEF RetainSession, WsGoto, IsConnected, WiredInv, HandlerInv, BoundInv
<1>3. ReleaseInv'
  BY SameQueue, NoConnAssumption, <1>t, AtSame
     DEF RetainSession, WsGoto, IsConnected, ReleaseInv, HandlerInv,
        BoundInv, RegistryInv, Closing
<1>4. UnmapInv'
  BY NoConnAssumption, <1>t, AtSame
     DEF RetainSession, WsGoto, IsConnected, UnmapInv, HandlerInv,
        RegistryInv, Closing
<1> QED BY <1>1, <1>2, <1>3, <1>4, Frames DEF RetainSession, WsGoto

\* CleaningDone keeps the inductive invariant.
LEMMA CleaningDonePreserves ==
    ASSUME TypeInv, TypeInv', IInv, NEW c \in Conns, CleaningDone(c)
    PROVE  IInv'
<1> USE DEF IInv, TypeInv, TokenInv, TypeOK, SessionTypeOK,
        sessionVars, registryVars, clusterVars, httpVars,
        wsVars, cleanupVars, shutdownVars
<1>t. token[c] \in Downloads /\ connection[token[c]] = c
  BY DEF CleaningDone, HandlerInv
<1>1. HandlerInv'
  BY NoConnAssumption, <1>t
     DEF CleaningDone, WsGoto, IsConnected, HandlerInv, BoundInv, HttpInv
<1>2. WiredInv'
  BY NoConnAssumption, <1>t
     DEF CleaningDone, WsGoto, IsConnected, WiredInv, HandlerInv, BoundInv
<1>3. ReleaseInv'
  BY SameQueue, NoConnAssumption, <1>t, AtSame
     DEF CleaningDone, WsGoto, IsConnected, ReleaseInv, HandlerInv,
        BoundInv, RegistryInv, Closing
<1>4. UnmapInv'
  BY NoConnAssumption, <1>t, AtSame
     DEF CleaningDone, WsGoto, IsConnected, UnmapInv, HandlerInv,
        RegistryInv, Closing
<1> QED BY <1>1, <1>2, <1>3, <1>4, Frames DEF CleaningDone, WsGoto

\* ForwardClose keeps the inductive invariant.
LEMMA ForwardClosePreserves ==
    ASSUME TypeInv, TypeInv', IInv, NEW c \in Conns, ForwardClose(c)
    PROVE  IInv'
<1> USE DEF IInv, TypeInv, TokenInv, TypeOK, SessionTypeOK,
        sessionVars, registryVars, clusterVars, httpVars,
        wsVars, cleanupVars, shutdownVars
<1>t. token[c] \in Downloads /\ connection[token[c]] = c
  BY DEF ForwardClose, HandlerInv
<1>1. WiredInv'
  BY NoConnAssumption, <1>t
     DEF ForwardClose, WsGoto, IsConnected, WiredInv, HandlerInv, BoundInv
<1> QED BY <1>1, Frames DEF ForwardClose, WsGoto

\* ReceiveFile keeps the inductive invariant.
LEMMA ReceiveFilePreserves ==
    ASSUME TypeInv, TypeInv', IInv, NEW c \in Conns, ReceiveFile(c)
    PROVE  IInv'
<1> USE DEF IInv, TypeInv, TokenInv, TypeOK, SessionTypeOK,
        sessionVars, registryVars, clusterVars, httpVars,
        wsVars, cleanupVars, shutdownVars
<1> QED BY Frames DEF ReceiveFile, WsGoto

\* AdmitInstall keeps the inductive invariant.
LEMMA AdmitInstallPreserves ==
    ASSUME TypeInv, TypeInv', IInv, NEW c \in Conns, AdmitInstall(c)
    PROVE  IInv'
<1> USE DEF IInv, TypeInv, TokenInv, TypeOK, SessionTypeOK,
        sessionVars, registryVars, clusterVars, httpVars,
        wsVars, cleanupVars, shutdownVars
<1>t. token[c] \in Downloads /\ connection[token[c]] = c
  BY DEF AdmitInstall, HandlerInv
<1>1. BoundInv'
  BY NoConnAssumption, <1>t
     DEF AdmitInstall, WsGoto, IsConnected, BoundInv, HandlerInv
<1>2. HandlerInv'
  BY NoConnAssumption, <1>t
     DEF AdmitInstall, WsGoto, IsConnected, HandlerInv, BoundInv, HttpInv
<1>3. WiredInv'
  BY NoConnAssumption, <1>t
     DEF AdmitInstall, WsGoto, IsConnected, WiredInv, HandlerInv, BoundInv
<1>4. ReleaseInv'
  BY SameQueue, NoConnAssumption, <1>t, AtSame
     DEF AdmitInstall, WsGoto, IsConnected, ReleaseInv, HandlerInv,
        BoundInv, RegistryInv, Closing
<1>5. UnmapInv'
  BY NoConnAssumption, <1>t, AtSame
     DEF AdmitInstall, WsGoto, IsConnected, UnmapInv, HandlerInv,
        RegistryInv, Closing
<1> QED BY <1>1, <1>2, <1>3, <1>4, <1>5, Frames DEF AdmitInstall, WsGoto

\* AdmitRecheck keeps the inductive invariant.
LEMMA AdmitRecheckPreserves ==
    ASSUME TypeInv, TypeInv', IInv, NEW c \in Conns, AdmitRecheck(c)
    PROVE  IInv'
<1> USE DEF IInv, TypeInv, TokenInv, TypeOK, SessionTypeOK,
        sessionVars, registryVars, clusterVars, httpVars,
        wsVars, cleanupVars, shutdownVars
<1>t. token[c] \in Downloads /\ connection[token[c]] = c
  BY DEF AdmitRecheck, HandlerInv
<1>1. BoundInv'
  BY NoConnAssumption, <1>t
     DEF AdmitRecheck, WsGoto, IsConnected, BoundInv, HandlerInv
<1>2. HandlerInv'
  BY NoConnAssumption, <1>t
     DEF AdmitRecheck, WsGoto, IsConnected, HandlerInv, BoundInv, HttpInv
<1>3. WiredInv'
  BY NoConnAssumption, <1>t
     DEF AdmitRecheck, WsGoto, IsConnected, WiredInv, HandlerInv, BoundInv
<1>u. /\ \A b \in connMap : b \in Conns /\ token[b] \in Downloads
      /\ \A e \in Downloads : sender[e] = c => e = token[c]
  BY <1>t, NoConnAssumption DEF HandlerInv, BoundInv
<1>s. UNCHANGED <<state, cleanups, step, job>>
  BY DEF AdmitRecheck
<1>4. ReleaseInv'
  <2>1. CASE IsConnected(token[c], c)
    <3>1. ~Closing(token[c])
      BY <2>1 DEF Closing, IsConnected
    <3>2. ws' = [ws EXCEPT ![c] = "checked"]
          /\ UNCHANGED <<sender, tasks, downloadMap>>
      BY <2>1 DEF AdmitRecheck, WsGoto
    <3> QED BY <3>1, <3>2, <1>u, <1>s, Undisturbed DEF ReleaseInv
  <2>2. CASE ~IsConnected(token[c], c)
    <3>1. ws' = [ws EXCEPT ![c] = "rejected"]
          /\ sender' = [sender EXCEPT ![token[c]] = NoConn]
          /\ UNCHANGED <<tasks, downloadMap>>
      BY <2>2 DEF AdmitRecheck, WsGoto
    <3> QED BY <1>t, <3>1, <1>u, <1>s, Undisturbed DEF ReleaseInv
  <2> QED BY <2>1, <2>2
<1>5. UnmapInv'
  <2>1. CASE IsConnected(token[c], c)
    <3>1. ~Closing(token[c])
      BY <2>1 DEF Closing, IsConnected
    <3>2. ws' = [ws EXCEPT ![c] = "checked"]
          /\ UNCHANGED <<connMap, token, downloadMap>>
      BY <2>1 DEF AdmitRecheck, WsGoto
    <3> QED BY <3>1, <3>2, <1>u, <1>s, Undisturbed DEF UnmapInv
  <2>2. CASE ~IsConnected(token[c], c)
    <3>1. ws' = [ws EXCEPT ![c] = "rejected"] /\ c \notin connMap'
          /\ connMap' \subseteq connMap /\ UNCHANGED <<token, downloadMap>>
      BY <2>2 DEF AdmitRecheck, WsGoto, HandlerInv
    <3> QED BY <3>1, <1>u, <1>s, Undisturbed DEF UnmapInv
  <2> QED BY <2>1, <2>2
<1> QED BY <1>1, <1>2, <1>3, <1>4, <1>5, Frames DEF AdmitRecheck, WsGoto

\* AdmitInsert keeps the inductive invariant.
LEMMA AdmitInsertPreserves ==
    ASSUME TypeInv, TypeInv', IInv, NEW c \in Conns, AdmitInsert(c)
    PROVE  IInv'
<1> USE DEF IInv, TypeInv, TokenInv, TypeOK, SessionTypeOK,
        sessionVars, registryVars, clusterVars, httpVars,
        wsVars, cleanupVars, shutdownVars
<1>t. token[c] \in Downloads /\ connection[token[c]] = c
  BY DEF AdmitInsert, HandlerInv
<1>1. HandlerInv'
  BY NoConnAssumption, <1>t
     DEF AdmitInsert, WsGoto, IsConnected, HandlerInv, BoundInv, HttpInv
<1>2. WiredInv'
  BY NoConnAssumption, <1>t
     DEF AdmitInsert, WsGoto, IsConnected, WiredInv, HandlerInv, BoundInv
<1>3. ReleaseInv'
  BY SameQueue, NoConnAssumption, <1>t, AtSame
     DEF AdmitInsert, WsGoto, IsConnected, ReleaseInv, HandlerInv, BoundInv,
        RegistryInv, Closing
<1>4. UnmapInv'
  BY NoConnAssumption, <1>t, AtSame
     DEF AdmitInsert, WsGoto, IsConnected, UnmapInv, HandlerInv,
        RegistryInv, Closing
<1> QED BY <1>1, <1>2, <1>3, <1>4, Frames DEF AdmitInsert, WsGoto

\* AdmitAccept keeps the inductive invariant.
LEMMA AdmitAcceptPreserves ==
    ASSUME TypeInv, TypeInv', IInv, NEW c \in Conns, AdmitAccept(c)
    PROVE  IInv'
<1> USE DEF IInv, TypeInv, TokenInv, TypeOK, SessionTypeOK,
        sessionVars, registryVars, clusterVars, httpVars,
        wsVars, cleanupVars, shutdownVars
<1>t. token[c] \in Downloads /\ connection[token[c]] = c
  BY DEF AdmitAccept, HandlerInv
<1>1. BoundInv'
  BY NoConnAssumption, <1>t
     DEF AdmitAccept, WsGoto, IsConnected, BoundInv, HandlerInv
<1>2. HandlerInv'
  BY NoConnAssumption, <1>t
     DEF AdmitAccept, WsGoto, IsConnected, HandlerInv, BoundInv, HttpInv
<1>3. WiredInv'
  BY NoConnAssumption, <1>t
     DEF AdmitAccept, WsGoto, IsConnected, WiredInv, HandlerInv, BoundInv
<1>u. /\ \A b \in connMap : b \in Conns /\ token[b] \in Downloads
      /\ \A e \in Downloads : sender[e] = c => e = token[c]
  BY <1>t, NoConnAssumption DEF HandlerInv, BoundInv
<1>s. UNCHANGED <<state, cleanups, step, job>>
  BY DEF AdmitAccept
<1>4. ReleaseInv'
  <2>1. CASE IsConnected(token[c], c)
    <3>1. ~Closing(token[c])
      BY <2>1 DEF Closing, IsConnected
    <3>2. ws' = [ws EXCEPT ![c] = "accepted"]
          /\ UNCHANGED <<sender, tasks, downloadMap>>
      BY <2>1 DEF AdmitAccept, WsGoto
    <3> QED BY <3>1, <3>2, <1>u, <1>s, Undisturbed DEF ReleaseInv
  <2>2. CASE ~IsConnected(token[c], c)
    <3>1. ws' = [ws EXCEPT ![c] = "rejected"]
          /\ sender' = [sender EXCEPT ![token[c]] = NoConn]
          /\ UNCHANGED <<tasks, downloadMap>>
      BY <2>2 DEF AdmitAccept, WsGoto
    <3> QED BY <1>t, <3>1, <1>u, <1>s, Undisturbed DEF ReleaseInv
  <2> QED BY <2>1, <2>2
<1>5. UnmapInv'
  <2>1. CASE IsConnected(token[c], c)
    <3>1. ~Closing(token[c])
      BY <2>1 DEF Closing, IsConnected
    <3>2. ws' = [ws EXCEPT ![c] = "accepted"]
          /\ UNCHANGED <<connMap, token, downloadMap>>
      BY <2>1 DEF AdmitAccept, WsGoto
    <3> QED BY <3>1, <3>2, <1>u, <1>s, Undisturbed DEF UnmapInv
  <2>2. CASE ~IsConnected(token[c], c)
    <3>1. ws' = [ws EXCEPT ![c] = "rejected"] /\ c \notin connMap'
          /\ connMap' \subseteq connMap /\ UNCHANGED <<token, downloadMap>>
      BY <2>2 DEF AdmitAccept, WsGoto, HandlerInv
    <3> QED BY <3>1, <1>u, <1>s, Undisturbed DEF UnmapInv
  <2> QED BY <2>1, <2>2
<1> QED BY <1>1, <1>2, <1>3, <1>4, <1>5, Frames DEF AdmitAccept, WsGoto

\* AdmitBind keeps the inductive invariant.
LEMMA AdmitBindPreserves ==
    ASSUME TypeInv, TypeInv', IInv, NEW c \in Conns, AdmitBind(c)
    PROVE  IInv'
<1> USE DEF IInv, TypeInv, TokenInv, TypeOK, SessionTypeOK,
        sessionVars, registryVars, clusterVars, httpVars,
        wsVars, cleanupVars, shutdownVars
<1>t. token[c] \in Downloads
  BY DEF AdmitBind
<1>1. HttpInv'
  BY NoConnAssumption, <1>t
     DEF AdmitBind, WsGoto, BindSession, CanBind, HttpInv, RegistryInv, Open
<1>2. RegistryInv'
  <2>1. UNCHANGED <<registryVars, http, started>>
        /\ \A d \in Downloads : At(d, BeforeUnregister)' <=> At(d, BeforeUnregister)
    BY AtSame DEF AdmitBind
  <2>2. \A d \in Downloads :
            /\ state'[d] = "Absent" => state[d] = "Absent"
            /\ Open(d)' <=> Open(d)
            /\ Closing(d)' <=> Closing(d)
    BY <1>t DEF AdmitBind, WsGoto, BindSession, CanBind, Open, Closing
  <2> QED BY <2>1, <2>2 DEF RegistryInv
<1>3. BoundInv'
  BY NoConnAssumption, <1>t
     DEF AdmitBind, WsGoto, BindSession, CanBind, BoundInv, HandlerInv
<1>4. HandlerInv'
  BY NoConnAssumption, <1>t
     DEF AdmitBind, WsGoto, BindSession, CanBind, HandlerInv, BoundInv,
        HttpInv
<1>5. WiredInv'
  BY NoConnAssumption, <1>t
     DEF AdmitBind, WsGoto, BindSession, CanBind, WiredInv, HandlerInv,
        BoundInv, IsConnected
<1>6. CleanerInv'
  BY CleanerFrame, <1>t
     DEF AdmitBind, BindSession, CanBind, Closing, HttpInv
<1>7. ReleaseInv'
  BY SameQueue, NoConnAssumption, <1>t, AtSame
     DEF AdmitBind, WsGoto, BindSession, CanBind, ReleaseInv, HandlerInv,
        BoundInv, RegistryInv, Closing
<1>8. UnmapInv'
  <2>1. \A b \in connMap : b \in Conns /\ b # c /\ token[b] \in Downloads
    BY DEF AdmitBind, HandlerInv
  <2>2. \A e \in Downloads : Closing(e)' <=> Closing(e)
    BY <1>t DEF AdmitBind, BindSession, CanBind, Closing
  <2> QED BY <2>1, <2>2, AtSame DEF AdmitBind, WsGoto, UnmapInv
<1> QED BY <1>1, <1>2, <1>3, <1>4, <1>5, <1>6, <1>7, <1>8, Frames DEF AdmitBind, WsGoto

\* The admission that finds the cluster gone: the session is closing already.
LEMMA AdmitLookupPreserves ==
    ASSUME TypeInv, TypeInv', IInv, NEW c \in Conns, AdmitLookup(c)
    PROVE  IInv'
<1> USE DEF IInv, TypeInv, TokenInv, TypeOK, SessionTypeOK, registryVars,
        clusterVars, httpVars, cleanupVars, shutdownVars
<1>t. token[c] \in Downloads /\ connection[token[c]] = c /\ token[c] \in asked
  BY DEF AdmitLookup, HandlerInv
<1>o. Open(token[c]) => token[c] \in downloadClusters
  BY <1>t DEF HttpInv, RegistryInv
<1>s. UNCHANGED sessionVars
  BY <1>o DEF AdmitLookup, TriggerSession, CanTrigger
<1>u. /\ \A b \in connMap : b \in Conns /\ token[b] \in Downloads
      /\ \A e \in Downloads : sender[e] # c
  BY <1>t, NoConnAssumption DEF AdmitLookup, HandlerInv, BoundInv
<1>1. HandlerInv'
  BY <1>t, <1>s DEF AdmitLookup, WsGoto, HandlerInv, sessionVars
<1>2. WiredInv'
  BY <1>t, <1>s DEF AdmitLookup, WsGoto, WiredInv, IsConnected, sessionVars
<1>3. /\ ws'[c] \in {"found", "rejected"}
      /\ \A b \in Conns : b # c => ws'[b] = ws[b]
      /\ UNCHANGED <<sender, tasks, downloadMap, connMap, token>>
      /\ UNCHANGED <<state, cleanups, step, job>>
      /\ c \notin connMap
  BY <1>s DEF AdmitLookup, WsGoto, HandlerInv, sessionVars
<1>4. ReleaseInv'
  BY <1>3, <1>u, Undisturbed DEF ReleaseInv
<1>5. UnmapInv'
  BY <1>3, <1>u, Undisturbed DEF UnmapInv
<1> QED BY <1>1, <1>2, <1>4, <1>5, <1>s, Frames DEF AdmitLookup, sessionVars

\* Leaving the read loop: the trigger is won, and the handler starts its own
\* run of cleanup_file_download, or it was lost.
LEMMA RemoveConnectionPreserves ==
    ASSUME TypeInv, TypeInv', IInv, NEW c \in Conns, NEW r,
           ws[c] \in {"reading", "grace"}, RemoveConnection(c, r)
    PROVE  IInv'
<1> USE DEF IInv, TypeInv, TokenInv, TypeOK, SessionTypeOK, registryVars,
        clusterVars, httpVars, cleanupVars, shutdownVars
<1>d. PICK d \in Downloads : d = token[c]
  OBVIOUS
<1>t. d = token[c] /\ connection[d] = c /\ c \in Cleaners
  BY <1>d DEF HandlerInv, Cleaners
<1>u. /\ \A b \in connMap : b \in Conns /\ token[b] \in Downloads
      /\ \A e \in Downloads : sender[e] = c => e = d
  BY <1>t, NoConnAssumption DEF HandlerInv, BoundInv
<1>1. CASE c \in connMap /\ d \in downloadMap /\ IsConnected(d, c)
  <2>1. /\ WsGoto(c, "cleaning") /\ TriggerSession(d, r)
        /\ CleanGoto(c, "lookup") /\ job' = [job EXCEPT ![c] = d]
        /\ UNCHANGED <<downloadMap, downloadClusters, connMap, sender, tasks,
                       http, armed, asked, token, closeFrame, started>>
    BY <1>1, <1>t DEF RemoveConnection
  <2>2. Open(d)
    BY <1>1, <1>t DEF IsConnected, Open
  <2>3. Fires(d, TRUE)
    BY <1>t, <2>1, <2>2, TriggerEffect DEF Fires
  <2>4. /\ \A e \in Downloads : e # d => state'[e] = state[e]
        /\ state'[d] = "Closing" /\ connection' = connection
    BY <1>t, <2>3 DEF Fires
  <2>5. /\ ws'[c] = "cleaning" /\ \A b \in Conns : b # c => ws'[b] = ws[b]
        /\ step'[c] = "lookup" /\ job'[c] = d
        /\ \A p \in Cleaners : p # c => step'[p] = step[p] /\ job'[p] = job[p]
        /\ step[c] = "idle"
    BY <1>t, <2>1 DEF WsGoto, CleanGoto, HandlerInv
  <2>6. /\ \A e \in Downloads : Closing(e) => Closing(e)'
        /\ \A e \in Downloads : e # d => (Closing(e)' <=> Closing(e))
        /\ Closing(d)' /\ ~Closing(d)
    BY <1>t, <2>2, <2>4 DEF Closing, Open
  <2>7. \A e \in Downloads : Requested(e) => Requested(e)'
    BY <2>3 DEF Fires
  <2>8. \A e \in Downloads :
          /\ At(e, BeforeGate) => At(e, BeforeGate)'
          /\ At(e, BeforeUnregister) => At(e, BeforeUnregister)'
          /\ At(e, BeforeDisconnect) => At(e, BeforeDisconnect)'
          /\ At(e, BeforeClose) => At(e, BeforeClose)'
          /\ At(e, BeforeTerminate) => At(e, BeforeTerminate)'
    BY <2>5 DEF At, BeforeGate, BeforeUnregister, BeforeDisconnect, BeforeClose,
       BeforeTerminate
  <2>9. HttpInv'
    BY <1>1, <1>t, <2>1, <2>2, <2>4 DEF HttpInv, Open
  <2>10. RegistryInv'
    <3>1. started[d] = 0 /\ d \in downloadClusters
      BY <1>1, <1>t, <2>6 DEF RegistryInv
    <3> QED
      BY <1>1, <1>t, <2>1, <2>4, <2>6, <2>8, <3>1 DEF RegistryInv, Open
  <2>11. BoundInv'
    BY <1>t, <2>1, <2>4, NoConnAssumption DEF BoundInv
  <2>12. HandlerInv'
    BY <1>t, <2>1, <2>4, <2>5 DEF HandlerInv, Cleaners
  <2>13. WiredInv'
    BY <1>t, <2>1, <2>4, <2>5 DEF WiredInv, HandlerInv, IsConnected
  <2>14. CleanerInv'
    <3>1. \A e \in Downloads : Requested(e)' => Closing(e)'
      BY <2>3, <2>6 DEF Fires, CleanerInv
    <3>2. \A p \in Cleaners : (step[p] # "idle" => Closing(job[p]))'
      <4> SUFFICES ASSUME NEW p \in Cleaners, step'[p] # "idle"
                   PROVE  state'[job'[p]] \in {"Closing", "Closed"}
        BY DEF Closing
      <4>1. CASE p = c
        BY <4>1, <2>4, <2>5
      <4>2. CASE p # c
        <5>1. job[p] \in Downloads /\ state[job[p]] \in {"Closing", "Closed"}
          BY <4>2, <2>5 DEF CleanerInv, JobInv, Closing
        <5> QED BY <4>2, <5>1, <2>4, <2>5
      <4> QED BY <4>1, <4>2
    <3>3. \A p \in Cleaners :
            step'[p] \in PastGate => p # c /\ step'[p] = step[p] /\ job'[p] = job[p]
      BY <2>5 DEF PastGate
    <3> QED BY <2>1, <2>4, <3>1, <3>2, <3>3 DEF CleanerInv
  <2>15. ReleaseInv'
    BY <1>1, <1>u, <2>1, <2>3, <2>5, <2>6, <2>7, <2>8 DEF ReleaseInv, Fires
  <2>16. UnmapInv'
    <3> SUFFICES ASSUME NEW b \in connMap, Closing(token[b])'
                 PROVE  (\/ token[b] \in downloadMap
                         \/ At(token[b], BeforeDisconnect)
                         \/ ws[b] = "mapped")'
      BY <2>1 DEF UnmapInv
    <3>1. PICK e \in Downloads : e = token[b] /\ token' = token
      BY <1>u, <2>1
    <3>2. CASE e = d
      BY <1>1, <2>1, <3>1, <3>2
    <3>3. CASE e # d
      <4>1. Closing(e)
        BY <2>4, <3>1, <3>3 DEF Closing
      <4>2. e \in downloadMap \/ At(e, BeforeDisconnect) \/ ws[b] = "mapped"
        BY <3>1, <4>1 DEF UnmapInv
      <4> QED BY <1>t, <1>u, <2>1, <2>5, <2>8, <3>1, <3>3, <4>2
    <3> QED BY <3>2, <3>3
  <2> QED
    BY <2>9, <2>10, <2>11, <2>12, <2>13, <2>14, <2>15, <2>16
<1>2. CASE ~(c \in connMap /\ d \in downloadMap /\ IsConnected(d, c))
  <2>1. /\ WsGoto(c, "finishing")
        /\ UNCHANGED sessionVars
        /\ UNCHANGED <<downloadMap, downloadClusters, connMap, sender, tasks,
                       http, armed, asked, token, closeFrame, started, step, job>>
    BY <1>2, <1>t DEF RemoveConnection
  <2>2. HandlerInv'
    BY <1>t, <2>1 DEF WsGoto, HandlerInv, sessionVars
  <2>3. WiredInv'
    BY <1>t, <2>1 DEF WsGoto, WiredInv, IsConnected, sessionVars
  <2>4. ReleaseInv'
    BY <1>u, <2>1, SameQueue, AtSame
       DEF WsGoto, ReleaseInv, Closing, sessionVars
  <2>5. UnmapInv'
    BY <1>u, <2>1, AtSame DEF WsGoto, UnmapInv, Closing, sessionVars
  <2> QED BY <2>1, <2>2, <2>3, <2>4, <2>5, Frames DEF sessionVars
<1> QED BY <1>1, <1>2

\* The exits of the read loop keep the invariant.
LEMMA LeavePreserves ==
    ASSUME TypeInv, TypeInv', IInv, NEW c \in Conns,
           PeerLeaves(c) \/ ReadFails(c) \/ GraceEnds(c)
    PROVE  IInv'
  BY RemoveConnectionPreserves DEF PeerLeaves, ReadFails, GraceEnds

\* A session moves from Closing to Closed, or nothing happens to it.
Completes ==
    /\ connection' = connection /\ cleanups' = cleanups
    /\ \A e \in Downloads :
          \/ state'[e] = state[e]
          \/ state[e] = "Closing" /\ state'[e] = "Closed"

\* What complete does to the sessions.
LEMMA CompleteEffect ==
    ASSUME TypeInv, NEW d \in Downloads, NEW c, CompleteSession(d, c)
    PROVE  Completes
  BY DEF Completes, CompleteSession, sessionVars, TypeInv, TypeOK, SessionTypeOK

\* A completion changes nothing but the step from Closing to Closed.
LEMMA CompletesClosing ==
    ASSUME Completes
    PROVE  /\ \A e \in Downloads : Closing(e)' <=> Closing(e)
           /\ \A e \in Downloads : Open(e)' <=> Open(e)
           /\ \A e \in Downloads : Requested(e)' <=> Requested(e)
           /\ \A e \in Downloads :
                state'[e] \in {"Absent", "Pending", "Connected"}
                  \/ state[e] \in {"Absent", "Pending", "Connected"}
                => state'[e] = state[e]
  BY SameQueue DEF Completes, Closing, Open

\* HandlerExit keeps the inductive invariant.
LEMMA HandlerExitPreserves ==
    ASSUME TypeInv, TypeInv', IInv, NEW c \in Conns, HandlerExit(c)
    PROVE  IInv'
<1> USE DEF IInv, TypeInv, TokenInv, JobInv, TypeOK, SessionTypeOK,
        sessionVars, registryVars, clusterVars, httpVars, wsVars, cleanupVars
<1>t. token[c] \in Downloads
  BY DEF HandlerExit
<1>e. Completes
  BY <1>t, CompleteEffect DEF HandlerExit, GuardComplete, Completes
<1>w. /\ ws[c] = "finishing" /\ ws' = [ws EXCEPT ![c] = "done"]
      /\ UNCHANGED <<registryVars, clusterVars, httpVars, token, closeFrame,
                     cleanupVars>>
  BY DEF HandlerExit, WsGoto
<1>u. \A b \in connMap : b \in Conns /\ token[b] \in Downloads
  BY DEF HandlerInv
<1>1. HttpInv'
  BY <1>e, <1>w, CompletesClosing DEF HttpInv
<1>2. RegistryInv'
  BY <1>e, <1>w, CompletesClosing, AtSame DEF RegistryInv
<1>3. BoundInv'
  BY <1>e, <1>w, CompletesClosing DEF BoundInv, Completes
<1>4. HandlerInv'
  BY <1>t, <1>e, <1>w DEF HandlerInv, Completes
<1>5. WiredInv'
  BY <1>e, <1>w, CompletesClosing DEF WiredInv, IsConnected, Completes
<1>6. CleanerInv'
  BY <1>e, <1>w, CompletesClosing, CleanerFrame DEF Completes
<1>7. ReleaseInv'
  BY <1>e, <1>w, CompletesClosing, AtSame DEF ReleaseInv
<1>8. UnmapInv'
  BY <1>e, <1>w, <1>u, CompletesClosing, AtSame DEF UnmapInv
<1> QED BY <1>1, <1>2, <1>3, <1>4, <1>5, <1>6, <1>7, <1>8

\* The worker takes a request: the session it is for is closing, and the run
\* it starts stands in for the request.
LEMMA WorkerTakePreserves ==
    ASSUME TypeInv, TypeInv', IInv, WorkerTake
    PROVE  IInv'
<1> USE DEF IInv, TypeInv, TokenInv, JobInv, TypeOK, SessionTypeOK,
        sessionVars, registryVars, clusterVars, httpVars, wsVars, cleanupVars
<1>d. PICK d \in Downloads : d = Head(cleanups)
  BY TakeEffect DEF WorkerTake
<1>1. /\ Worker \in Cleaners /\ Worker \notin Conns
      /\ step[Worker] = "idle" /\ step'[Worker] = "lookup" /\ job'[Worker] = d
      /\ \A p \in Cleaners :
            p # Worker => step'[p] = step[p] /\ job'[p] = job[p]
      /\ UNCHANGED <<state, connection, registryVars, clusterVars, httpVars,
                     wsVars, started>>
  BY <1>d, WorkerAssumption DEF WorkerTake, CleanGoto, Cleaners
<1>2. /\ Requested(d)
      /\ \A e \in Downloads : Requested(e)' => Requested(e)
      /\ \A e \in Downloads : Requested(e) => Requested(e)' \/ e = d
  BY <1>d, TakeEffect DEF WorkerTake
<1>3. /\ At(d, BeforeGate)'
      /\ \A e \in Downloads :
          /\ At(e, BeforeGate) => At(e, BeforeGate)'
          /\ At(e, BeforeUnregister) => At(e, BeforeUnregister)'
          /\ At(e, BeforeDisconnect) => At(e, BeforeDisconnect)'
          /\ At(e, BeforeClose) => At(e, BeforeClose)'
          /\ At(e, BeforeTerminate) => At(e, BeforeTerminate)'
  BY <1>1 DEF At, BeforeGate, BeforeUnregister, BeforeDisconnect, BeforeClose,
     BeforeTerminate
<1>c. \A e \in Downloads : Closing(e)' <=> Closing(e)
  BY <1>1 DEF Closing
<1>4. RegistryInv'
  BY <1>1, <1>3, <1>c DEF RegistryInv, Open
<1>5. HandlerInv'
  BY <1>1 DEF HandlerInv, Cleaners
<1>6. CleanerInv'
  <2>1. \A e \in Downloads : Requested(e)' => Closing(e)'
    BY <1>2, <1>c DEF CleanerInv
  <2>2. ASSUME NEW p \in Cleaners, step'[p] # "idle"
        PROVE  state'[job'[p]] \in {"Closing", "Closed"}
    BY <2>2, <1>1, <1>2 DEF CleanerInv, Closing
  <2>3. \A p \in Cleaners : step'[p] \in PastGate =>
          p # Worker /\ step'[p] = step[p] /\ job'[p] = job[p]
    BY <1>1 DEF PastGate
  <2> QED BY <1>1, <2>1, <2>2, <2>3 DEF CleanerInv, Closing
<1>7. ReleaseInv'
  BY <1>1, <1>2, <1>3, <1>c DEF ReleaseInv
<1>8. UnmapInv'
  <2> SUFFICES ASSUME NEW b \in connMap, Closing(token[b])'
               PROVE  (\/ token[b] \in downloadMap
                       \/ At(token[b], BeforeDisconnect)
                       \/ ws[b] = "mapped")'
    BY <1>1 DEF UnmapInv
  <2>1. PICK e \in Downloads : e = token[b] /\ token' = token
    BY <1>1 DEF HandlerInv
  <2> QED BY <1>1, <1>3, <1>c, <2>1 DEF UnmapInv
<1> QED BY <1>1, <1>4, <1>5, <1>6, <1>7, <1>8, Frames

\* A run of cleanup_file_download moves on: a handler's run is still its own.
LEMMA HandlerMove ==
    ASSUME TypeInv, IInv, NEW p \in Cleaners, NEW s, CleanGoto(p, s),
           step[p] # "idle", UNCHANGED <<ws, token, asked, connection>>,
           connMap' \subseteq connMap,
           \A e \in Downloads : sender'[e] \in {sender[e], NoConn}
    PROVE  HandlerInv'
<1>1. \A c \in Conns : step'[c] # "idle" => step[c] # "idle"
  BY DEF CleanGoto, TypeInv, TypeOK, Cleaners
<1>2. \A c \in Conns : ws[c] # "idle" => token[c] \in Downloads
  BY DEF TypeInv, TokenInv
<1> QED BY <1>1, <1>2, NoConnAssumption DEF IInv, HandlerInv

\* Only the run that removed the entry gets past the gate, and it alone
\* changes the registries of its download.
LEMMA CleanerMove ==
    ASSUME TypeInv, IInv, NEW p \in Cleaners, NEW s, NEW d \in Downloads,
           d = job[p], CleanGoto(p, s), step[p] # "idle",
           UNCHANGED <<job, cleanups, connection>>,
           \A e \in Downloads : Closing(e)' <=> Closing(e),
           \A e \in Downloads : e # d =>
              /\ e \in downloadMap' <=> e \in downloadMap
              /\ e \in downloadClusters' <=> e \in downloadClusters,
           \/ step[p] \in PastGate
           \/ d \in downloadMap /\ s \in PastGate
           \/ s \notin PastGate /\ UNCHANGED <<downloadMap, downloadClusters>>,
           s \in PastGate =>
              /\ d \notin downloadMap'
              /\ s = "unregister" <=> d \in downloadClusters'
              /\ s \in {"disconnect", "close"} => connection[d] # NoConn
              /\ s \in {"detach", "complete"} => connection[d] = NoConn
    PROVE  CleanerInv'
<1> USE DEF IInv
<1>1. /\ step'[p] = s /\ job' = job
      /\ \A q \in Cleaners : q # p => step'[q] = step[q]
  BY DEF CleanGoto, TypeInv, TypeOK
<1>2. \A e \in Downloads : Requested(e)' => Closing(e)'
  BY SameQueue DEF CleanerInv
<1>3. \A q \in Cleaners : step[q] # "idle" => job[q] \in Downloads
  BY DEF TypeInv, JobInv
<1>4. \A q \in Cleaners : step'[q] # "idle" => state'[job'[q]] \in {"Closing", "Closed"}
  BY <1>1, <1>3 DEF CleanerInv, Closing
<1>5. \A q \in Cleaners : step[q] \in PastGate => step[q] # "idle"
  BY DEF PastGate
<1>6. ASSUME NEW q \in Cleaners, step'[q] \in PastGate
      PROVE  /\ job'[q] \notin downloadMap'
             /\ step'[q] = "unregister" <=> job'[q] \in downloadClusters'
             /\ step'[q] \in {"disconnect", "close"} =>
                  connection'[job'[q]] # NoConn
             /\ step'[q] \in {"detach", "complete"} =>
                  connection'[job'[q]] = NoConn
  <2>1. CASE q = p
    BY <1>1, <1>6, <2>1
  <2>2. CASE q # p
    <3>1. step[q] = step'[q] /\ step[q] \in PastGate /\ job[q] \in Downloads
      BY <1>1, <1>3, <1>5, <1>6, <2>2
    <3>2. CASE job[q] # d
      BY <1>1, <3>1, <3>2 DEF CleanerInv
    <3>3. CASE job[q] = d
      <4>1. step[p] \notin PastGate /\ d \notin downloadMap
        BY <2>2, <3>1, <3>3 DEF CleanerInv
      <4> QED BY <1>1, <3>1, <3>3, <4>1 DEF CleanerInv
    <3> QED BY <3>2, <3>3
  <2> QED BY <2>1, <2>2
<1>7. ASSUME NEW q \in Cleaners, NEW r \in Cleaners, step'[q] \in PastGate,
             step'[r] \in PastGate, job'[q] = job'[r]
      PROVE  q = r
  <2>1. CASE q # p /\ r # p
    BY <1>1, <1>7, <2>1 DEF CleanerInv
  <2>2. ASSUME NEW x \in Cleaners, x # p, step[x] \in PastGate, job[x] = d,
               s \in PastGate
        PROVE  FALSE
    BY <2>2 DEF CleanerInv
  <2> QED BY <1>1, <1>7, <2>1, <2>2
<1> QED BY <1>2, <1>4, <1>6, <1>7 DEF CleanerInv, Closing

\* A run that moves from its step to s takes itself out of the sets of steps
\* that hold the one and not the other, and nobody else.
LEMMA AtKeep ==
    ASSUME TypeInv, NEW p \in Cleaners, NEW s, NEW d \in Downloads, d = job[p],
           CleanGoto(p, s), UNCHANGED job
    PROVE  \A e \in Downloads :
             /\ At(e, BeforeGate) /\ (e # d \/ step[p] \notin BeforeGate \/ s \in BeforeGate)
                  => At(e, BeforeGate)'
             /\ At(e, BeforeUnregister) /\ (e # d \/ step[p] \notin BeforeUnregister \/ s \in BeforeUnregister)
                  => At(e, BeforeUnregister)'
             /\ At(e, BeforeDisconnect) /\ (e # d \/ step[p] \notin BeforeDisconnect \/ s \in BeforeDisconnect)
                  => At(e, BeforeDisconnect)'
             /\ At(e, BeforeClose) /\ (e # d \/ step[p] \notin BeforeClose \/ s \in BeforeClose)
                  => At(e, BeforeClose)'
             /\ At(e, BeforeTerminate) /\ (e # d \/ step[p] \notin BeforeTerminate \/ s \in BeforeTerminate)
                  => At(e, BeforeTerminate)'
<1>1. \A e \in Downloads :
        At(e, BeforeGate) /\ (e # d \/ step[p] \notin BeforeGate \/ s \in BeforeGate)
          => At(e, BeforeGate)'
  BY AtMove
<1>2. \A e \in Downloads :
        At(e, BeforeUnregister) /\ (e # d \/ step[p] \notin BeforeUnregister \/ s \in BeforeUnregister)
          => At(e, BeforeUnregister)'
  BY AtMove
<1>3. \A e \in Downloads :
        At(e, BeforeDisconnect) /\ (e # d \/ step[p] \notin BeforeDisconnect \/ s \in BeforeDisconnect)
          => At(e, BeforeDisconnect)'
  BY AtMove
<1>4. \A e \in Downloads :
        At(e, BeforeClose) /\ (e # d \/ step[p] \notin BeforeClose \/ s \in BeforeClose)
          => At(e, BeforeClose)'
  BY AtMove
<1>5. \A e \in Downloads :
        At(e, BeforeTerminate) /\ (e # d \/ step[p] \notin BeforeTerminate \/ s \in BeforeTerminate)
          => At(e, BeforeTerminate)'
  BY AtMove
<1> QED BY <1>1, <1>2, <1>3, <1>4, <1>5

\* The lookup finds the cluster as long as the gate has not been passed.
LEMMA CleanupLookupPreserves ==
    ASSUME TypeInv, TypeInv', IInv, NEW p \in Cleaners, CleanupLookup(p)
    PROVE  IInv'
<1> USE DEF IInv, TypeInv, TokenInv, JobInv, TypeOK, SessionTypeOK,
        sessionVars, registryVars, clusterVars, httpVars, wsVars
<1>d. PICK d \in Downloads : d = job[p]
  BY DEF CleanupLookup
<1>s. PICK s : s = IF d \in downloadClusters THEN "gate" ELSE "idle"
  OBVIOUS
<1>1. /\ step[p] = "lookup" /\ CleanGoto(p, s) /\ d = job[p]
      /\ UNCHANGED <<sessionVars, registryVars, clusterVars, httpVars, wsVars,
                     job, started>>
  BY <1>d, <1>s DEF CleanupLookup
<1>2. \A e \in Downloads :
        /\ At(e, BeforeGate) => At(e, BeforeGate)' \/ (e = d /\ s = "idle")
        /\ At(e, BeforeUnregister) => At(e, BeforeUnregister)'
        /\ At(e, BeforeDisconnect) => At(e, BeforeDisconnect)'
        /\ At(e, BeforeClose) => At(e, BeforeClose)'
        /\ At(e, BeforeTerminate) => At(e, BeforeTerminate)'
  BY <1>1, <1>s, AtKeep DEF BeforeGate, BeforeUnregister, BeforeDisconnect,
     BeforeClose, BeforeTerminate
<1>c. \A e \in Downloads : (Closing(e)' <=> Closing(e)) /\ (Open(e)' <=> Open(e))
  BY <1>1 DEF Closing, Open
<1>q. \A e \in Downloads : Requested(e)' <=> Requested(e)
  BY <1>1, SameQueue
<1>3. RegistryInv'
  BY <1>1, <1>2, <1>c DEF RegistryInv
<1>4. HandlerInv'
  BY <1>1, HandlerMove
<1>5. CleanerInv'
  BY <1>1, <1>s, <1>c, CleanerMove DEF PastGate
<1>6. ReleaseInv'
  BY <1>1, <1>2, <1>s, <1>c, <1>q DEF ReleaseInv, RegistryInv
<1>7. UnmapInv'
  <2>1. \A b \in connMap : b \in Conns /\ token[b] \in Downloads
    BY DEF HandlerInv
  <2> QED BY <1>1, <1>2, <1>c, <2>1 DEF UnmapInv
<1> QED BY <1>1, <1>3, <1>4, <1>5, <1>6, <1>7, Frames

\* The gate: the run that removes the entry is the one that goes on.
LEMMA CleanupGatePreserves ==
    ASSUME TypeInv, TypeInv', IInv, NEW p \in Cleaners, CleanupGate(p)
    PROVE  IInv'
<1> USE DEF IInv, TypeInv, TokenInv, JobInv, TypeOK, SessionTypeOK,
        sessionVars, registryVars, clusterVars, httpVars, wsVars
<1>d. PICK d \in Downloads : d = job[p]
  BY DEF CleanupGate
<1>s. PICK s : s = IF d \in downloadMap THEN "unregister" ELSE "idle"
  OBVIOUS
<1>1. /\ step[p] = "gate" /\ CleanGoto(p, s) /\ d = job[p]
      /\ downloadMap' = downloadMap \ {d}
      /\ UNCHANGED <<sessionVars, downloadClusters, connMap, clusterVars,
                     httpVars, wsVars, job, started>>
  BY <1>d, <1>s DEF CleanupGate
<1>2. \A e \in Downloads :
        /\ At(e, BeforeGate) => At(e, BeforeGate)' \/ e = d
        /\ At(e, BeforeUnregister) => At(e, BeforeUnregister)'
        /\ At(e, BeforeDisconnect) => At(e, BeforeDisconnect)'
        /\ At(e, BeforeClose) => At(e, BeforeClose)'
        /\ At(e, BeforeTerminate) => At(e, BeforeTerminate)'
  BY <1>1, <1>s, AtKeep DEF BeforeGate, BeforeUnregister, BeforeDisconnect,
     BeforeClose, BeforeTerminate
<1>3. d \in downloadMap =>
        /\ At(d, BeforeUnregister)' /\ At(d, BeforeDisconnect)'
        /\ At(d, BeforeClose)' /\ At(d, BeforeTerminate)'
  <2> SUFFICES ASSUME d \in downloadMap PROVE step'[p] = "unregister" /\ job'[p] = d
    BY DEF At, BeforeUnregister, BeforeDisconnect, BeforeClose, BeforeTerminate
  <2> QED BY <1>1, <1>s DEF CleanGoto
<1>c. \A e \in Downloads : (Closing(e)' <=> Closing(e)) /\ (Open(e)' <=> Open(e))
  BY <1>1 DEF Closing, Open
<1>q. \A e \in Downloads : Requested(e)' <=> Requested(e)
  BY <1>1, SameQueue
<1>u. \A b \in connMap : b \in Conns /\ token[b] \in Downloads
  BY DEF HandlerInv
<1>k. Closing(d)
  BY <1>1 DEF CleanerInv
<1>4. HttpInv'
  BY <1>1, <1>c DEF HttpInv
<1>5. RegistryInv'
  BY <1>1, <1>2, <1>3, <1>c, <1>k DEF RegistryInv, Open, Closing
<1>6. HandlerInv'
  BY <1>1, HandlerMove
<1>7. CleanerInv'
  <2>1. CASE d \in downloadMap
    <3>1. s = "unregister" /\ d \in downloadClusters'
      BY <1>1, <1>s, <2>1 DEF RegistryInv
    <3> QED BY <1>1, <1>c, <2>1, <3>1, CleanerMove DEF PastGate
  <2>2. CASE d \notin downloadMap
    <3>1. s = "idle" /\ downloadMap' = downloadMap
      BY <1>1, <1>s, <2>2
    <3> QED BY <1>1, <1>c, <3>1, CleanerMove DEF PastGate
  <2> QED BY <2>1, <2>2
<1>8. ReleaseInv'
  BY <1>1, <1>2, <1>3, <1>c, <1>q DEF ReleaseInv
<1>9. UnmapInv'
  BY <1>1, <1>2, <1>3, <1>c, <1>u DEF UnmapInv
<1> QED BY <1>1, <1>4, <1>5, <1>6, <1>7, <1>8, <1>9, Frames

\* The owner of the cleanup takes the cluster out and logs the start.
LEMMA CleanupUnregisterPreserves ==
    ASSUME TypeInv, TypeInv', IInv, NEW p \in Cleaners, CleanupUnregister(p)
    PROVE  IInv'
<1> USE DEF IInv, TypeInv, TokenInv, JobInv, TypeOK, SessionTypeOK,
        sessionVars, registryVars, clusterVars, httpVars, wsVars
<1>d. PICK d \in Downloads : d = job[p]
  BY DEF CleanupUnregister
<1>s. PICK s : s = IF connection[d] = NoConn THEN "detach" ELSE "disconnect"
  OBVIOUS
<1>1. /\ step[p] = "unregister" /\ CleanGoto(p, s) /\ d = job[p]
      /\ downloadClusters' = downloadClusters \ {d}
      /\ started' = [started EXCEPT ![d] = @ + 1]
      /\ UNCHANGED <<sessionVars, downloadMap, connMap, clusterVars,
                     httpVars, wsVars, job>>
  BY <1>d, <1>s DEF CleanupUnregister
<1>k. Closing(d) /\ d \notin downloadMap /\ d \in downloadClusters
  BY <1>1 DEF CleanerInv, PastGate
<1>2. \A e \in Downloads :
        /\ At(e, BeforeGate) => At(e, BeforeGate)'
        /\ At(e, BeforeUnregister) => At(e, BeforeUnregister)' \/ e = d
        /\ At(e, BeforeDisconnect) =>
             At(e, BeforeDisconnect)' \/ (e = d /\ s = "detach")
        /\ At(e, BeforeClose) => At(e, BeforeClose)' \/ (e = d /\ s = "detach")
        /\ At(e, BeforeTerminate) => At(e, BeforeTerminate)'
  BY <1>1, <1>s, AtKeep DEF BeforeGate, BeforeUnregister, BeforeDisconnect,
     BeforeClose, BeforeTerminate
<1>c. \A e \in Downloads : (Closing(e)' <=> Closing(e)) /\ (Open(e)' <=> Open(e))
  BY <1>1 DEF Closing, Open
<1>q. \A e \in Downloads : Requested(e)' <=> Requested(e)
  BY <1>1, SameQueue
<1>u. \A b \in connMap : b \in Conns /\ token[b] \in Downloads
  BY DEF HandlerInv
<1>n. s = "detach" => sender[d] = NoConn /\ \A b \in connMap : token[b] # d
  BY <1>s, <1>u, NoConnAssumption DEF BoundInv, HandlerInv
<1>4. HttpInv'
  BY <1>1, <1>c, <1>k DEF HttpInv, Closing
<1>5. RegistryInv'
  <2>1. started[d] = 0 /\ started'[d] = 1
    BY <1>1, <1>k DEF RegistryInv
  <2>2. \A e \in Downloads : e # d => started'[e] = started[e]
    BY <1>1
  <2> QED BY <1>1, <1>2, <1>c, <1>k, <2>1, <2>2 DEF RegistryInv
<1>6. HandlerInv'
  BY <1>1, HandlerMove
<1>7. CleanerInv'
  BY <1>1, <1>s, <1>k, <1>c, CleanerMove DEF PastGate
<1>8. ReleaseInv'
  BY <1>1, <1>2, <1>c, <1>q, <1>n DEF ReleaseInv
<1>9. UnmapInv'
  BY <1>1, <1>2, <1>c, <1>u, <1>n DEF UnmapInv
<1> QED BY <1>1, <1>4, <1>5, <1>6, <1>7, <1>8, <1>9, Frames

\* The connection of the request leaves connection_map.
LEMMA CleanupDisconnectPreserves ==
    ASSUME TypeInv, TypeInv', IInv, NEW p \in Cleaners, CleanupDisconnect(p)
    PROVE  IInv'
<1> USE DEF IInv, TypeInv, TokenInv, JobInv, TypeOK, SessionTypeOK,
        sessionVars, registryVars, clusterVars, httpVars, wsVars
<1>d. PICK d \in Downloads : d = job[p]
  BY DEF CleanupDisconnect
<1>1. /\ step[p] = "disconnect" /\ CleanGoto(p, "close") /\ d = job[p]
      /\ connMap' = connMap \ {connection[d]}
      /\ UNCHANGED <<sessionVars, downloadMap, downloadClusters, clusterVars,
                     httpVars, wsVars, job, started>>
  BY <1>d DEF CleanupDisconnect
<1>k. /\ Closing(d) /\ d \notin downloadMap /\ d \notin downloadClusters
      /\ connection[d] # NoConn
  BY <1>1 DEF CleanerInv, PastGate
<1>2. \A e \in Downloads :
        /\ At(e, BeforeGate) => At(e, BeforeGate)'
        /\ At(e, BeforeUnregister) => At(e, BeforeUnregister)'
        /\ At(e, BeforeDisconnect) => At(e, BeforeDisconnect)' \/ e = d
        /\ At(e, BeforeClose) => At(e, BeforeClose)'
        /\ At(e, BeforeTerminate) => At(e, BeforeTerminate)'
  BY <1>1, AtKeep DEF BeforeGate, BeforeUnregister, BeforeDisconnect,
     BeforeClose, BeforeTerminate
<1>c. \A e \in Downloads : (Closing(e)' <=> Closing(e)) /\ (Open(e)' <=> Open(e))
  BY <1>1 DEF Closing, Open
<1>q. \A e \in Downloads : Requested(e)' <=> Requested(e)
  BY <1>1, SameQueue
<1>u. \A b \in connMap : b \in Conns /\ token[b] \in Downloads
  BY DEF HandlerInv
<1>5. RegistryInv'
  BY <1>1, <1>2, <1>c DEF RegistryInv
<1>6. HandlerInv'
  BY <1>1, HandlerMove
<1>w. WiredInv'
  <2>1. ASSUME NEW b \in Conns, IsConnected(token[b], b) PROVE b # connection[d]
    BY <2>1, <1>k DEF IsConnected, HandlerInv, Closing
  <2> QED BY <1>1, <2>1 DEF WiredInv, IsConnected
<1>7. CleanerInv'
  BY <1>1, <1>k, <1>c, CleanerMove DEF PastGate
<1>8. ReleaseInv'
  BY <1>1, <1>2, <1>c, <1>q DEF ReleaseInv
<1>9. UnmapInv'
  <2>1. \A b \in connMap' : b \in connMap /\ token[b] # d
    BY <1>1, <1>u DEF HandlerInv
  <2> QED BY <1>1, <1>2, <1>c, <1>u, <2>1 DEF UnmapInv
<1> QED BY <1>1, <1>5, <1>6, <1>w, <1>7, <1>8, <1>9, Frames

\* Cluster::close: the accepted handler gets its Close frame as it loses the
\* watch channel.
LEMMA CleanupClosePreserves ==
    ASSUME TypeInv, TypeInv', IInv, NEW p \in Cleaners, CleanupClose(p)
    PROVE  IInv'
<1> USE DEF IInv, TypeInv, TokenInv, JobInv, TypeOK, SessionTypeOK,
        sessionVars, registryVars, clusterVars, httpVars, wsVars
<1>d. PICK d \in Downloads : d = job[p]
  BY DEF CleanupClose
<1>1. /\ step[p] = "close" /\ CleanGoto(p, "terminate") /\ d = job[p]
      /\ sender' = [sender EXCEPT ![d] = NoConn]
      /\ UNCHANGED <<sessionVars, registryVars, tasks, httpVars, ws, token,
                     job, started>>
  BY <1>d DEF CleanupClose
<1>f. /\ closeFrame' \in [Conns -> {"none", "queued", "sent", "failed"}]
      /\ \A b \in Conns : closeFrame'[b] = "none" => closeFrame[b] = "none"
      /\ \A b \in Conns : b = sender[d] => closeFrame'[b] # "none"
  BY <1>d, NoConnAssumption DEF CleanupClose
<1>k. /\ Closing(d) /\ d \notin downloadMap /\ d \notin downloadClusters
  BY <1>1 DEF CleanerInv, PastGate
<1>2. \A e \in Downloads :
        /\ At(e, BeforeGate) => At(e, BeforeGate)'
        /\ At(e, BeforeUnregister) => At(e, BeforeUnregister)'
        /\ At(e, BeforeDisconnect) => At(e, BeforeDisconnect)'
        /\ At(e, BeforeClose) => At(e, BeforeClose)' \/ e = d
        /\ At(e, BeforeTerminate) => At(e, BeforeTerminate)'
  BY <1>1, AtKeep DEF BeforeGate, BeforeUnregister, BeforeDisconnect,
     BeforeClose, BeforeTerminate
<1>c. \A e \in Downloads : (Closing(e)' <=> Closing(e)) /\ (Open(e)' <=> Open(e))
  BY <1>1 DEF Closing, Open
<1>q. \A e \in Downloads : Requested(e)' <=> Requested(e)
  BY <1>1, SameQueue
<1>u. \A b \in connMap : b \in Conns /\ token[b] \in Downloads
  BY DEF HandlerInv
<1>3. BoundInv'
  BY <1>1 DEF BoundInv
<1>5. RegistryInv'
  BY <1>1, <1>2, <1>c DEF RegistryInv
<1>6. HandlerInv'
  BY <1>1, HandlerMove
<1>w. WiredInv'
  <2> SUFFICES ASSUME NEW b \in Conns, ws[b] # "idle"
               PROVE (LET e == token[b] IN
                 /\ ws[b] \in {"wired", "checked", "mapped", "accepted", "reading"}
                    /\ IsConnected(e, b) => sender[e] = b
                 /\ ws[b] \in {"mapped", "accepted", "reading"} /\ IsConnected(e, b)
                       => b \in connMap
                 /\ ws[b] \in {"accepted", "reading"} /\ closeFrame[b] = "none"
                       => sender[e] = b)'
    BY <1>1 DEF WiredInv
  <2>1. token[b] = d => ~IsConnected(d, b)
    BY <1>k DEF IsConnected, Closing
  <2>2. token[b] \in Downloads /\ token' = token /\ ws' = ws
    BY <1>1
  <2> QED BY <1>1, <1>f, <2>1, <2>2 DEF WiredInv, IsConnected
<1>7. CleanerInv'
  BY <1>1, <1>k, <1>c, CleanerMove DEF PastGate
<1>8. ReleaseInv'
  BY <1>1, <1>2, <1>c, <1>q DEF ReleaseInv
<1>9. UnmapInv'
  BY <1>1, <1>2, <1>c, <1>u DEF UnmapInv
<1> QED BY <1>1, <1>3, <1>5, <1>6, <1>w, <1>7, <1>8, <1>9, Frames

\* Without a connection there is nothing to detach.
LEMMA CleanupDetachPreserves ==
    ASSUME TypeInv, TypeInv', IInv, NEW p \in Cleaners, CleanupDetach(p)
    PROVE  IInv'
<1> USE DEF IInv, TypeInv, TokenInv, JobInv, TypeOK, SessionTypeOK,
        sessionVars, registryVars, clusterVars, httpVars, wsVars
<1>d. PICK d \in Downloads : d = job[p]
  BY DEF CleanupDetach
<1>k. /\ Closing(d) /\ d \notin downloadMap /\ d \notin downloadClusters
      /\ connection[d] = NoConn
  BY <1>d DEF CleanupDetach, CleanerInv, PastGate
<1>n. sender[d] = NoConn
  BY <1>k DEF BoundInv
<1>1. /\ step[p] = "detach" /\ CleanGoto(p, "terminate") /\ d = job[p]
      /\ sender' = sender
      /\ UNCHANGED <<sessionVars, registryVars, tasks, httpVars, wsVars,
                     job, started>>
  BY <1>d, <1>n DEF CleanupDetach
<1>2. \A e \in Downloads :
        /\ At(e, BeforeGate) => At(e, BeforeGate)'
        /\ At(e, BeforeUnregister) => At(e, BeforeUnregister)'
        /\ At(e, BeforeDisconnect) => At(e, BeforeDisconnect)'
        /\ At(e, BeforeClose) => At(e, BeforeClose)'
        /\ At(e, BeforeTerminate) => At(e, BeforeTerminate)'
  BY <1>1, AtKeep DEF BeforeGate, BeforeUnregister, BeforeDisconnect,
     BeforeClose, BeforeTerminate
<1>c. \A e \in Downloads : (Closing(e)' <=> Closing(e)) /\ (Open(e)' <=> Open(e))
  BY <1>1 DEF Closing, Open
<1>q. \A e \in Downloads : Requested(e)' <=> Requested(e)
  BY <1>1, SameQueue
<1>u. \A b \in connMap : b \in Conns /\ token[b] \in Downloads
  BY DEF HandlerInv
<1>5. RegistryInv'
  BY <1>1, <1>2, <1>c DEF RegistryInv
<1>6. HandlerInv'
  BY <1>1, HandlerMove
<1>7. CleanerInv'
  BY <1>1, <1>k, <1>c, CleanerMove DEF PastGate
<1>8. ReleaseInv'
  BY <1>1, <1>2, <1>c, <1>q DEF ReleaseInv
<1>9. UnmapInv'
  BY <1>1, <1>2, <1>c, <1>u DEF UnmapInv
<1> QED BY <1>1, <1>5, <1>6, <1>7, <1>8, <1>9, Frames

\* The tasks end before the run does.
LEMMA CleanupTerminatePreserves ==
    ASSUME TypeInv, TypeInv', IInv, NEW p \in Cleaners, CleanupTerminate(p)
    PROVE  IInv'
<1> USE DEF IInv, TypeInv, TokenInv, JobInv, TypeOK, SessionTypeOK,
        sessionVars, registryVars, clusterVars, httpVars, wsVars
<1>d. PICK d \in Downloads : d = job[p]
  BY DEF CleanupTerminate
<1>s. PICK s : s = IF connection[d] = NoConn THEN "complete" ELSE "idle"
  OBVIOUS
<1>1. /\ step[p] = "terminate" /\ CleanGoto(p, s) /\ d = job[p]
      /\ tasks' = [tasks EXCEPT ![d] = "terminated"]
      /\ UNCHANGED <<sessionVars, registryVars, sender, httpVars, wsVars, job,
                     started>>
  BY <1>d, <1>s DEF CleanupTerminate
<1>k. Closing(d) /\ d \notin downloadMap /\ d \notin downloadClusters
  BY <1>1 DEF CleanerInv, PastGate
<1>2. \A e \in Downloads :
        /\ At(e, BeforeGate) => At(e, BeforeGate)'
        /\ At(e, BeforeUnregister) => At(e, BeforeUnregister)'
        /\ At(e, BeforeDisconnect) => At(e, BeforeDisconnect)'
        /\ At(e, BeforeClose) => At(e, BeforeClose)'
        /\ At(e, BeforeTerminate) => At(e, BeforeTerminate)' \/ e = d
  BY <1>1, AtKeep DEF BeforeGate, BeforeUnregister, BeforeDisconnect,
     BeforeClose, BeforeTerminate
<1>c. \A e \in Downloads : (Closing(e)' <=> Closing(e)) /\ (Open(e)' <=> Open(e))
  BY <1>1 DEF Closing, Open
<1>q. \A e \in Downloads : Requested(e)' <=> Requested(e)
  BY <1>1, SameQueue
<1>u. \A b \in connMap : b \in Conns /\ token[b] \in Downloads
  BY DEF HandlerInv
<1>5. RegistryInv'
  BY <1>1, <1>2, <1>c DEF RegistryInv
<1>6. HandlerInv'
  BY <1>1, HandlerMove
<1>7. CleanerInv'
  BY <1>1, <1>s, <1>k, <1>c, CleanerMove DEF PastGate
<1>8. ReleaseInv'
  BY <1>1, <1>2, <1>c, <1>q DEF ReleaseInv
<1>9. UnmapInv'
  BY <1>1, <1>2, <1>c, <1>u DEF UnmapInv
<1> QED BY <1>1, <1>5, <1>6, <1>7, <1>8, <1>9, Frames

\* A session without connection is completed by its cleanup.
LEMMA CleanupCompletePreserves ==
    ASSUME TypeInv, TypeInv', IInv, NEW p \in Cleaners, CleanupComplete(p)
    PROVE  IInv'
<1> USE DEF IInv, TypeInv, TokenInv, JobInv, TypeOK, SessionTypeOK,
        sessionVars, registryVars, clusterVars, httpVars, wsVars
<1>d. PICK d \in Downloads : d = job[p]
  BY DEF CleanupComplete
<1>1. /\ step[p] = "complete" /\ CleanGoto(p, "idle") /\ d = job[p]
      /\ UNCHANGED <<registryVars, clusterVars, httpVars, wsVars, job, started>>
  BY <1>d DEF CleanupComplete
<1>k. Closing(d) /\ d \notin downloadMap /\ d \notin downloadClusters
  BY <1>1 DEF CleanerInv, PastGate
<1>e. Completes
  BY <1>d, CompleteEffect DEF CleanupComplete
<1>2. \A e \in Downloads :
        /\ At(e, BeforeGate) => At(e, BeforeGate)'
        /\ At(e, BeforeUnregister) => At(e, BeforeUnregister)'
        /\ At(e, BeforeDisconnect) => At(e, BeforeDisconnect)'
        /\ At(e, BeforeClose) => At(e, BeforeClose)'
        /\ At(e, BeforeTerminate) => At(e, BeforeTerminate)'
  BY <1>1, AtKeep DEF BeforeGate, BeforeUnregister, BeforeDisconnect,
     BeforeClose, BeforeTerminate
<1>c. \A e \in Downloads : (Closing(e)' <=> Closing(e)) /\ (Open(e)' <=> Open(e))
  BY <1>e, CompletesClosing
<1>q. \A e \in Downloads : Requested(e)' <=> Requested(e)
  BY <1>e, CompletesClosing
<1>u. \A b \in connMap : b \in Conns /\ token[b] \in Downloads
  BY DEF HandlerInv
<1>a. connection' = connection /\ cleanups' = cleanups
  BY <1>e DEF Completes
<1>3. BoundInv'
  BY <1>1, <1>e, CompletesClosing DEF BoundInv, Completes
<1>4. HttpInv'
  BY <1>1, <1>e, <1>c, CompletesClosing DEF HttpInv
<1>5. RegistryInv'
  BY <1>1, <1>2, <1>e, <1>c, CompletesClosing DEF RegistryInv
<1>6. HandlerInv'
  BY <1>1, <1>a, HandlerMove
<1>w. WiredInv'
  BY <1>1, <1>e, CompletesClosing DEF WiredInv, IsConnected, Completes
<1>7. CleanerInv'
  BY <1>1, <1>a, <1>k, <1>c, CleanerMove DEF PastGate
<1>8. ReleaseInv'
  BY <1>1, <1>2, <1>c, <1>q DEF ReleaseInv
<1>9. UnmapInv'
  BY <1>1, <1>2, <1>c, <1>u DEF UnmapInv
<1> QED BY <1>1, <1>3, <1>4, <1>5, <1>6, <1>w, <1>7, <1>8, <1>9

\* The steps of the shutdown futures that only move the futures themselves.
LEMMA ShutdownMovePreserves ==
    ASSUME TypeInv, TypeInv', IInv, NEW a \in Arms,
           BeginShutdown(a) \/ BeginSweep(a) \/ BeginDrain(a) \/ DrainDeadline(a)
    PROVE  IInv'
<1>1. UNCHANGED <<sessionVars, registryVars, clusterVars, httpVars, wsVars,
                  cleanupVars>>
  BY DEF BeginShutdown, BeginSweep, BeginDrain, DrainDeadline
<1> QED BY <1>1, Frames DEF IInv, sessionVars, registryVars, clusterVars,
           httpVars, wsVars, cleanupVars

\* TriggerNext keeps the inductive invariant.
LEMMA TriggerNextPreserves ==
    ASSUME TypeInv, TypeInv', IInv, NEW a \in Arms, NEW d \in Downloads,
           TriggerNext(a, d)
    PROVE  IInv'
<1> USE DEF IInv, TypeInv, TypeOK, SessionTypeOK, registryVars, clusterVars,
        httpVars, wsVars, cleanupVars
<1>1. Fires(d, Open(d))
  BY TriggerEffect DEF TriggerNext
<1>2. /\ d \in downloadMap /\ Open(d) \in BOOLEAN
      /\ UNCHANGED <<registryVars, clusterVars, httpVars, wsVars, cleanupVars>>
  BY DEF TriggerNext, Open
<1>3. /\ BoundInv' /\ HandlerInv' /\ WiredInv' /\ CleanerInv'
      /\ ReleaseInv' /\ UnmapInv'
  BY <1>1, <1>2, FiresPreserves
<1>4. \A e \in Downloads : state'[e] = IF e = d /\ Open(d) THEN "Closing"
                                                          ELSE state[e]
  BY <1>1 DEF Fires
<1>5. HttpInv'
  BY <1>2, <1>4 DEF HttpInv, Open
<1>6. RegistryInv'
  BY <1>2, <1>4, AtSame DEF RegistryInv, Open, Closing
<1> QED BY <1>3, <1>5, <1>6

\* DrainNext keeps the inductive invariant.
LEMMA DrainNextPreserves ==
    ASSUME TypeInv, TypeInv', IInv, NEW a \in Arms, NEW d \in Downloads,
           DrainNext(a, d)
    PROVE  IInv'
<1> USE DEF IInv, TypeInv, TypeOK, sessionVars, registryVars, clusterVars,
        httpVars, wsVars, cleanupVars
<1>1. /\ tasks' = [tasks EXCEPT ![d] = "terminated"]
      /\ UNCHANGED <<sessionVars, registryVars, sender, httpVars, wsVars,
                     cleanupVars>>
  BY DEF DrainNext
<1>2. ReleaseInv'
  BY <1>1, Undisturbed DEF ReleaseInv
<1> QED BY <1>1, <1>2, Frames

-----------------------------------------------------------------------------
(* The invariant is inductive                                              *)

\* The initial state satisfies the inductive invariant.
LEMMA IInvInit == Init => IInv
<1> SUFFICES ASSUME Init PROVE IInv
  OBVIOUS
<1> USE DEF Init, SessionInit
<1>1. HttpInv
  BY DEF HttpInv
<1>2. RegistryInv
  BY DEF RegistryInv, Open, Closing
<1>3. BoundInv
  BY DEF BoundInv
<1>4. HandlerInv
  BY NoConnAssumption DEF HandlerInv, Cleaners
<1>5. WiredInv
  BY DEF WiredInv
<1>6. CleanerInv
  BY DEF CleanerInv, Requested, PastGate
<1>7. ReleaseInv
  BY DEF ReleaseInv, Closing
<1>8. UnmapInv
  BY DEF UnmapInv
<1> QED BY <1>1, <1>2, <1>3, <1>4, <1>5, <1>6, <1>7, <1>8 DEF IInv

\* Every step keeps the inductive invariant.
LEMMA IInvStep == TypeInv /\ IInv /\ [Next]_vars => IInv'
<1> SUFFICES ASSUME TypeInv, IInv, [Next]_vars PROVE IInv'
  OBVIOUS
<1>t. TypeInv'
  BY TypeStep
<1>1. ASSUME NEW d \in Downloads,
             HttpEnter(d) \/ HttpStep(d) \/ DropHandler(d) \/ DropBody(d)
      PROVE  IInv'
  BY <1>t, <1>1, HttpEnterPreserves, ArmGuardPreserves, DropBodyPreserves,
     RegisterClusterPreserves, PublishSessionPreserves, CreateSessionPreserves,
     AskRemotePreserves, LookupTransferPreserves, WaitTimeoutPreserves,
     WaitReadyPreserves, StreamEndPreserves, DropHandlerPreserves
     DEF HttpStep
<1>2. ASSUME NEW c \in Conns, NEW d \in Downloads, Connect(c, d)
      PROVE  IInv'
  BY <1>t, <1>2, ConnectPreserves
<1>3. ASSUME NEW c \in Conns, WsStep(c) \/ ReceiveFile(c) \/ PeerLeaves(c)
      PROVE  IInv'
  BY <1>t, <1>3, AdmitCheckPreserves, AdmitBindPreserves, AdmitLookupPreserves,
     AdmitInstallPreserves, AdmitRecheckPreserves, AdmitInsertPreserves,
     AdmitAcceptPreserves, RetainSessionPreserves, ForwardClosePreserves,
     EnterGracePreserves, CleaningDonePreserves, HandlerExitPreserves,
     ReceiveFilePreserves, LeavePreserves
     DEF WsStep
<1>4. CASE WorkerTake
  BY <1>t, <1>4, WorkerTakePreserves
<1>5. ASSUME NEW p \in Cleaners, CleanupStep(p) PROVE IInv'
  BY <1>t, <1>5, CleanupLookupPreserves, CleanupGatePreserves,
     CleanupUnregisterPreserves, CleanupDisconnectPreserves,
     CleanupClosePreserves, CleanupDetachPreserves, CleanupTerminatePreserves,
     CleanupCompletePreserves
     DEF CleanupStep
<1>6. ASSUME NEW a \in Arms, BeginShutdown(a) \/ ShutdownStep(a) PROVE IInv'
  BY <1>t, <1>6, ShutdownMovePreserves, TriggerNextPreserves,
     DrainNextPreserves DEF ShutdownStep
<1>7. CASE UNCHANGED vars
  BY <1>7, Frames DEF IInv, vars, sessionVars, registryVars, clusterVars,
     httpVars, wsVars, cleanupVars
<1> QED BY <1>1, <1>2, <1>3, <1>4, <1>5, <1>6, <1>7 DEF Next

\* The strengthened invariant holds of every behaviour: at every moment,
\* whatever a closing session still has registered, some request, some run of
\* cleanup_file_download or some admission is about to release.
THEOREM Inductive == Spec => [](TypeInv /\ IInv)
  BY TypeInit, TypeStep, IInvInit, IInvStep, PTL DEF Spec

-----------------------------------------------------------------------------
(* What follows from it                                                    *)

\* Nobody is about to do anything for a settled download.
LEMMA SettledMeans ==
    ASSUME TypeInv, NEW d \in Downloads, Settled(d)
    PROVE  /\ ~Requested(d)
           /\ ~At(d, BeforeGate) /\ ~At(d, BeforeUnregister)
           /\ ~At(d, BeforeDisconnect) /\ ~At(d, BeforeClose)
           /\ ~At(d, BeforeTerminate)
<1>1. cleanups \in Seq(Downloads)
  BY DEF TypeInv, TypeOK, SessionTypeOK
<1>2. DOMAIN cleanups = 1..Len(cleanups)
  BY <1>1
<1>3. ~Requested(d)
  BY <1>2 DEF Settled, Requested
<1> QED
  BY <1>3 DEF Settled, At, BeforeGate, BeforeUnregister, BeforeDisconnect,
     BeforeClose, BeforeTerminate

\* A session nobody works on any more has left nothing behind.
LEMMA SettledReleased ==
    ASSUME TypeInv, IInv, NEW d \in Downloads, Closing(d), Settled(d)
    PROVE  Released(d) /\ started[d] = 1
<1> USE DEF IInv
<1>s. /\ ~Requested(d) /\ ~At(d, BeforeGate) /\ ~At(d, BeforeUnregister)
      /\ ~At(d, BeforeDisconnect) /\ ~At(d, BeforeClose)
      /\ ~At(d, BeforeTerminate)
  BY SettledMeans
<1>a. \A c \in Conns : token[c] = d => ws[c] \notin {"wired", "checked", "mapped"}
  BY DEF Settled, Admitting
<1>1. d \notin downloadMap
  BY <1>s DEF ReleaseInv
<1>2. d \notin downloadClusters
  BY <1>s, <1>1 DEF RegistryInv, HttpInv, Closing
<1>3. \A c \in connMap : token[c] # d
  BY <1>s, <1>a, <1>1 DEF UnmapInv, TypeInv, TypeOK
<1>4. sender[d] = NoConn
  <2>1. ASSUME sender[d] # NoConn PROVE FALSE
    <3>1. sender[d] \in Conns /\ token[sender[d]] = d
      BY <2>1 DEF BoundInv, HandlerInv, TypeInv, TypeOK
    <3> QED BY <1>s, <1>a, <1>1, <2>1, <3>1 DEF ReleaseInv
  <2> QED BY <2>1
<1>5. tasks[d] = "terminated"
  BY <1>s, <1>1 DEF ReleaseInv
<1>6. started[d] = 1
  BY <1>2 DEF RegistryInv
<1> QED BY <1>1, <1>2, <1>3, <1>4, <1>5, <1>6 DEF Released

\* Nothing is left behind of a session whose shutdown was requested, once all
\* work on it is over: cleanup_file_download and the two rechecks of
\* handle_new_connection, for any number of downloads and connections.
THEOREM NoLeak == Spec => []NothingLeftBehind
<1>1. TypeInv /\ IInv => NothingLeftBehind
  BY SettledReleased DEF NothingLeftBehind, Closing
<1> QED BY <1>1, Inductive, PTL

\* The worker and remove_connection never both carry out the shutdown of a
\* session, and one of them does.
THEOREM OneShutdown == Spec => []ShutdownStartedOnce
<1>1. ASSUME TypeInv, IInv PROVE ShutdownStartedOnce
  <2>1. ASSUME NEW d \in Downloads PROVE started[d] <= 1
    <3>1. started[d] = 0 \/ started[d] = 1
      BY <1>1 DEF IInv, RegistryInv
    <3> QED BY <3>1
  <2> QED BY <1>1, <2>1, SettledReleased DEF ShutdownStartedOnce, Closing
<1> QED BY <1>1, Inductive, PTL

\* An accepted connection whose session is still Connected is wired up.
THEOREM AcceptedOwnsTransfer == Spec => []AcceptedIsWired
<1>1. ASSUME TypeInv, IInv PROVE AcceptedIsWired
  <2> SUFFICES ASSUME NEW c \in Conns, ws[c] \in {"accepted", "reading"},
                      IsConnected(token[c], c)
               PROVE  /\ token[c] \in downloadMap /\ token[c] \in downloadClusters
                      /\ c \in connMap /\ sender[token[c]] = c
    BY DEF AcceptedIsWired
  <2>1. token[c] \in Downloads /\ token[c] \in asked
    BY <1>1 DEF TypeInv, TokenInv, IInv, HandlerInv
  <2>2. token[c] \in downloadMap
    BY <1>1, <2>1 DEF IInv, RegistryInv, HttpInv, IsConnected, Open
  <2>3. c \in connMap /\ sender[token[c]] = c
    BY <1>1 DEF IInv, WiredInv
  <2> QED BY <1>1, <2>2, <2>3 DEF IInv, RegistryInv
<1> QED BY <1>1, Inductive, PTL

\* No accepted socket is stranded half-open: Cluster::close has queued its
\* Close frame by the time the cleanup of its session is over.
THEOREM SocketIsClosed == Spec => []NoStrandedSocket
<1>1. ASSUME TypeInv, IInv PROVE NoStrandedSocket
  <2> SUFFICES ASSUME NEW c \in Conns, ws[c] \in {"accepted", "reading"},
                      Closing(token[c]), Settled(token[c]),
                      closeFrame[c] = "none"
               PROVE  FALSE
    BY DEF NoStrandedSocket, Closing
  <2>1. token[c] \in Downloads
    BY <1>1 DEF TypeInv, TokenInv
  <2>2. sender[token[c]] = c
    BY <1>1 DEF IInv, WiredInv
  <2> QED BY <1>1, <2>1, <2>2, SettledReleased, NoConnAssumption DEF Released
<1> QED BY <1>1, Inductive, PTL

\* Every end of download_file that holds a trigger has shut its session down.
THEOREM GuardTriggers == Spec => []GuardedPathsTrigger
<1>1. TypeInv /\ IInv => GuardedPathsTrigger
  BY DEF IInv, HttpInv, GuardedPathsTrigger
<1> QED BY <1>1, Inductive, PTL

-----------------------------------------------------------------------------
(* The refinement of DownloadRelease                                       *)

\* Some run of cleanup_file_download works on the download.
Cleaned(d) == \E p \in Cleaners : step[p] # "idle" /\ job[p] = d

\* Some handler is being admitted to the download.
Admitted(d) == \E c \in Conns : Admitting(c) /\ token[c] = d

\* The opposite of Settled, as a disjunction of the three kinds of work.
Working(d) == Requested(d) \/ Cleaned(d) \/ Admitted(d)

\* A step leaves the download where DownloadRelease sees it.
Same(d) == state'[d] = state[d] /\ (Working(d)' <=> Working(d))

\* A step takes the download to its next phase, or leaves it in its phase.
Moves(d) ==
    \/ state[d] = "Absent" /\ state'[d] = "Pending"
    \/ Open(d) /\ Open(d)'
    \/ Open(d) /\ Closing(d)' /\ Working(d)'
    \/ Closing(d) /\ Closing(d)' /\ (Working(d)' => Working(d))

\* A step moves at most one download.
OneMoves ==
    \/ \A e \in Downloads : Same(e)
    \/ \E d \in Downloads : Moves(d) /\ \A e \in Downloads \ {d} : Same(e)

\* A download is settled when there is no work on it.
LEMMA SettledIs ==
    ASSUME TypeInv, NEW d \in Downloads
    PROVE  Settled(d) <=> ~Working(d)
<1>1. cleanups \in Seq(Downloads)
  BY DEF TypeInv, TypeOK, SessionTypeOK
<1>2. DOMAIN cleanups = 1..Len(cleanups)
  BY <1>1
<1> QED BY <1>2 DEF Settled, Working, Requested, Cleaned, Admitted

\* Steps that touch neither the sessions, the runs of cleanup nor the
\* admissions move nothing.
LEMMA QuietMoves ==
    ASSUME UNCHANGED <<state, cleanups, step, job>>,
           \A c \in Conns : Admitting(c)' <=> Admitting(c),
           \A c \in Conns : Admitting(c) => token'[c] = token[c]
    PROVE  OneMoves
<1>1. ASSUME NEW e \in Downloads PROVE Same(e)
  <2>1. Requested(e)' <=> Requested(e)
    BY SameQueue
  <2>2. Cleaned(e)' <=> Cleaned(e)
    BY DEF Cleaned
  <2>3. Admitted(e)' <=> Admitted(e)
    BY DEF Admitted
  <2> QED BY <2>1, <2>2, <2>3 DEF Same, Working
<1> QED BY <1>1 DEF OneMoves

\* A trigger moves its download, unless it is ignored.
LEMMA FiresMoves ==
    ASSUME TypeInv, NEW d \in Downloads, NEW fires \in BOOLEAN,
           Fires(d, fires), fires => Open(d),
           UNCHANGED <<step, job, ws, token>>
    PROVE  OneMoves
<1>1. \A e \in Downloads : (Cleaned(e)' <=> Cleaned(e))
                           /\ (Admitted(e)' <=> Admitted(e))
  BY DEF Cleaned, Admitted, Admitting
<1>2. \A e \in Downloads : e # d \/ ~fires => Same(e)
  BY <1>1 DEF Fires, Same, Working
<1>3. fires => Moves(d)
  BY DEF Fires, Moves, Working, Closing
<1> QED BY <1>2, <1>3 DEF OneMoves

\* A handler leaves its admission: only its own session is concerned.
LEMMA AdmissionOver ==
    ASSUME TypeInv, NEW c \in Conns, NEW w \in WsSteps, WsGoto(c, w),
           w \notin {"bound", "found", "wired", "checked", "mapped"},
           UNCHANGED token
    PROVE  \A e \in Downloads :
             /\ Admitted(e)' => Admitted(e)
             /\ e # token[c] => (Admitted(e)' <=> Admitted(e))
             /\ ~Admitting(c) => (Admitted(e)' <=> Admitted(e))
<1>1. \A k \in Conns : ws'[k] = IF k = c THEN w ELSE ws[k]
  BY DEF WsGoto, TypeInv, TypeOK
<1> QED BY <1>1 DEF Admitted, Admitting

\* The steps of download_file refine DownloadRelease.
LEMMA HttpMoves ==
    ASSUME TypeInv, IInv, NEW d \in Downloads,
           HttpEnter(d) \/ HttpStep(d) \/ DropHandler(d) \/ DropBody(d)
    PROVE  OneMoves
<1> USE DEF sessionVars, wsVars, cleanupVars
<1>1. CASE HttpEnter(d) \/ DropBody(d) \/ RegisterCluster(d)
           \/ PublishSession(d) \/ ArmGuard(d)
  BY <1>1, QuietMoves DEF HttpEnter, DropBody, RegisterCluster, PublishSession,
     ArmGuard, Admitting
<1>2. CASE CreateSession(d)
  <2>1. CASE UNCHANGED sessionVars
    BY <1>2, <2>1, QuietMoves DEF CreateSession, Admitting
  <2>2. CASE NewSession(d)
    <3>1. state[d] = "Absent"
      BY <1>2 DEF CreateSession, IInv, HttpInv
    <3>2. \A e \in Downloads :
            state'[e] = IF e = d THEN "Pending" ELSE state[e]
      BY <2>2 DEF NewSession, TypeInv, TypeOK, SessionTypeOK
    <3>3. \A e \in Downloads : Working(e)' <=> Working(e)
      BY <1>2, <2>2, SameQueue
         DEF CreateSession, NewSession, Working, Cleaned, Admitted, Admitting
    <3> QED BY <3>1, <3>2, <3>3 DEF OneMoves, Moves, Same
  <2> QED BY <1>2, <2>1, <2>2 DEF CreateSession
<1>3. ASSUME NEW r, FireGuard(d, r), UNCHANGED <<step, job, ws, token>>
      PROVE  OneMoves
  <2>1. Fires(d, armed[d] /\ Open(d))
    BY <1>3, FireGuardEffect
  <2>2. (armed[d] /\ Open(d)) \in BOOLEAN
    OBVIOUS
  <2> QED BY <1>3, <2>1, <2>2, FiresMoves
<1>4. ASSUME UNCHANGED sessionVars, UNCHANGED <<step, job, ws, token>>
      PROVE  OneMoves
  BY <1>4, QuietMoves DEF Admitting
<1>5. CASE AskRemote(d)
  BY <1>3, <1>4, <1>5 DEF AskRemote
<1>6. CASE LookupTransfer(d)
  BY <1>3, <1>4, <1>6 DEF LookupTransfer
<1>7. CASE WaitTimeout(d)
  BY <1>3, <1>7 DEF WaitTimeout
<1>8. CASE WaitReady(d)
  BY <1>3, <1>4, <1>8 DEF WaitReady
<1>9. CASE StreamEnd(d)
  BY <1>3, <1>9 DEF StreamEnd
<1>10. CASE DropHandler(d)
  BY <1>3, <1>10 DEF DropHandler
<1> QED
  BY <1>1, <1>2, <1>5, <1>6, <1>7, <1>8, <1>9, <1>10 DEF HttpStep

\* bind_connection connects a pending session, which stays live.
LEMMA AdmitBindMoves ==
    ASSUME TypeInv, NEW c \in Conns, AdmitBind(c)
    PROVE  OneMoves
<1> USE DEF sessionVars, wsVars, cleanupVars
<1>1. CASE UNCHANGED sessionVars /\ WsGoto(c, "rejected")
  BY <1>1, QuietMoves DEF AdmitBind, WsGoto, Admitting, TypeInv, TypeOK
<1>2. CASE /\ CanBind(token[c]) /\ WsGoto(c, "bound")
           /\ BindSession(token[c], c)
  <2>1. PICK d \in Downloads : d = token[c]
    BY DEF AdmitBind, TypeInv, TokenInv
  <2>2. /\ \A e \in Downloads :
             state'[e] = IF e = d THEN "Connected" ELSE state[e]
        /\ \A k \in Conns : ws'[k] = IF k = c THEN "bound" ELSE ws[k]
        /\ ws[c] = "binding"
        /\ UNCHANGED <<cleanups, step, job, token>>
    BY <1>2, <2>1 DEF AdmitBind, BindSession, WsGoto, TypeInv, TypeOK, SessionTypeOK
  <2>3. \A e \in Downloads \ {d} : Admitted(e)' <=> Admitted(e)
    BY <2>1, <2>2 DEF Admitted, Admitting
  <2>4. \A e \in Downloads \ {d} : Same(e)
    BY <2>2, <2>3, SameQueue DEF Same, Working, Cleaned
  <2>5. Moves(d)
    BY <1>2, <2>1, <2>2 DEF Moves, CanBind, Open
  <2> QED BY <2>1, <2>4, <2>5 DEF OneMoves
<1> QED BY <1>1, <1>2 DEF AdmitBind

\* An admission that fails after bind_connection triggers its session or
\* finds it triggered; one that succeeds is over.
LEMMA AdmissionMoves ==
    ASSUME TypeInv, IInv, NEW c \in Conns,
           AdmitLookup(c) \/ AdmitRecheck(c) \/ AdmitAccept(c)
    PROVE  OneMoves
<1> USE DEF sessionVars, wsVars, cleanupVars
<1>d. PICK d \in Downloads : d = token[c]
  BY DEF AdmitLookup, AdmitRecheck, AdmitAccept, TypeInv, TokenInv
<1>u. UNCHANGED <<step, job, token>>
  BY DEF AdmitLookup, AdmitRecheck, AdmitAccept
<1>s. state[d] # "Absent"
  BY <1>d, NoConnAssumption DEF IInv, HandlerInv, BoundInv, AdmitLookup,
     AdmitRecheck, AdmitAccept
<1>1. CASE UNCHANGED sessionVars
           /\ \E w \in {"found", "checked"} :
                WsGoto(c, w) /\ ws[c] \in {"bound", "wired"}
  BY <1>u, <1>1, QuietMoves DEF WsGoto, Admitting, TypeInv, TypeOK
<1>2. CASE /\ Fires(d, state'[d] # state[d])
           /\ state'[d] # state[d] => Open(d)
           /\ \E w \in {"rejected", "accepted"} : WsGoto(c, w)
  <2>1. \A e \in Downloads :
          /\ Admitted(e)' => Admitted(e)
          /\ e # d => (Admitted(e)' <=> Admitted(e))
    BY <1>d, <1>u, <1>2, AdmissionOver DEF WsSteps
  <2>2. \A e \in Downloads : Cleaned(e)' <=> Cleaned(e)
    BY <1>u DEF Cleaned
  <2>3. \A e \in Downloads \ {d} : Same(e)
    BY <1>2, <2>1, <2>2 DEF Fires, Same, Working
  <2>4. Moves(d)
    BY <1>2, <1>d, <1>s, <2>1, <2>2
       DEF Fires, Moves, Working, Closing, Open, TypeInv, TypeOK,
           SessionTypeOK, SessionStates
  <2> QED BY <1>d, <2>3, <2>4 DEF OneMoves
<1>3. ASSUME UNCHANGED sessionVars
      PROVE  /\ Fires(d, state'[d] # state[d])
             /\ state'[d] = state[d]
  BY <1>3, SameEffect DEF SessionsSame, Fires
<1>4. CASE AdmitLookup(c)
  <2>1. CASE UNCHANGED sessionVars /\ WsGoto(c, "found")
    BY <1>1, <1>4, <2>1 DEF AdmitLookup
  <2>2. CASE WsGoto(c, "rejected")
             /\ TriggerSession(d, "ClusterOffline")
    <3>1. Fires(d, Open(d))
      BY <1>d, <2>2, TriggerEffect
    <3>2. Open(d) <=> state'[d] # state[d]
      BY <1>d, <3>1 DEF Fires, Open
    <3>3. Fires(d, state'[d] # state[d])
      BY <3>1, <3>2 DEF Fires
    <3> QED BY <1>2, <2>2, <3>2, <3>3
  <2> QED BY <1>d, <1>4, <2>1, <2>2 DEF AdmitLookup
<1>5. CASE AdmitRecheck(c)
  BY <1>1, <1>2, <1>3, <1>5 DEF AdmitRecheck
<1>6. CASE AdmitAccept(c)
  BY <1>2, <1>3, <1>6 DEF AdmitAccept
<1> QED BY <1>4, <1>5, <1>6

\* The steps of a handler that concern neither its admission nor the session.
LEMMA HandlerQuietMoves ==
    ASSUME TypeInv, NEW c \in Conns,
           \/ AdmitCheck(c) \/ AdmitInstall(c) \/ AdmitInsert(c)
           \/ RetainSession(c) \/ ReceiveFile(c) \/ ForwardClose(c)
           \/ EnterGrace(c) \/ CleaningDone(c)
    PROVE  OneMoves
<1> USE DEF sessionVars, wsVars, cleanupVars
<1>1. UNCHANGED <<state, cleanups, step, job, token>>
  BY DEF AdmitCheck, AdmitInstall, AdmitInsert, RetainSession, ReceiveFile,
     ForwardClose, EnterGrace, CleaningDone
<1>2. CASE UNCHANGED ws
  BY <1>1, <1>2, QuietMoves DEF Admitting
<1>3. CASE \/ ws[c] = "checking" /\ \E w \in {"rejected", "binding"} : WsGoto(c, w)
           \/ ws[c] = "found" /\ WsGoto(c, "wired")
           \/ ws[c] = "checked" /\ WsGoto(c, "mapped")
           \/ ws[c] = "accepted" /\ WsGoto(c, "reading")
           \/ ws[c] = "reading" /\ WsGoto(c, "grace")
           \/ ws[c] = "cleaning" /\ WsGoto(c, "finishing")
  <2>1. \A k \in Conns : k # c => ws'[k] = ws[k]
    BY <1>3 DEF WsGoto, TypeInv, TypeOK
  <2>2. Admitting(c)' <=> Admitting(c)
    BY <1>3 DEF WsGoto, TypeInv, TypeOK, Admitting
  <2>3. \A k \in Conns : Admitting(k)' <=> Admitting(k)
    BY <2>1, <2>2 DEF Admitting
  <2> QED BY <1>1, <2>3, QuietMoves
<1> QED
  BY <1>2, <1>3 DEF AdmitCheck, AdmitInstall, AdmitInsert, RetainSession,
     ReceiveFile, ForwardClose, EnterGrace, CleaningDone

\* A new connection is not yet admitted to anything.
LEMMA ConnectMoves ==
    ASSUME TypeInv, NEW c \in Conns, NEW d \in Downloads, Connect(c, d)
    PROVE  OneMoves
<1>1. /\ UNCHANGED <<state, cleanups, step, job>>
      /\ ws[c] = "idle"
      /\ \A k \in Conns : ws'[k] = IF k = c THEN "checking" ELSE ws[k]
      /\ \A k \in Conns : k # c => token'[k] = token[k]
  BY DEF Connect, WsGoto, sessionVars, cleanupVars, TypeInv, TypeOK
<1>2. \A k \in Conns : Admitting(k)' <=> Admitting(k)
  BY <1>1 DEF Admitting
<1>3. \A k \in Conns : Admitting(k) => token'[k] = token[k]
  BY <1>1 DEF Admitting
<1> QED BY <1>1, <1>2, <1>3, QuietMoves

\* remove_connection triggers the session and starts its cleanup, or leaves
\* both to whoever triggered it.
LEMMA RemoveMoves ==
    ASSUME TypeInv, IInv, NEW c \in Conns, ws[c] \in {"reading", "grace"},
           NEW r, RemoveConnection(c, r)
    PROVE  OneMoves
<1> USE DEF sessionVars, wsVars, cleanupVars
<1>d. PICK d \in Downloads : d = token[c]
  BY DEF TypeInv, TokenInv
<1>a. ~Admitting(c)
  BY DEF Admitting
<1>u. UNCHANGED token
  BY DEF RemoveConnection
<1>1. CASE WsGoto(c, "finishing") /\ UNCHANGED <<sessionVars, step, job>>
  <2>1. \A k \in Conns : Admitting(k)' <=> Admitting(k)
    BY <1>a, <1>1 DEF WsGoto, Admitting, TypeInv, TypeOK
  <2> QED BY <1>u, <1>1, <2>1, QuietMoves
<1>2. CASE /\ IsConnected(d, c) /\ WsGoto(c, "cleaning")
           /\ TriggerSession(d, r) /\ CleanGoto(c, "lookup")
           /\ job' = [job EXCEPT ![c] = d]
  <2>1. Fires(d, TRUE)
    BY <1>2, TriggerEffect DEF IsConnected, Open, Fires
  <2>2. /\ c \in Cleaners /\ step[c] = "idle"
        /\ \A p \in Cleaners :
             p # c => step'[p] = step[p] /\ job'[p] = job[p]
        /\ job'[c] = d
    BY <1>2 DEF Cleaners, CleanGoto, IInv, HandlerInv, TypeInv, TypeOK
  <2>3. \A e \in Downloads \ {d} : Cleaned(e)' <=> Cleaned(e)
    BY <2>2 DEF Cleaned
  <2>4. \A e \in Downloads : Admitted(e)' <=> Admitted(e)
    BY <1>a, <1>u, <1>2, AdmissionOver DEF WsSteps
  <2>5. \A e \in Downloads \ {d} : Same(e)
    BY <2>1, <2>3, <2>4 DEF Fires, Same, Working
  <2>6. Moves(d)
    BY <1>2, <2>1 DEF Fires, Moves, Working, Closing, Open, IsConnected
  <2> QED BY <2>5, <2>6 DEF OneMoves
<1> QED BY <1>d, <1>1, <1>2 DEF RemoveConnection

\* complete moves a session from Closing to Closed, which is one phase.
LEMMA CompleteMoves ==
    ASSUME TypeInv, NEW d \in Downloads, NEW k,
           \/ CompleteSession(d, k)
           \/ UNCHANGED sessionVars
    PROVE  /\ \A e \in Downloads \ {d} : state'[e] = state[e]
           /\ \A e \in Downloads : Requested(e)' <=> Requested(e)
           /\ \/ state'[d] = state[d]
              \/ Closing(d) /\ Closing(d)'
<1>1. UNCHANGED cleanups
  BY DEF CompleteSession, sessionVars
<1>2. CASE CompleteSession(d, k)
  BY <1>1, <1>2, SameQueue
     DEF CompleteSession, sessionVars, Closing, TypeInv, TypeOK, SessionTypeOK
<1>3. CASE UNCHANGED sessionVars
  BY <1>1, <1>3, SameQueue DEF sessionVars
<1> QED BY <1>2, <1>3

\* The exit guard's completion does not take its session back.
LEMMA HandlerExitMoves ==
    ASSUME TypeInv, NEW c \in Conns, HandlerExit(c)
    PROVE  OneMoves
<1>d. PICK d \in Downloads : d = token[c]
  BY DEF HandlerExit, TypeInv, TokenInv
<1>1. /\ ~Admitting(c) /\ WsGoto(c, "done")
      /\ UNCHANGED <<step, job, token>>
      /\ CompleteSession(d, c) \/ UNCHANGED sessionVars
  BY <1>d DEF HandlerExit, GuardComplete, Admitting, cleanupVars
<1>2. /\ \A e \in Downloads \ {d} : state'[e] = state[e]
      /\ \A e \in Downloads : Requested(e)' <=> Requested(e)
      /\ state'[d] = state[d] \/ (Closing(d) /\ Closing(d)')
  BY <1>1, CompleteMoves
<1>3. \A e \in Downloads : Admitted(e)' <=> Admitted(e)
  BY <1>1, AdmissionOver DEF WsSteps
<1>4. \A e \in Downloads : Working(e)' <=> Working(e)
  BY <1>1, <1>2, <1>3 DEF Working, Cleaned
<1>5. \A e \in Downloads \ {d} : Same(e)
  BY <1>2, <1>4 DEF Same
<1>6. Same(d) \/ Moves(d)
  BY <1>2, <1>4 DEF Same, Moves
<1> QED BY <1>5, <1>6 DEF OneMoves

\* The request the worker takes becomes the cleanup it runs.
LEMMA WorkerTakeMoves ==
    ASSUME TypeInv, IInv, WorkerTake
    PROVE  OneMoves
<1>d. PICK d \in Downloads : d = Head(cleanups)
  BY TakeEffect DEF WorkerTake
<1>1. /\ Worker \in Cleaners /\ step[Worker] = "idle"
      /\ step'[Worker] = "lookup" /\ job'[Worker] = d
      /\ \A p \in Cleaners :
            p # Worker => step'[p] = step[p] /\ job'[p] = job[p]
      /\ UNCHANGED <<state, ws, token>>
  BY <1>d DEF WorkerTake, CleanGoto, Cleaners, wsVars, TypeInv, TypeOK
<1>2. /\ Requested(d)
      /\ \A e \in Downloads \ {d} : Requested(e)' <=> Requested(e)
  BY <1>d, TakeEffect DEF WorkerTake
<1>3. \A e \in Downloads \ {d} : Cleaned(e)' <=> Cleaned(e)
  BY <1>1 DEF Cleaned
<1>4. \A e \in Downloads : Admitted(e)' <=> Admitted(e)
  BY <1>1 DEF Admitted, Admitting
<1>5. \A e \in Downloads \ {d} : Same(e)
  BY <1>1, <1>2, <1>3, <1>4 DEF Same, Working
<1>6. Moves(d)
  BY <1>1, <1>2 DEF Moves, Working, Closing, IInv, CleanerInv
<1> QED BY <1>5, <1>6 DEF OneMoves

\* A run of cleanup_file_download concerns the session it cleans up, which
\* is closing and has not settled before the run is over.
LEMMA CleanupMoves ==
    ASSUME TypeInv, IInv, NEW p \in Cleaners, CleanupStep(p)
    PROVE  OneMoves
<1> USE DEF sessionVars, wsVars, cleanupVars
<1>0. /\ step[p] # "idle"
      /\ UNCHANGED <<job, ws, token>>
      /\ \E s \in CleanupSteps : CleanGoto(p, s)
      /\ CompleteSession(job[p], NoConn) \/ UNCHANGED sessionVars
  BY DEF CleanupStep, CleanupLookup, CleanupGate, CleanupUnregister,
     CleanupDisconnect, CleanupClose, CleanupDetach, CleanupTerminate,
     CleanupComplete, CleanupSteps
<1>d. PICK d \in Downloads : d = job[p]
  BY <1>0 DEF TypeInv, JobInv
<1>1. /\ \A e \in Downloads \ {d} : state'[e] = state[e]
      /\ \A e \in Downloads : Requested(e)' <=> Requested(e)
      /\ state'[d] = state[d] \/ (Closing(d) /\ Closing(d)')
  BY <1>0, <1>d, CompleteMoves
<1>2. \A q \in Cleaners : q # p => step'[q] = step[q]
  BY <1>0 DEF CleanGoto, TypeInv, TypeOK
<1>3. \A e \in Downloads \ {d} : Cleaned(e)' <=> Cleaned(e)
  BY <1>0, <1>2, <1>d DEF Cleaned
<1>4. \A e \in Downloads : Admitted(e)' <=> Admitted(e)
  BY <1>0 DEF Admitted, Admitting
<1>5. \A e \in Downloads \ {d} : Same(e)
  BY <1>1, <1>3, <1>4 DEF Same, Working
<1>6. Moves(d)
  <2>1. Closing(d) /\ Working(d)
    BY <1>0, <1>d DEF IInv, CleanerInv, Working, Cleaned
  <2> QED BY <1>1, <2>1 DEF Moves, Closing
<1> QED BY <1>5, <1>6 DEF OneMoves

\* A shutdown future triggers sessions one by one.
LEMMA ShutdownMoves ==
    ASSUME TypeInv, NEW a \in Arms, BeginShutdown(a) \/ ShutdownStep(a)
    PROVE  OneMoves
<1> USE DEF sessionVars, wsVars, cleanupVars
<1>1. UNCHANGED <<step, job, ws, token>>
  BY DEF BeginShutdown, ShutdownStep, BeginSweep, BeginDrain, DrainDeadline,
     TriggerNext, DrainNext
<1>2. CASE UNCHANGED sessionVars
  BY <1>1, <1>2, QuietMoves DEF Admitting
<1>3. ASSUME NEW d \in Downloads, TriggerNext(a, d) PROVE OneMoves
  <2>1. Fires(d, Open(d)) /\ Open(d) \in BOOLEAN
    BY <1>3, TriggerEffect DEF TriggerNext, Open
  <2> QED BY <1>1, <2>1, FiresMoves
<1> QED
  BY <1>2, <1>3 DEF BeginShutdown, ShutdownStep, BeginSweep, BeginDrain,
     DrainDeadline, DrainNext

\* Every step of the system moves at most one download, to its next phase.
LEMMA StepMoves ==
    ASSUME TypeInv, IInv, [Next]_vars
    PROVE  OneMoves
<1>1. ASSUME NEW c \in Conns, PeerLeaves(c) \/ ReadFails(c) \/ GraceEnds(c)
      PROVE  OneMoves
  BY <1>1, RemoveMoves DEF PeerLeaves, ReadFails, GraceEnds
<1>2. ASSUME NEW c \in Conns, WsStep(c) \/ ReceiveFile(c) \/ PeerLeaves(c)
      PROVE  OneMoves
  BY <1>1, <1>2, AdmitBindMoves, AdmissionMoves, HandlerQuietMoves,
     HandlerExitMoves DEF WsStep
<1>3. CASE UNCHANGED vars
  BY <1>3, QuietMoves DEF vars, sessionVars, wsVars, cleanupVars, Admitting
<1> QED
  BY <1>2, <1>3, HttpMoves, ConnectMoves, WorkerTakeMoves, CleanupMoves,
     ShutdownMoves DEF Next

\* The phase of a download in terms of the work on it.
Phase(d) ==
    IF state[d] = "Absent" THEN "absent"
    ELSE IF Open(d) THEN "live"
    ELSE IF ~Working(d) THEN "released" ELSE "closing"

PhaseInv == phaseBar = [d \in Downloads |-> Phase(d)]

\* By the inductive invariant a closing session without work is released, so
\* the refinement mapping is the phase.
LEMMA PhaseIs == TypeInv /\ IInv => PhaseInv
<1> SUFFICES ASSUME TypeInv, IInv PROVE PhaseInv
  OBVIOUS
<1>1. ASSUME NEW d \in Downloads, state[d] # "Absent", ~Open(d)
      PROVE  (Settled(d) /\ Released(d)) <=> ~Working(d)
  <2>1. Closing(d)
    BY <1>1 DEF Closing, Open, TypeInv, TypeOK, SessionTypeOK, SessionStates
  <2> QED BY <2>1, SettledIs, SettledReleased
<1> QED BY <1>1 DEF phaseBar, PhaseInv, Phase

\* A step that moves at most one download is a step of DownloadRelease, or
\* changes nothing that DownloadRelease sees.
LEMMA MoveRefines ==
    ASSUME PhaseInv, PhaseInv', OneMoves
    PROVE  [Abstract!ReleaseNext]_phaseBar
<1>1. phaseBar = [d \in Downloads |-> Phase(d)]
  BY DEF PhaseInv
<1>2. phaseBar' = [d \in Downloads |-> Phase(d)']
  BY DEF PhaseInv
<1>3. ASSUME NEW e \in Downloads, Same(e) PROVE Phase(e)' = Phase(e)
  BY <1>3 DEF Same, Open, Phase
<1>4. CASE \A e \in Downloads : Same(e)
  BY <1>1, <1>2, <1>3, <1>4
<1>5. ASSUME NEW d \in Downloads, Moves(d),
             \A e \in Downloads \ {d} : Same(e)
      PROVE  [Abstract!ReleaseNext]_phaseBar
  <2>1. phaseBar' = [phaseBar EXCEPT ![d] = Phase(d)']
    BY <1>1, <1>2, <1>3, <1>5
  <2>2. \/ Phase(d)' = Phase(d)
        \/ Phase(d) = "absent" /\ Phase(d)' = "live"
        \/ Phase(d) = "live" /\ Phase(d)' = "closing"
        \/ Phase(d) = "closing" /\ Phase(d)' = "released"
    BY <1>5 DEF Moves, Open, Closing, Phase
  <2>3. phaseBar[d] = Phase(d)
    BY <1>1
  <2>4. CASE Phase(d)' = Phase(d)
    BY <1>1, <2>1, <2>3, <2>4
  <2>5. CASE Phase(d)' # Phase(d)
    <3>1. Abstract!Create(d) \/ Abstract!RequestShutdown(d)
          \/ Abstract!Release(d)
      BY <2>1, <2>2, <2>3, <2>5
         DEF Abstract!Create, Abstract!RequestShutdown, Abstract!Release
    <3> QED BY <3>1 DEF Abstract!ReleaseNext
  <2> QED BY <2>4, <2>5
<1> QED BY <1>4, <1>5 DEF OneMoves

\* The race of handler, cleanup worker and shutdown futures implements
\* DownloadRelease: every download is created once, shut down at most once and
\* released at most once, and nothing brings a released download back.
THEOREM ReleaseRefined == Spec => ImplementsRelease
<1>1. Init => Abstract!ReleaseInit
  BY DEF Init, SessionInit, Abstract!ReleaseInit, phaseBar
<1>2. TypeInv /\ IInv /\ PhaseInv /\ PhaseInv' /\ [Next]_vars
        => [Abstract!ReleaseNext]_phaseBar
  BY StepMoves, MoveRefines
<1> QED
  BY <1>1, <1>2, Inductive, PhaseIs, PTL DEF Spec, ImplementsRelease, Abstract!ReleaseSpec

==============================================================================
