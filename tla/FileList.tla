------------------------------ MODULE FileList ------------------------------
(***************************************************************************)
(* File listings of one job and their cache.  PATCH /job/apiv1/file/       *)
(* (list_files of src/src/src/http/file.rs) serves a finished job from the *)
(* jobserver_filelistcache table and otherwise asks the remote cluster     *)
(* over the WebSocket; the cache is filled by a root listing of a finished *)
(* job, by a background task that another listing of it leaves behind, and *)
(* by the completion report itself (src/src/src/cluster/cluster.rs).       *)
(*                                                                         *)
(* A task is a user's request, or one that fills the cache; it registers a *)
(* FileListState in file_list_map under a fresh UUID, for which the task   *)
(* itself stands.  A step is one access to the database, the map, or a     *)
(* FileListState under its mutex.                                          *)
(***************************************************************************)
EXTENDS PathFilter, FiniteSets

CONSTANTS
    Users,     \* list_files requests
    Fillers,   \* bound: tasks that fill the cache
    Requests,  \* what users ask for: [absolute, path, recursive, at], where
               \* `at` is the directory that the path leads to
    EarlyFiles,\* the files of the job while it runs
    FinalFiles \* and when it has finished

ASSUME FilesAssumption ==
    /\ EarlyFiles # {} /\ FinalFiles # {}
    /\ EarlyFiles \subseteq Seq(STRING) /\ FinalFiles \subseteq Seq(STRING)
ASSUME PathsAssumption ==
    /\ Requests \subseteq [absolute : BOOLEAN, path : Seq(STRING),
                           recursive : BOOLEAN, at : Seq(STRING)]
    /\ \A r \in Requests : r.path = <<>> => r.at = <<>>
ASSUME TasksAssumption == Users \cap Fillers = {}

VARIABLES
    files,    \* the files of the job on the remote cluster
    reports,  \* the UPDATE_JOB of the completion: none, sent, handled
    row,      \* whether job_history has the completion row
    cache,    \* the rows of jobserver_filelistcache
    task,     \* where each task is
    kind,     \* what it is: a user's, a background or a completion task
    want,     \* what it asks for
    finished, \* the job_complete it has read
    listMap,  \* file_list_map
    listing,  \* the FileListState of each task
    wake,     \* the stored permit of its notify
    asks,     \* FILE_LIST requests under way
    answers,  \* FILE_LIST and FILE_LIST_ERROR answers under way
    result,   \* what a task has got
    begun,    \* history: the files of the job when a request came in
    cut,      \* history: the tasks whose list comes from a FILE_LIST cut short
    cacheCut  \* history: whether the rows of the cache do

jobVars   == <<files, reports, row>>
taskVars  == <<task, kind, want, finished, result, begun>>
stateVars == <<listMap, listing, wake>>
wireVars  == <<asks, answers>>
cutVars   == <<cut, cacheCut>>

listVars == <<jobVars, cache, taskVars, stateVars, wireVars, cutVars>>

Tasks == Users \cup Fillers

\* The request of a task that fills the cache
Root == [absolute |-> FALSE, path |-> <<>>, recursive |-> TRUE, at |-> <<>>]

Failure   == [ok |-> FALSE, files |-> {}]
Success(s) == [ok |-> TRUE, files |-> s]

EmptyState == [ready |-> FALSE, error |-> FALSE, files |-> {}]

TaskSteps == {"idle", "lookup", "online", "register", "wait", "asleep", "take",
              "remove", "store", "store first", "finish", "answered", "refused",
              "ended", "gone"}

AllFiles == EarlyFiles \cup FinalFiles

ListTypeOK ==
    /\ files \in {EarlyFiles, FinalFiles} /\ row \in BOOLEAN
    /\ reports \in {"none", "sent", "handled"}
    /\ cache \subseteq AllFiles
    /\ task \in [Tasks -> TaskSteps]
    /\ kind \in [Tasks -> {"user", "background", "completion"}]
    /\ want \in [Tasks -> Requests \cup {Root}]
    /\ finished \in [Tasks -> BOOLEAN]
    /\ listMap \subseteq Tasks
    /\ listing \in [Tasks -> [ready : BOOLEAN, error : BOOLEAN,
                              files : SUBSET AllFiles]]
    /\ wake \in [Tasks -> BOOLEAN]
    /\ asks \subseteq Tasks
    /\ answers \subseteq [to : Tasks, ok : BOOLEAN, files : SUBSET AllFiles]
    /\ result \in [Tasks -> [ok : BOOLEAN, files : SUBSET AllFiles]]
    /\ begun \in [Tasks -> {EarlyFiles, FinalFiles}]
    /\ cut \subseteq Tasks /\ cacheCut \in BOOLEAN

ListInit ==
    /\ files = EarlyFiles /\ reports = "none" /\ row = FALSE
    /\ cache = {}
    /\ task = [t \in Tasks |-> "idle"]
    /\ kind = [t \in Tasks |-> IF t \in Users THEN "user" ELSE "background"]
    /\ want = [t \in Tasks |-> Root]
    /\ finished = [t \in Tasks |-> FALSE]
    /\ result = [t \in Tasks |-> Failure]
    /\ begun = [t \in Tasks |-> EarlyFiles]
    /\ listMap = {} /\ listing = [t \in Tasks |-> EmptyState]
    /\ wake = [t \in Tasks |-> FALSE]
    /\ asks = {} /\ answers = {}
    /\ cut = {} /\ cacheCut = FALSE

-----------------------------------------------------------------------------
(* list_files                                                              *)

Goto(t, s) == task' = [task EXCEPT ![t] = s]

\* Up to the test for the completion row.  Requests that are refused
\* (shutdown, no such job, a database error) have no effect.
ListFiles(t, r) ==
    /\ t \in Users /\ task[t] = "idle"
    /\ want' = [want EXCEPT ![t] = r]
    /\ begun' = [begun EXCEPT ![t] = files]
    /\ finished' = [finished EXCEPT ![t] = row]
    /\ Goto(t, "lookup")
    /\ UNCHANGED <<jobVars, cache, kind, result, stateVars, wireVars, cutVars>>

Filtered(t, fs) ==
    FilterFiles(fs, want[t].absolute, want[t].path, want[t].recursive)

\* The cache is read for a finished job, and an empty one is no answer.
LookupCache(t) ==
    LET hit == finished[t] /\ cache # {} IN
    /\ task[t] = "lookup"
    /\ Goto(t, IF hit THEN "answered" ELSE "online")
    /\ result' = IF hit THEN [result EXCEPT ![t] = Success(Filtered(t, cache))]
                        ELSE result
    /\ cut' = IF hit /\ cacheCut THEN cut \cup {t} ELSE cut
    /\ UNCHANGED <<jobVars, cache, kind, want, finished, begun, stateVars,
                   wireVars, cacheCut>>

\* get_online_cluster, and the test of spawn_background_cache
TestOnline(t) ==
    /\ task[t] = "online"
    /\ \/ Goto(t, "register")
       \/ Goto(t, IF t \in Users THEN "refused" ELSE "ended")
    /\ UNCHANGED <<jobVars, cache, kind, want, finished, result, begun,
                   stateVars, wireVars, cutVars>>

-----------------------------------------------------------------------------
(* request_file_list and the task of cache_file_list_on_completion         *)

\* The session is in the map before FILE_LIST is queued.
Register(t) ==
    /\ task[t] = "register"
    /\ listMap' = listMap \cup {t}
    /\ asks' = asks \cup {t}
    /\ Goto(t, "wait")
    /\ UNCHANGED <<jobVars, cache, kind, want, finished, result, begun, listing,
                   wake, answers, cutVars>>

\* wait_until_data_ready
WaitForList(t) ==
    /\ \/ task[t] = "wait" /\ UNCHANGED wake
          /\ Goto(t, IF listing[t].ready THEN "take" ELSE "asleep")
       \/ task[t] = "asleep" /\ wake[t]
          /\ wake' = [wake EXCEPT ![t] = FALSE]
          /\ Goto(t, "wait")
    /\ UNCHANGED <<jobVars, cache, kind, want, finished, result, begun, listMap,
                   listing, wireVars, cutVars>>

\* Mutant of ListTimeout: the task of the completion waits without a timeout.
ListTimeoutOfRequest(t) ==
    /\ task[t] = "asleep" /\ kind[t] # "completion"
    /\ listing' = [listing EXCEPT ![t].error = TRUE]
    /\ Goto(t, "take")
    /\ UNCHANGED <<jobVars, cache, kind, want, finished, result, begun, listMap,
                   wake, wireVars, cutVars>>

\* The client timeout: request_file_list records it as an error, the task of
\* the completion looks at what there is.
ListTimeout(t) ==
    /\ task[t] = "asleep"
    /\ listing' = IF kind[t] = "completion" THEN listing
                    ELSE [listing EXCEPT ![t].error = TRUE]
    /\ Goto(t, "take")
    /\ UNCHANGED <<jobVars, cache, kind, want, finished, result, begun, listMap,
                   wake, wireVars, cutVars>>

\* Mutant of TakeList: a list that has not come counts as an empty one.
TakeAnyList(t) ==
    LET ok == ~listing[t].error IN
    /\ task[t] = "take"
    /\ result' = [result EXCEPT ![t] = IF ok THEN Success(listing[t].files)
                                             ELSE Failure]
    /\ Goto(t, IF kind[t] # "completion" THEN "remove"
               ELSE IF ok THEN "store first" ELSE "remove")
    /\ UNCHANGED <<jobVars, cache, kind, want, finished, begun, stateVars, wireVars,
                   cutVars>>

\* The list, or the error, is taken out of the FileListState.
TakeList(t) ==
    LET ok == ~listing[t].error /\ (kind[t] = "completion" => listing[t].ready) IN
    /\ task[t] = "take"
    /\ result' = [result EXCEPT ![t] = IF ok THEN Success(listing[t].files)
                                             ELSE Failure]
    /\ Goto(t, IF kind[t] # "completion" THEN "remove"
               ELSE IF ok THEN "store first" ELSE "remove")
    /\ UNCHANGED <<jobVars, cache, kind, want, finished, begun, stateVars, wireVars,
                   cutVars>>

\* The test for a root listing: body.path is empty (`/` is not) and recursive.
IsRoot(r) == r.path = <<>> /\ ~r.absolute /\ r.recursive

\* list_files goes on: a root listing of a finished job is stored.
AfterUserList(t) ==
    IF ~result[t].ok THEN "refused"
    ELSE IF finished[t] /\ IsRoot(want[t]) THEN "store" ELSE "finish"

\* spawn_background_cache goes on: failures are ignored.
AfterBackgroundList(t) == IF result[t].ok THEN "store" ELSE "ended"

\* What follows the removal of the session.  The task of a completion has
\* stored its list before.
AfterRemove(t) ==
    IF kind[t] = "completion" THEN "ended"
    ELSE IF t \in Users THEN AfterUserList(t) ELSE AfterBackgroundList(t)

\* The session leaves the map, and its FileListState goes with it.
RemoveEntry(t) ==
    /\ task[t] = "remove"
    /\ listMap' = listMap \ {t}
    /\ listing' = [listing EXCEPT ![t] = EmptyState]
    /\ wake' = [wake EXCEPT ![t] = FALSE]
    /\ Goto(t, AfterRemove(t))
    /\ UNCHANGED <<jobVars, cache, kind, want, finished, result, begun, wireVars,
                   cutVars>>

\* replace_file_list: one transaction, which takes effect or fails.
StoreList(t) ==
    /\ task[t] \in {"store", "store first"}
    /\ \/ cache' = result[t].files /\ cacheCut' = (t \in cut)
       \/ UNCHANGED <<cache, cacheCut>>
    /\ Goto(t, IF task[t] = "store first" THEN "remove"
               ELSE IF t \in Users THEN "finish" ELSE "ended")
    /\ UNCHANGED <<jobVars, kind, want, finished, result, begun, stateVars,
                   wireVars, cut>>

\* The user's answer.  A listing of a finished job that was not stored
\* spawns a background task, of which there are no more than Fillers.
FinishList(t) ==
    LET spawns == finished[t] /\ ~IsRoot(want[t])
        idle == {f \in Fillers : task[f] = "idle"}
    IN
    /\ task[t] = "finish"
    /\ result' = [result EXCEPT ![t] = Success(Filtered(t, result[t].files))]
    /\ \/ (spawns => idle = {}) /\ Goto(t, "answered")
       \/ /\ spawns
          /\ \E f \in idle :
                task' = [task EXCEPT ![t] = "answered", ![f] = "online"]
    /\ UNCHANGED <<jobVars, cache, kind, want, finished, begun, stateVars, wireVars,
                   cutVars>>

\* The client goes away while its handler awaits the answer.
DropList(t) ==
    /\ t \in Users /\ task[t] = "asleep"
    /\ Goto(t, "gone")
    /\ UNCHANGED <<jobVars, cache, kind, want, finished, result, begun,
                   stateVars, wireVars, cutVars>>

-----------------------------------------------------------------------------
(* The WebSocket handler and the remote cluster                            *)

\* The job ends, and the remote cluster (external) reports it.
JobEnds ==
    /\ reports = "none"
    /\ files' = FinalFiles /\ reports' = "sent"
    /\ UNCHANGED <<row, cache, taskVars, stateVars, wireVars, cutVars>>

\* handle_update_job: the row is inserted, or its loss is logged; either way
\* cache_file_list_on_completion follows, unless the job cannot be loaded.
HandleCompletion ==
    /\ reports = "sent" /\ reports' = "handled"
    /\ row' \in BOOLEAN
    /\ \/ \E f \in Fillers :
             /\ task[f] = "idle"
             /\ kind' = [kind EXCEPT ![f] = "completion"]
             /\ listMap' = listMap \cup {f}
             /\ asks' = asks \cup {f}
             /\ Goto(f, "wait")
       \/ UNCHANGED <<kind, listMap, asks, task>>
    /\ UNCHANGED <<files, cache, want, finished, result, begun, listing, wake,
                   answers, cutVars>>

\* The files the remote cluster (external) lists for a request: what is in
\* the directory or below it, by their names from the root of the job.
Listing(fs, r) ==
    {f \in fs : /\ Len(f) > Len(r.at)
                /\ SubSeq(f, 1, Len(r.at)) = r.at
                /\ r.recursive \/ Len(f) = Len(r.at) + 1}

\* A request is answered with the files of this moment or with an error, or
\* gets lost with its connection.
RemoteAnswers(t) ==
    /\ t \in asks
    /\ asks' = asks \ {t}
    /\ \/ answers' = answers \cup {[to |-> t, ok |-> TRUE,
                                    files |-> Listing(files, want[t])]}
       \/ answers' = answers \cup {[to |-> t, ok |-> FALSE, files |-> {}]}
       \/ UNCHANGED answers
    /\ UNCHANGED <<jobVars, cache, taskVars, stateVars, cutVars>>

\* An answer under way is read as it comes, whole or cut short.
Receive(a) ==
    /\ a \in answers /\ answers' = answers \ {a}
    /\ UNCHANGED <<jobVars, cache, taskVars, listMap, asks, cacheCut>>

\* file_list_state_for_uuid finds no session, or the message ends in its uuid.
DropAnswer(a) ==
    /\ Receive(a)
    /\ UNCHANGED <<listing, wake, cut>>

SetListing(t, state) ==
    /\ listing' = [listing EXCEPT ![t] = state]
    /\ wake' = [wake EXCEPT ![t] = TRUE]

\* handle_file_list_error, and handle_file_list_response of a FILE_LIST that
\* ends before its num_files does
HandleListError(a) ==
    /\ Receive(a) /\ a.to \in listMap
    /\ SetListing(a.to, [ready |-> TRUE, error |-> TRUE, files |-> listing[a.to].files])
    /\ UNCHANGED cut

\* handle_file_list_response: the loop reads the entries up to num_files and
\* stops where the message ends, without an error; what it has read by then,
\* nothing included, is the list.
HandleListResponse(a, read) ==
    /\ Receive(a) /\ a.to \in listMap /\ a.ok
    /\ read \subseteq a.files
    /\ SetListing(a.to, [ready |-> TRUE, error |-> listing[a.to].error, files |-> read])
    /\ cut' = IF read = a.files THEN cut ELSE cut \cup {a.to}

HandleAnswer(a) ==
    \/ DropAnswer(a) \/ HandleListError(a)
    \/ \E read \in SUBSET a.files : HandleListResponse(a, read)

-----------------------------------------------------------------------------
(* The specification                                                       *)

Progress(t) ==
    \/ LookupCache(t) \/ TestOnline(t) \/ Register(t) \/ WaitForList(t)
    \/ ListTimeout(t) \/ TakeList(t) \/ RemoveEntry(t) \/ StoreList(t)
    \/ FinishList(t)

ListNext ==
    \/ \E t \in Users, r \in Requests : ListFiles(t, r)
    \/ \E t \in Tasks : Progress(t) \/ DropList(t) \/ RemoteAnswers(t)
    \/ \E a \in answers : HandleAnswer(a)
    \/ JobEnds \/ HandleCompletion

ListSpec == ListInit /\ [][ListNext]_listVars

\* Tasks that can run do, and timers run out.
ListFairness == \A t \in Tasks : WF_listVars(Progress(t))

-----------------------------------------------------------------------------
(* Properties                                                              *)

\* The directory that was asked for, in this state of the job's files
Asked(t, fs) == Listing(fs, want[t])

\* A user gets files of the directory asked for and no others, as they were
\* at some time between the request and the answer, and all of them, unless
\* they were read from a FILE_LIST that came cut short, by this request or by
\* the task that filled the cache.  The cache never answers with what an
\* unfinished job had, and cached and live answers to the same request agree
\* but for the directory itself.
AnswerIsRight ==
    \A t \in Users :
       task[t] = "answered" =>
          LET got == result[t].files \ {want[t].at} IN
          \E fs \in {begun[t], files} :
             got \subseteq Asked(t, fs) /\ (t \notin cut => got = Asked(t, fs))

\* The cache changes only into the full listing of the finished job, or into
\* the part of it that a FILE_LIST cut among its entries has brought.  No
\* timeout, error, late answer or failed transaction, and none of the tasks
\* that fill it at the same time, empties it, leaves a part in it or puts
\* a file in it that the finished job does not have.
CacheIsFinal ==
    [][/\ cache' \subseteq Listing(FinalFiles, Root)
       /\ ~cacheCut' => cache' = Listing(FinalFiles, Root)]_<<cache, cacheCut>>

\* file.rs:1058 says of the task that a listing leaves behind that it will
\* "cache the full root recursive listing for this job".  A FILE_LIST that is
\* cut among its entries is accepted as a shorter list, and stored: this does
\* not hold, and a part in the cache answers every later request.
CachedListIsFull == cache # {} => cache = Listing(FinalFiles, Root)

\* file.rs:1112 says that request_file_list "removes the session from the map
\* on every terminal path".  A handler that axum drops is a terminal path
\* too, and removes nothing: this does not hold.
SessionIsRemoved == \A t \in listMap : task[t] # "gone"

\* Every request is answered and every task that fills the cache ends, also
\* when the remote cluster never answers.
ListEnds ==
    \A t \in Tasks :
       task[t] # "idle" ~> task[t] \in {"answered", "refused", "ended", "gone"}

=============================================================================
