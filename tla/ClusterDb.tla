----------------------------- MODULE ClusterDb -----------------------------
(***************************************************************************)
(* The tables that the remote clusters keep in the server's database, and  *)
(* the requests by which they read and write them                          *)
(* (src/src/src/db/cluster_db.rs).  The handler of a WebSocket connection  *)
(* reads one request after the other; requests of different connections    *)
(* interleave at every access to the database, and any access may fail.    *)
(*                                                                         *)
(* A request is one that its handler has accepted; WireFormat is about how *)
(* it gets there.  Of a row the model has what the handlers look at: its   *)
(* keys, its cluster, and one value for the rest.                          *)
(***************************************************************************)
EXTENDS Integers, Sequences, FiniteSets

CONSTANTS
    DbConns,     \* connections of master clusters
    ClusterOf,   \* the cluster each of them belongs to
    DbRequests,  \* the requests that may come on each of them
    FirstTables, \* what the tables may hold at first
    MaxRequests  \* bound: requests on a connection

Tables == {"job", "status", "bundle"}

\* Rows of the three tables
JobRow    == [job : Nat, running : BOOLEAN, cluster : STRING]
StatusRow == [job : Nat, what : STRING]
BundleRow == [content : STRING, hash : STRING, cluster : STRING]

\* A request whose fields have been read; the id 0 stands for a row that is
\* new.
DbRequest ==
    [do : {"running"}]
    \cup [do : {"get", "delete"}, table : Tables, id : Nat]
    \cup [do : {"jobs"}, job : Nat]
    \cup [do : {"statuses"}, job : Nat, whats : SUBSET STRING]
    \cup [do : {"delete list"}, ids : Seq(Nat)]
    \cup [do : {"save job"}, id : Nat, job : Nat, running : BOOLEAN]
    \cup [do : {"save status"}, id : Nat, job : Nat, what : STRING]
    \cup [do : {"save bundle"}, id : Nat, hash : STRING, content : STRING]

ASSUME DbAssumption == ClusterOf \in [DbConns -> STRING] /\ MaxRequests \in Nat
ASSUME RequestsAssumption == DbRequests \in [DbConns -> SUBSET DbRequest]
ASSUME TablesAssumption ==
    FirstTables \subseteq [job : Seq(JobRow), status : Seq(StatusRow),
                           bundle : Seq(BundleRow)]

VARIABLES
    table,   \* the rows of each of the three tables, by their ids
    lastId,  \* the AUTOINCREMENT counter of each table
    step,    \* where the handler of a connection is
    request, \* the request it handles
    found,   \* the bundle it has looked up, 0 for none
    reply,   \* the last DB_RESPONSE of a connection, and what it is for
    handled, \* how many requests a connection has had answered
    saved    \* history: the rows that clusters were told they have saved

replyVars == <<reply, handled, saved>>

dbVars == <<table, lastId, step, request, found, replyVars>>

NoRequest == [do |-> "none"]

Rows(t) == DOMAIN table[t]

DbInit ==
    /\ table \in FirstTables
    /\ lastId = [t \in Tables |-> Cardinality(Rows(t))]
    /\ step = [c \in DbConns |-> "idle"]
    /\ request = [c \in DbConns |-> NoRequest]
    /\ found = [c \in DbConns |-> 0]
    /\ reply = [c \in DbConns |-> [to |-> NoRequest, id |-> 0, rows |-> {}]]
    /\ handled = [c \in DbConns |-> 0] /\ saved = {}

\* No master cluster is connected.
DbIdle ==
    /\ table = [t \in Tables |-> <<>>] /\ lastId = [t \in Tables |-> 0]
    /\ step = [c \in DbConns |-> "offline"]
    /\ request = [c \in DbConns |-> NoRequest]
    /\ found = [c \in DbConns |-> 0]
    /\ reply = [c \in DbConns |-> [to |-> NoRequest, id |-> 0, rows |-> {}]]
    /\ handled = [c \in DbConns |-> 0] /\ saved = {}

-----------------------------------------------------------------------------
(* The steps that handlers share                                           *)

\* handle_message, up to the handler.  The next request of a connection is
\* read when its last one is done.
Accepted(c, r) ==
    /\ step[c] = "idle"
    /\ handled[c] < MaxRequests
    /\ request' = [request EXCEPT ![c] = r]
    /\ step' = [step EXCEPT ![c] = "handle"]
    /\ UNCHANGED <<table, lastId, found, replyVars>>

\* prepare_response and send_message: the response to a request has the id of
\* a saved row, or rows that were found.
Respond(c, id, rows) ==
    /\ reply' = [reply EXCEPT ![c] = [to |-> request[c], id |-> id, rows |-> rows]]
    /\ handled' = [handled EXCEPT ![c] = @ + 1]
    /\ saved' = IF id = 0 THEN saved
                ELSE saved \cup {[by |-> ClusterOf[c], to |-> request[c], id |-> id]}
    /\ step' = [step EXCEPT ![c] = "idle"]
    /\ request' = [request EXCEPT ![c] = NoRequest]
    /\ found' = [found EXCEPT ![c] = 0]

\* ActiveModel::insert, with the id that the database assigns
Inserts(t, new) ==
    /\ lastId' = [lastId EXCEPT ![t] = @ + 1]
    /\ table' = [table EXCEPT ![t] =
                   [i \in Rows(t) \cup {lastId[t] + 1} |->
                      IF i \in Rows(t) THEN @[i] ELSE new]]

\* ActiveModel::update changes the columns that are set.
Updates(t, id, columns) ==
    /\ table' = [table EXCEPT ![t][id] =
                   [k \in DOMAIN @ |-> IF k \in DOMAIN columns THEN columns[k]
                                       ELSE @[k]]]
    /\ UNCHANGED lastId

Without(t, ids) ==
    [table EXCEPT ![t] = [i \in Rows(t) \ ids |-> @[i]]]

\* send_save_response: the id of the row, or 0 when the write has failed
SaveFails(c) == Respond(c, 0, {}) /\ UNCHANGED <<table, lastId>>

-----------------------------------------------------------------------------
(* Queries                                                                 *)

\* The rows a query asks for.  Running jobs and jobs by their job id are
\* looked for in the cluster's own rows only, all the others, of which the
\* statuses of a job are the last, in all rows.
Matches(c, r) ==
    CASE r.do = "get" -> Rows(r.table) \cap {r.id}
      [] r.do = "running" ->
           {i \in Rows("job") : table["job"][i].cluster = ClusterOf[c]
                                /\ table["job"][i].running}
      [] r.do = "jobs" ->
           {i \in Rows("job") : table["job"][i].cluster = ClusterOf[c]
                                /\ table["job"][i].job = r.job}
      [] OTHER ->
           {i \in Rows("status") : table["status"][i].job = r.job
                                   /\ table["status"][i].what \in r.whats}

Queries == {"get", "running", "jobs", "statuses"}

\* handle_get_by_id_impl, handle_job_get_by_job_id,
\* handle_job_get_running_jobs and handle_jobstatus_get_by_job_id_impl: a
\* query that fails is answered like one that finds nothing.
Query(c) ==
    /\ step[c] = "handle" /\ request[c].do \in Queries
    /\ \/ Respond(c, 0, Matches(c, request[c]))
       \/ Respond(c, 0, {})
    /\ UNCHANGED <<table, lastId>>

-----------------------------------------------------------------------------
(* Deletions                                                               *)

\* handle_delete_by_id, of jobs and bundles of whatever cluster
DeleteById(c) ==
    LET r == request[c] IN
    /\ step[c] = "handle" /\ r.do = "delete"
    /\ \/ table' = Without(r.table, {r.id})
       \/ UNCHANGED table
    /\ Respond(c, 0, {})
    /\ UNCHANGED lastId

\* handle_jobstatus_delete_by_id_list: one deletion after the other, each of
\* which may fail without the others
DeleteNext(c) ==
    LET r == request[c] IN
    /\ step[c] = "handle" /\ r.do = "delete list" /\ r.ids # <<>>
    /\ \/ table' = Without("status", {Head(r.ids)})
       \/ UNCHANGED table
    /\ request' = [request EXCEPT ![c].ids = Tail(@)]
    /\ UNCHANGED <<lastId, step, found, replyVars>>

DeletedList(c) ==
    /\ step[c] = "handle" /\ request[c].do = "delete list" /\ request[c].ids = <<>>
    /\ Respond(c, 0, {})
    /\ UNCHANGED <<table, lastId>>

-----------------------------------------------------------------------------
(* Saved jobs and their statuses                                           *)

JobColumns(r) == [job |-> r.job, running |-> r.running]

\* Mutant of JobUpdate: a saved job is taken over by the cluster that saves it.
JobUpdateTakesOver(c, r) ==
    [job |-> r.job, running |-> r.running, cluster |-> ClusterOf[c]]

\* The columns that an update of a job sets: not its cluster
JobUpdate(c, r) == JobColumns(r)

\* handle_job_save: an update of a row that is not there fails.
SaveJob(c) ==
    LET r == request[c] IN
    /\ step[c] = "handle" /\ r.do = "save job"
    /\ \/ /\ r.id = 0
          /\ Inserts("job", [job |-> r.job, running |-> r.running,
                             cluster |-> ClusterOf[c]])
          /\ Respond(c, lastId["job"] + 1, {})
       \/ /\ r.id # 0 /\ r.id \in Rows("job")
          /\ Updates("job", r.id, JobUpdate(c, r))
          /\ Respond(c, r.id, {})
       \/ SaveFails(c)

\* handle_jobstatus_save
SaveStatus(c) ==
    LET r == request[c] IN
    /\ step[c] = "handle" /\ r.do = "save status"
    /\ \/ /\ r.id = 0
          /\ Inserts("status", [job |-> r.job, what |-> r.what])
          /\ Respond(c, lastId["status"] + 1, {})
       \/ /\ r.id # 0 /\ r.id \in Rows("status")
          /\ Updates("status", r.id, [job |-> r.job, what |-> r.what])
          /\ Respond(c, r.id, {})
       \/ SaveFails(c)

-----------------------------------------------------------------------------
(* handle_bundle_create_or_update                                          *)

\* The lookup: by id, or by hash among the cluster's own bundles.  A query
\* that fails is taken for a bundle that is not there.
FindBundle(c) ==
    LET r == request[c]
        all == {i \in Rows("bundle") :
                  IF r.id > 0 THEN i = r.id
                  ELSE /\ table["bundle"][i].hash = r.hash
                       /\ table["bundle"][i].cluster = ClusterOf[c]}
    IN
    /\ step[c] = "handle" /\ r.do = "save bundle"
    /\ \/ \E i \in all :
             /\ found' = [found EXCEPT ![c] = i]
             /\ step' = [step EXCEPT ![c] = IF table["bundle"][i].hash = r.hash
                                              THEN "update" ELSE "mismatch"]
       \/ /\ step' = [step EXCEPT ![c] = "insert"]
          /\ UNCHANGED found
    /\ UNCHANGED <<table, lastId, request, replyVars>>

\* The hash of a bundle does not change: the request is refused.
RefuseBundle(c) == step[c] = "mismatch" /\ SaveFails(c)

\* update_bundle_job sets the content, of the row found before.
UpdateBundle(c) ==
    /\ step[c] = "update"
    /\ \/ /\ found[c] \in Rows("bundle")
          /\ Updates("bundle", found[c], [content |-> request[c].content])
          /\ Respond(c, found[c], {})
       \/ SaveFails(c)

\* insert_bundle_job
InsertBundle(c) ==
    LET r == request[c] IN
    /\ step[c] = "insert"
    /\ \/ /\ Inserts("bundle", [content |-> r.content, hash |-> r.hash,
                                cluster |-> ClusterOf[c]])
          /\ Respond(c, lastId["bundle"] + 1, {})
       \/ SaveFails(c)

-----------------------------------------------------------------------------
(* The specification                                                       *)

DbNext ==
    \E c \in DbConns :
       \/ \E r \in DbRequests[c] : Accepted(c, r)
       \/ Query(c)
       \/ DeleteById(c) \/ DeleteNext(c) \/ DeletedList(c)
       \/ SaveJob(c) \/ SaveStatus(c)
       \/ FindBundle(c) \/ RefuseBundle(c) \/ UpdateBundle(c) \/ InsertBundle(c)

DbSpec == DbInit /\ [][DbNext]_dbVars

-----------------------------------------------------------------------------
(* Properties                                                              *)

\* Rows stay with the cluster they were made for.  What a cluster was told
\* it has saved is, for as long as there is a row of that id, the row it
\* meant: a new job and a bundle saved without an id are its own, and a
\* bundle has the hash it was saved with.  The jobs it was told of are its
\* own, too.  No request of another cluster takes a row over, and no deletion
\* between the lookup and the update of a bundle redirects the update to
\* another row.
RowsStayOwn ==
    /\ \A a \in saved :
          /\ a.to.do = "save job" /\ a.to.id = 0 /\ a.id \in Rows("job") =>
                table["job"][a.id].cluster = a.by
          /\ a.to.do = "save bundle" /\ a.id \in Rows("bundle") =>
                /\ table["bundle"][a.id].hash = a.to.hash
                /\ a.to.id = 0 => table["bundle"][a.id].cluster = a.by
    /\ \A c \in DbConns :
          reply[c].to.do \in {"running", "jobs"} =>
             \A i \in reply[c].rows \cap Rows("job") :
                table["job"][i].cluster = ClusterOf[c]

=============================================================================
