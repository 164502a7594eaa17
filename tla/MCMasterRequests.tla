-------------------------- MODULE MCMasterRequests --------------------------
(***************************************************************************)
(* Model-checking instance of what goes over the connections of master     *)
(* clusters besides jobs: FileList, ClusterDb, and WireFormat, which reads *)
(* the messages.  They have no state in common, so that each behaviour is  *)
(* a behaviour of one of them, beside the others at rest.                  *)
(***************************************************************************)
EXTENDS FileList, ClusterDb, WireFormat

\* A job whose directory a gains a file before it finishes, and requests that
\* reach its directories by different paths
MCEarly == {<<"a">>}
MCFinal == {<<"a">>, <<"a", "f">>}

MCRequests ==
    {[absolute |-> FALSE, path |-> <<>>, recursive |-> TRUE, at |-> <<>>],
     [absolute |-> TRUE, path |-> <<"..", "a", ".", "..">>, recursive |-> FALSE,
      at |-> <<>>]}

\* Cluster A makes rows, and cluster B goes for the same ids.
MCClusterOf == [a |-> "A", b |-> "B"]

SaveBundles(ids) ==
    [do : {"save bundle"}, id : ids, hash : {"h", "g"}, content : {"x"}]

MCDbRequests ==
    [a |-> {[do |-> "running"],
            [do |-> "save job", id |-> 0, job |-> 3, running |-> TRUE],
            [do |-> "save status", id |-> 0, job |-> 3, what |-> "w"],
            [do |-> "statuses", job |-> 3, whats |-> {"w"}]}
           \cup SaveBundles({0}),
     b |-> {[do |-> "jobs", job |-> 3],
            [do |-> "get", table |-> "job", id |-> 1],
            [do |-> "save job", id |-> 1, job |-> 3, running |-> TRUE],
            [do |-> "save status", id |-> 1, job |-> 3, what |-> "v"],
            [do |-> "delete list", ids |-> <<1, 2>>],
            [do |-> "delete", table |-> "bundle", id |-> 1]}
           \cup SaveBundles({1})]

MCTables ==
    {[job |-> <<>>, status |-> <<>>, bundle |-> b] :
       b \in {<<>>, <<[content |-> "o", hash |-> "h", cluster |-> "A"]>>}}

\* Every message, with strings short and long enough for a cut in each of
\* their prefixes to get past the tests of the handlers
Text(n) == [i \in 1..n |-> 96 + i]
Message(id, fields) == [source |-> Text(6), id |-> id, fields |-> fields]

MCBodies ==
    {Message(id, <<7, 3>>) : id \in ById}
    \cup {Message(UPDATE_JOB, <<3, w, 500, d>>) :
            w \in {Text(4), Text(10)}, d \in {<<>>, Text(3)}}
    \cup {Message(DB_JOB_GET_RUNNING_JOBS, <<7>>),
          Message(DB_JOB_SAVE, <<7, 1, 3, 300, 1, 2, Text(12), Text(9), 1, 0, 1>>),
          Message(DB_JOB_SAVE, <<7, 0, 3, 300, 1, 2, <<>>, <<>>, 1, 0, 1>>),
          Message(DB_JOBSTATUS_GET_BY_JOB_ID_AND_WHAT, <<7, 3, Text(2)>>),
          Message(DB_JOBSTATUS_DELETE_BY_ID_LIST, <<7, 3, 1, 2, 300>>),
          Message(DB_JOBSTATUS_SAVE, <<7, 1, 3, Text(6), 500>>),
          Message(DB_BUNDLE_CREATE_OR_UPDATE_JOB, <<7, 1, Text(12), Text(9)>>)}

VARIABLE active  \* which of the three is not at rest

masterVars == <<listVars, dbVars, messageVars, active>>

MasterInit == \/ active = "list" /\ ListInit /\ DbIdle /\ WireIdle
              \/ active = "db" /\ ListInit /\ DbInit /\ WireIdle
              \/ active = "wire" /\ ListInit /\ DbIdle /\ WireInit

MasterNext ==
    /\ \/ active = "list" /\ ListNext /\ UNCHANGED <<dbVars, messageVars>>
       \/ active = "db" /\ DbNext /\ UNCHANGED <<listVars, messageVars>>
       \/ active = "wire" /\ WireNext /\ UNCHANGED <<listVars, dbVars>>
    /\ UNCHANGED active

MasterSpec == MasterInit /\ [][MasterNext]_masterVars

\* Tasks that can run do, and timers run out.
FairMasterSpec == MasterSpec /\ ListFairness

=============================================================================
