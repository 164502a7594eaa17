--------------------------- MODULE ClusterDbProofs ---------------------------
(***************************************************************************)
(* Proofs about the requests of the remote clusters, in the two halves of  *)
(* their handlers: what a request does to the tables (ClusterDb), for any  *)
(* connections, clusters, requests and first contents of the tables, and   *)
(* how it is read from the bytes that have come (WireFormat), for any      *)
(* messages and wherever they are cut.                                     *)
(***************************************************************************)
EXTENDS ClusterDb, WireFormat, FiniteSetTheorems, SequenceTheorems,
        NaturalsInduction, WellFoundedInduction, TLAPS

-----------------------------------------------------------------------------
(* The inductive invariant                                                 *)

\* The ids of a table come from its counter, and its rows have its columns.
TableInv ==
    /\ DOMAIN table = Tables /\ lastId \in [Tables -> Nat]
    /\ \A t \in Tables : Rows(t) \subseteq 1..lastId[t]
    /\ \A i \in Rows("job") : table["job"][i] \in JobRow
    /\ \A i \in Rows("status") : table["status"][i] \in StatusRow
    /\ \A i \in Rows("bundle") : table["bundle"][i] \in BundleRow

BundleSteps == {"update", "insert", "mismatch"}

\* A handler has the request it was given, and beyond the lookup it is one
\* that saves a bundle.
StepInv ==
    /\ step \in [DbConns -> {"idle", "handle"} \cup BundleSteps]
    /\ request \in [DbConns -> DbRequest \cup {NoRequest}]
    /\ found \in [DbConns -> Nat]
    /\ \A c \in DbConns :
          /\ step[c] # "idle" => request[c] \in DbRequest
          /\ step[c] \in BundleSteps => request[c].do = "save bundle"

\* What a cluster was told of has an id already, so that no later insertion
\* takes it.
ReplyInv ==
    /\ reply \in [DbConns -> [to : DbRequest \cup {NoRequest}, id : Nat,
                              rows : SUBSET Nat]]
    /\ handled \in [DbConns -> Nat]
    /\ saved \subseteq [by : STRING, to : DbRequest, id : Nat]
    /\ \A a \in saved :
          /\ a.to.do = "save job" => a.id <= lastId["job"]
          /\ a.to.do = "save bundle" => a.id <= lastId["bundle"]
    /\ \A c \in DbConns : reply[c].to.do \in {"running", "jobs"} =>
          \A i \in reply[c].rows : i <= lastId["job"]

\* Between the lookup and the update of a bundle the row that was found is
\* the one that was asked for, or gone for good.
FoundInv ==
    \A c \in DbConns : step[c] = "update" =>
       /\ found[c] <= lastId["bundle"]
       /\ found[c] \in Rows("bundle") =>
             /\ table["bundle"][found[c]].hash = request[c].hash
             /\ request[c].id = 0 =>
                   table["bundle"][found[c]].cluster = ClusterOf[c]

DbTypeInv == TableInv /\ StepInv
DbInv == DbTypeInv /\ ReplyInv /\ FoundInv /\ RowsStayOwn

-----------------------------------------------------------------------------
(* What the steps do to tables                                             *)

\* The owner of a row that stays does not change, nor does the hash of a
\* bundle, and a new row has a new id.
Kept ==
    /\ lastId' \in [Tables -> Nat]
    /\ \A t \in Tables : lastId[t] <= lastId'[t]
    /\ \A i \in Rows("job") \cap Rows("job")' :
          table'["job"][i].cluster = table["job"][i].cluster
    /\ \A i \in Rows("bundle") \cap Rows("bundle")' :
          /\ table'["bundle"][i].cluster = table["bundle"][i].cluster
          /\ table'["bundle"][i].hash = table["bundle"][i].hash
    /\ \A t \in Tables : \A i \in Rows(t)' : i <= lastId[t] => i \in Rows(t)

\* The rows that table t may hold
RowOf(t) == IF t = "job" THEN JobRow
            ELSE IF t = "status" THEN StatusRow ELSE BundleRow

\* ActiveModel::insert gives the next id to the new row.
LEMMA InsertEffect ==
    ASSUME TableInv, NEW t \in Tables, NEW new \in RowOf(t), Inserts(t, new)
    PROVE  /\ TableInv' /\ Kept
           /\ lastId'[t] = lastId[t] + 1 /\ lastId[t] \in Nat
           /\ table'[t][lastId[t] + 1] = new
<1> DEFINE n == lastId[t] + 1
<1>1. /\ table'[t] = [i \in Rows(t) \cup {n} |->
                        IF i \in Rows(t) THEN table[t][i] ELSE new]
      /\ \A u \in Tables : u # t => table'[u] = table[u]
      /\ DOMAIN table' = Tables
  BY DEF TableInv, Inserts
<1>2. /\ lastId' \in [Tables -> Nat] /\ lastId'[t] = n
      /\ \A u \in Tables : u # t => lastId'[u] = lastId[u]
  BY DEF TableInv, Inserts
<1>3. n \notin Rows(t) /\ lastId[t] \in Nat
  BY DEF TableInv
<1>4. TableInv'
  BY <1>1, <1>2, <1>3 DEF TableInv, Rows, Tables, RowOf
<1>5. Kept
  BY <1>1, <1>2, <1>3 DEF TableInv, Rows, Tables, Kept
<1> QED BY <1>1, <1>2, <1>3, <1>4, <1>5

\* ActiveModel::update of columns that are not the owner or the hash
LEMMA UpdateEffect ==
    ASSUME TableInv, NEW t \in Tables, NEW id \in Rows(t), NEW columns,
           Updates(t, id, columns),
           "cluster" \notin DOMAIN columns, "hash" \notin DOMAIN columns,
           [k \in DOMAIN table[t][id] |->
              IF k \in DOMAIN columns THEN columns[k] ELSE table[t][id][k]]
           \in RowOf(t)
    PROVE  TableInv' /\ Kept /\ id \in Nat /\ lastId' = lastId /\ id <= lastId[t]
<1> DEFINE new == [k \in DOMAIN table[t][id] |->
                     IF k \in DOMAIN columns THEN columns[k] ELSE table[t][id][k]]
<1>1. /\ table'[t] = [table[t] EXCEPT ![id] = new]
      /\ \A u \in Tables : u # t => table'[u] = table[u]
      /\ DOMAIN table' = Tables /\ lastId' = lastId
  BY DEF TableInv, Updates
<1>2. /\ DOMAIN table'[t] = DOMAIN table[t] /\ table'[t][id] = new
      /\ \A i \in Rows(t) : i # id => table'[t][i] = table[t][i]
  BY <1>1 DEF Rows
<1>3. /\ t = "job" => new.cluster = table[t][id].cluster
      /\ t = "bundle" => new.cluster = table[t][id].cluster
                         /\ new.hash = table[t][id].hash
  <2>1. CASE t = "job"
    <3>1. table[t][id] \in JobRow
      BY <2>1 DEF TableInv
    <3>2. "cluster" \in DOMAIN table[t][id]
      BY <3>1 DEF JobRow
    <3> QED BY <2>1, <3>2
  <2>2. CASE t = "bundle"
    <3>1. table[t][id] \in BundleRow
      BY <2>2 DEF TableInv
    <3>2. {"cluster", "hash"} \subseteq DOMAIN table[t][id]
      BY <3>1 DEF BundleRow
    <3> QED BY <2>2, <3>2
  <2> QED BY <2>1, <2>2
<1> HIDE DEF new
<1>4. new \in RowOf(t)
  BY DEF new
<1>5. TableInv'
  BY <1>1, <1>2, <1>4 DEF TableInv, Rows, Tables, RowOf
<1>6. Kept
  BY <1>1, <1>2, <1>3 DEF TableInv, Rows, Tables, Kept
<1> QED BY <1>1, <1>5, <1>6 DEF TableInv

\* A deletion leaves the other rows alone.
LEMMA DeleteEffect ==
    ASSUME TableInv, NEW t \in Tables, NEW ids,
           table' = Without(t, ids) \/ UNCHANGED table, UNCHANGED lastId
    PROVE  TableInv' /\ Kept
<1>1. CASE UNCHANGED table
  BY <1>1 DEF TableInv, Kept, Rows
<1>2. CASE table' = Without(t, ids)
  <2>1. /\ table'[t] = [i \in Rows(t) \ ids |-> table[t][i]]
        /\ \A u \in Tables : u # t => table'[u] = table[u]
        /\ DOMAIN table' = Tables
    BY <1>2 DEF TableInv, Without
  <2>2. TableInv'
    BY <2>1 DEF TableInv, Rows, Tables
  <2>3. Kept
    BY <2>1 DEF TableInv, Rows, Tables, Kept
  <2> QED BY <2>2, <2>3
<1> QED BY <1>1, <1>2

\* What leaves the tables alone
LEMMA SameTables ==
    ASSUME TableInv, UNCHANGED <<table, lastId>>
    PROVE  TableInv' /\ Kept
BY DEF TableInv, Kept, Rows

-----------------------------------------------------------------------------
(* What the steps do to handlers and answers                               *)

\* What was said of saved rows stays true of the rows that are left.
LEMMA KeptOwn ==
    ASSUME DbInv, Kept, NEW a \in saved
    PROVE  /\ a.to.do = "save job" =>
                /\ a.id <= lastId'["job"]
                /\ a.to.id = 0 /\ a.id \in Rows("job")' =>
                      table'["job"][a.id].cluster = a.by
           /\ a.to.do = "save bundle" =>
                /\ a.id <= lastId'["bundle"]
                /\ a.id \in Rows("bundle")' =>
                      /\ table'["bundle"][a.id].hash = a.to.hash
                      /\ a.to.id = 0 => table'["bundle"][a.id].cluster = a.by
<1>1. a.id \in Nat /\ "job" \in Tables /\ "bundle" \in Tables
  BY DEF DbInv, ReplyInv, Tables
<1>2. CASE a.to.do = "save job"
  <2>1. a.id <= lastId["job"]
    BY <1>2 DEF DbInv, ReplyInv
  <2>2. a.id <= lastId'["job"]
    BY <1>1, <2>1 DEF DbInv, DbTypeInv, TableInv, Kept
  <2>3. a.id \in Rows("job")' => a.id \in Rows("job")
    BY <1>1, <2>1 DEF Kept
  <2> QED BY <1>2, <2>2, <2>3 DEF DbInv, RowsStayOwn, Kept
<1>3. CASE a.to.do = "save bundle"
  <2>1. a.id <= lastId["bundle"]
    BY <1>3 DEF DbInv, ReplyInv
  <2>2. a.id <= lastId'["bundle"]
    BY <1>1, <2>1 DEF DbInv, DbTypeInv, TableInv, Kept
  <2>3. a.id \in Rows("bundle")' => a.id \in Rows("bundle")
    BY <1>1, <2>1 DEF Kept
  <2> QED BY <1>3, <2>2, <2>3 DEF DbInv, RowsStayOwn, Kept
<1> QED BY <1>2, <1>3

\* The same of the rows that a cluster was told of.
LEMMA KeptReply ==
    ASSUME DbInv, Kept, NEW c \in DbConns,
           reply[c].to.do \in {"running", "jobs"}, NEW i \in reply[c].rows
    PROVE  /\ i <= lastId'["job"]
           /\ i \in Rows("job")' => table'["job"][i].cluster = ClusterOf[c]
<1>1. i \in Nat /\ "job" \in Tables /\ i <= lastId["job"]
  BY DEF DbInv, ReplyInv, Tables
<1>2. i <= lastId'["job"]
  BY <1>1 DEF DbInv, DbTypeInv, TableInv, Kept
<1>3. i \in Rows("job")' => i \in Rows("job")
  BY <1>1 DEF Kept
<1> QED BY <1>2, <1>3 DEF DbInv, RowsStayOwn, Kept

\* The bundle that another handler has found is still the right one.
LEMMA KeptFound ==
    ASSUME DbInv, Kept, NEW c \in DbConns, step[c] = "update"
    PROVE  /\ found[c] <= lastId'["bundle"]
           /\ found[c] \in Rows("bundle")' =>
                /\ table'["bundle"][found[c]].hash = request[c].hash
                /\ request[c].id = 0 =>
                      table'["bundle"][found[c]].cluster = ClusterOf[c]
<1>1. found[c] \in Nat /\ "bundle" \in Tables /\ found[c] <= lastId["bundle"]
  BY DEF DbInv, DbTypeInv, StepInv, FoundInv, Tables
<1>2. found[c] <= lastId'["bundle"]
  BY <1>1 DEF DbInv, DbTypeInv, TableInv, Kept
<1>3. found[c] \in Rows("bundle")' => found[c] \in Rows("bundle")
  BY <1>1 DEF Kept
<1> QED BY <1>2, <1>3 DEF DbInv, FoundInv, Kept

\* The fields of a response
LEMMA AnswerFields ==
    ASSUME ReplyInv, NEW c \in DbConns, request[c] \in DbRequest,
           NEW id \in Nat, NEW told \in SUBSET Nat, Respond(c, id, told)
    PROVE  /\ reply'[c].to = request[c] /\ reply'[c].rows = told
           /\ reply'[c] \in [to : DbRequest \cup {NoRequest}, id : Nat,
                             rows : SUBSET Nat]
<1>1. reply'[c] = [to |-> request[c], id |-> id, rows |-> told]
  BY DEF ReplyInv, Respond
<1> QED BY <1>1

\* A response counts as one.
LEMMA HandledType ==
    ASSUME ReplyInv, NEW c \in DbConns, NEW id, NEW told, Respond(c, id, told)
    PROVE  handled' \in [DbConns -> Nat]
<1>1. handled \in [DbConns -> Nat]
  BY DEF ReplyInv
<1>2. handled' = [handled EXCEPT ![c] = handled[c] + 1]
  BY DEF Respond
<1> QED BY <1>1, <1>2

\* A response that tells the truth of the row it names keeps the invariant.
LEMMA RespondPreserves ==
    ASSUME DbInv, TableInv', Kept, NEW c \in DbConns, step[c] # "idle",
           NEW id \in Nat, NEW told \in SUBSET Nat, Respond(c, id, told),
           id # 0 /\ request[c].do = "save job" =>
              /\ id <= lastId'["job"]
              /\ request[c].id = 0 => table'["job"][id].cluster = ClusterOf[c],
           id # 0 /\ request[c].do = "save bundle" =>
              /\ id <= lastId'["bundle"]
              /\ table'["bundle"][id].hash = request[c].hash
              /\ request[c].id = 0 => table'["bundle"][id].cluster = ClusterOf[c],
           request[c].do \in {"running", "jobs"} =>
              \A i \in told :
                 /\ i <= lastId'["job"]
                 /\ i \in Rows("job")' => table'["job"][i].cluster = ClusterOf[c]
    PROVE  DbInv'
<1>1. request[c] \in DbRequest /\ ClusterOf[c] \in STRING
  BY DbAssumption DEF DbInv, DbTypeInv, StepInv
<1>2. StepInv'
  BY DEF DbInv, DbTypeInv, StepInv, Respond, NoRequest, BundleSteps
<1>3. FoundInv'
  <2> SUFFICES ASSUME NEW d \in DbConns, step'[d] = "update"
               PROVE  /\ found'[d] <= lastId'["bundle"]
                      /\ found'[d] \in Rows("bundle")' =>
                           /\ table'["bundle"][found'[d]].hash = request'[d].hash
                           /\ request'[d].id = 0 =>
                                table'["bundle"][found'[d]].cluster = ClusterOf[d]
    BY DEF FoundInv
  <2>1. d # c /\ step[d] = "update" /\ found'[d] = found[d] /\ request'[d] = request[d]
    BY DEF DbInv, DbTypeInv, StepInv, Respond
  <2> QED BY <2>1, KeptFound
<1>4. ASSUME NEW a \in saved'
      PROVE  /\ a \in [by : STRING, to : DbRequest, id : Nat]
             /\ a.to.do = "save job" =>
                  /\ a.id <= lastId'["job"]
                  /\ a.to.id = 0 /\ a.id \in Rows("job")' =>
                        table'["job"][a.id].cluster = a.by
             /\ a.to.do = "save bundle" =>
                  /\ a.id <= lastId'["bundle"]
                  /\ a.id \in Rows("bundle")' =>
                        /\ table'["bundle"][a.id].hash = a.to.hash
                        /\ a.to.id = 0 => table'["bundle"][a.id].cluster = a.by
  <2>1. CASE a \in saved
    BY <2>1, KeptOwn DEF DbInv, ReplyInv
  <2>2. CASE a \notin saved
    <3>1. id # 0 /\ a = [by |-> ClusterOf[c], to |-> request[c], id |-> id]
      BY <1>4, <2>2 DEF Respond
    <3> QED BY <1>1, <3>1
  <2> QED BY <2>1, <2>2
<1>5. ASSUME NEW d \in DbConns
      PROVE  /\ reply'[d] \in [to : DbRequest \cup {NoRequest}, id : Nat,
                               rows : SUBSET Nat]
             /\ reply'[d].to.do \in {"running", "jobs"} =>
                  \A i \in reply'[d].rows :
                     /\ i <= lastId'["job"]
                     /\ i \in Rows("job")' =>
                           table'["job"][i].cluster = ClusterOf[d]
  <2>1. CASE d = c
    <3>2. /\ reply'[d].to = request[c] /\ reply'[d].rows = told
          /\ reply'[d] \in [to : DbRequest \cup {NoRequest}, id : Nat,
                            rows : SUBSET Nat]
      BY <1>1, <2>1, AnswerFields DEF DbInv
    <3> QED BY <2>1, <3>2
  <2>2. CASE d # c
    <3>1. reply'[d] = reply[d]
      BY <2>2 DEF DbInv, ReplyInv, Respond
    <3> QED BY <3>1, KeptReply DEF DbInv, ReplyInv
  <2> QED BY <2>1, <2>2
<1>6. /\ reply' \in [DbConns -> [to : DbRequest \cup {NoRequest}, id : Nat,
                                 rows : SUBSET Nat]]
      /\ handled' \in [DbConns -> Nat]
  <2>1. DOMAIN reply' = DbConns /\ reply' = [d \in DbConns |-> reply'[d]]
    BY DEF DbInv, ReplyInv, Respond
  <2>2. handled' \in [DbConns -> Nat]
    BY HandledType DEF DbInv
  <2> QED BY <1>5, <2>1, <2>2
<1>7. ReplyInv'
  BY <1>4, <1>5, <1>6 DEF ReplyInv
<1>8. RowsStayOwn'
  BY <1>4, <1>5 DEF RowsStayOwn
<1> QED BY <1>2, <1>3, <1>7, <1>8 DEF DbInv, DbTypeInv

\* A step that answers nothing keeps what was said.
LEMMA SilentPreserves ==
    ASSUME DbInv, TableInv', Kept, StepInv', FoundInv', UNCHANGED replyVars
    PROVE  DbInv'
<1>1. ReplyInv'
  BY KeptOwn, KeptReply DEF DbInv, ReplyInv, replyVars
<1>2. RowsStayOwn'
  BY KeptOwn, KeptReply DEF DbInv, RowsStayOwn, replyVars
<1> QED BY <1>1, <1>2 DEF DbInv, DbTypeInv

-----------------------------------------------------------------------------
(* Every step keeps the invariant                                          *)

\* The fields of a request that is about to be carried out
LEMMA RequestFields ==
    ASSUME NEW r \in DbRequest
    PROVE  /\ r.do \in {"get", "delete"} => r.table \in Tables /\ r.id \in Nat
           /\ r.do = "jobs" => r.job \in Nat
           /\ r.do = "save job" =>
                r.id \in Nat /\ r.job \in Nat /\ r.running \in BOOLEAN
           /\ r.do = "save status" =>
                r.id \in Nat /\ r.job \in Nat /\ r.what \in STRING
           /\ r.do = "save bundle" =>
                r.id \in Nat /\ r.hash \in STRING /\ r.content \in STRING
BY DEF DbRequest

\* What is left of a sequence, and of a record with a sequence
LEMMA TailType ==
    ASSUME NEW S, NEW q \in Seq(S), q # <<>>
    PROVE  Tail(q) \in Seq(S)
OBVIOUS

\* The ids of a request can be replaced by others of their type.
LEMMA ExceptIds ==
    ASSUME NEW S, NEW T, NEW r \in [do : S, ids : T], NEW w \in T
    PROVE  r.ids \in T /\ [r EXCEPT !.ids = w] \in [do : S, ids : T]
OBVIOUS

\* What is left of a list of ids is a list of ids.
LEMMA ShorterList ==
    ASSUME NEW r \in DbRequest, r.do = "delete list", r.ids # <<>>
    PROVE  [r EXCEPT !.ids = Tail(r.ids)] \in DbRequest
<1>1. r \in [do : {"delete list"}, ids : Seq(Nat)]
  BY DEF DbRequest
<1>2. Tail(r.ids) \in Seq(Nat)
  BY <1>1, ExceptIds, TailType, Zenon
<1>3. [r EXCEPT !.ids = Tail(r.ids)] \in [do : {"delete list"}, ids : Seq(Nat)]
  BY <1>1, <1>2, ExceptIds, Zenon
<1> QED BY <1>3 DEF DbRequest

\* Taking a request on
LEMMA AcceptedPreserves ==
    ASSUME DbInv, NEW c \in DbConns, NEW r \in DbRequests[c], Accepted(c, r)
    PROVE  DbInv'
<1>1. r \in DbRequest
  BY RequestsAssumption
<1>2. TableInv' /\ Kept
  BY SameTables DEF Accepted, DbInv, DbTypeInv
<1>3. StepInv'
  BY <1>1 DEF DbInv, DbTypeInv, StepInv, Accepted, BundleSteps
<1>4. FoundInv'
  BY DEF DbInv, DbTypeInv, StepInv, FoundInv, Accepted, Rows
<1> QED BY <1>2, <1>3, <1>4, SilentPreserves DEF Accepted

\* Queries answer with rows that are there.
LEMMA QueryPreserves ==
    ASSUME DbInv, NEW c \in DbConns, Query(c)
    PROVE  DbInv'
<1>1. TableInv' /\ Kept
  BY SameTables DEF Query, DbInv, DbTypeInv
<1>2. request[c] \in DbRequest /\ step[c] # "idle"
  BY DEF Query, DbInv, DbTypeInv, StepInv
<1>3. \A t \in Tables : \A i \in Rows(t) : i \in Nat /\ i <= lastId[t]
  BY DEF DbInv, DbTypeInv, TableInv
<1>4. Matches(c, request[c]) \in SUBSET Nat
  BY <1>2, <1>3, RequestFields DEF Matches, Tables
<1>5. request[c].do \in {"running", "jobs"} =>
        \A i \in Matches(c, request[c]) :
           i \in Rows("job") /\ table["job"][i].cluster = ClusterOf[c]
  BY DEF Matches
<1>6. request[c].do \in {"running", "jobs"} =>
        \A i \in Matches(c, request[c]) :
           /\ i <= lastId'["job"]
           /\ i \in Rows("job")' => table'["job"][i].cluster = ClusterOf[c]
  BY <1>3, <1>5 DEF Query, Tables
<1>7. CASE Respond(c, 0, Matches(c, request[c]))
  BY <1>1, <1>2, <1>4, <1>6, <1>7, RespondPreserves
<1>8. CASE Respond(c, 0, {})
  BY <1>1, <1>2, <1>8, RespondPreserves
<1> QED BY <1>7, <1>8 DEF Query

\* An answer without rows says nothing.
LEMMA EmptyAnswer ==
    ASSUME DbInv, TableInv', Kept, NEW c \in DbConns, step[c] # "idle",
           Respond(c, 0, {})
    PROVE  DbInv'
BY RespondPreserves

\* A save that fails says so.
LEMMA SaveFailsPreserves ==
    ASSUME DbInv, NEW c \in DbConns, step[c] # "idle", SaveFails(c)
    PROVE  DbInv'
BY SameTables, EmptyAnswer DEF SaveFails, DbInv, DbTypeInv

\* Deletions take rows away and bring none.
LEMMA DeletePreserves ==
    ASSUME DbInv, NEW c \in DbConns,
           DeleteById(c) \/ DeleteNext(c) \/ DeletedList(c)
    PROVE  DbInv'
<1>1. request[c] \in DbRequest /\ step[c] # "idle" /\ TableInv
  BY DEF DeleteById, DeleteNext, DeletedList, DbInv, DbTypeInv, StepInv
<1>2. CASE DeleteById(c)
  <2>1. request[c].table \in Tables
    BY <1>1, <1>2, RequestFields DEF DeleteById
  <2>2. TableInv' /\ Kept
    BY <1>1, <1>2, <2>1, DeleteEffect DEF DeleteById
  <2> QED BY <1>1, <1>2, <2>2, EmptyAnswer DEF DeleteById
<1>3. CASE DeletedList(c)
  BY <1>1, <1>3, SameTables, EmptyAnswer DEF DeletedList
<1>4. CASE DeleteNext(c)
  <2>1. TableInv' /\ Kept
    BY <1>1, <1>4, DeleteEffect DEF DeleteNext, Tables
  <2>5. [request[c] EXCEPT !.ids = Tail(request[c].ids)] \in DbRequest
    BY <1>1, <1>4, ShorterList DEF DeleteNext
  <2>6. /\ request' = [request EXCEPT ![c] = [@ EXCEPT !.ids = Tail(request[c].ids)]]
        /\ UNCHANGED <<step, found, replyVars>> /\ step[c] = "handle"
    BY <1>4 DEF DeleteNext
  <2>7. StepInv'
    BY <2>5, <2>6 DEF DbInv, DbTypeInv, StepInv, BundleSteps
  <2>8. FoundInv'
    <3> SUFFICES ASSUME NEW d \in DbConns, step'[d] = "update"
                 PROVE  /\ found'[d] <= lastId'["bundle"]
                        /\ found'[d] \in Rows("bundle")' =>
                           /\ table'["bundle"][found'[d]].hash = request'[d].hash
                           /\ request'[d].id = 0 =>
                                table'["bundle"][found'[d]].cluster = ClusterOf[d]
      BY DEF FoundInv
    <3>1. step[d] = "update" /\ found'[d] = found[d] /\ request'[d] = request[d]
      BY <2>6 DEF DbInv, DbTypeInv, StepInv
    <3> QED BY <2>1, <3>1, KeptFound
  <2> QED BY <2>1, <2>6, <2>7, <2>8, SilentPreserves
<1> QED BY <1>2, <1>3, <1>4

\* The answers to the three kinds of saves
LEMMA SavedJob ==
    ASSUME DbInv, TableInv', Kept, NEW c \in DbConns, step[c] # "idle",
           request[c].do = "save job", NEW id \in Nat, Respond(c, id, {}),
           id <= lastId'["job"],
           request[c].id = 0 => table'["job"][id].cluster = ClusterOf[c]
    PROVE  DbInv'
BY RespondPreserves

\* The response to a saved status keeps the invariant: a status has no
\* cluster.
LEMMA SavedStatus ==
    ASSUME DbInv, TableInv', Kept, NEW c \in DbConns, step[c] # "idle",
           request[c].do = "save status", NEW id \in Nat, Respond(c, id, {})
    PROVE  DbInv'
BY RespondPreserves

\* The response to a saved bundle keeps the invariant when the bundle has the
\* hash of the request and, if it was looked up by it, the cluster.
LEMMA SavedBundle ==
    ASSUME DbInv, TableInv', Kept, NEW c \in DbConns, step[c] # "idle",
           request[c].do = "save bundle", NEW id \in Nat, Respond(c, id, {}),
           id <= lastId'["bundle"],
           table'["bundle"][id].hash = request[c].hash,
           request[c].id = 0 => table'["bundle"][id].cluster = ClusterOf[c]
    PROVE  DbInv'
BY RespondPreserves

\* A job that is saved stays with its cluster, and a new one is the cluster's
\* own.
LEMMA SaveJobPreserves ==
    ASSUME DbInv, NEW c \in DbConns, SaveJob(c)
    PROVE  DbInv'
<1> DEFINE r == request[c]
<1>1. /\ r \in DbRequest /\ step[c] # "idle" /\ TableInv
      /\ r.do = "save job" /\ ClusterOf[c] \in STRING
  BY DbAssumption DEF SaveJob, DbInv, DbTypeInv, StepInv
<1>2. r.id \in Nat /\ r.job \in Nat /\ r.running \in BOOLEAN
  BY <1>1, RequestFields
<1>3. ASSUME r.id = 0, Respond(c, lastId["job"] + 1, {}),
             Inserts("job", [job |-> r.job, running |-> r.running,
                             cluster |-> ClusterOf[c]])
      PROVE  DbInv'
  <2> DEFINE new == [job |-> r.job, running |-> r.running, cluster |-> ClusterOf[c]]
  <2>1. new \in RowOf("job") /\ new.cluster = ClusterOf[c] /\ "job" \in Tables
    BY <1>1, <1>2 DEF RowOf, JobRow, Tables
  <2> HIDE DEF new
  <2>2. Inserts("job", new)
    BY <1>3 DEF new
  <2>3. /\ TableInv' /\ Kept /\ lastId["job"] \in Nat
        /\ lastId'["job"] = lastId["job"] + 1
        /\ table'["job"][lastId["job"] + 1] = new
    BY <1>1, <2>1, <2>2, InsertEffect
  <2>4. lastId["job"] + 1 \in Nat /\ lastId["job"] + 1 <= lastId'["job"]
    BY <2>3
  <2> QED BY <1>1, <1>3, <2>1, <2>3, <2>4, SavedJob
<1>4. ASSUME r.id # 0, r.id \in Rows("job"), Respond(c, r.id, {}),
             Updates("job", r.id, JobUpdate(c, r))
      PROVE  DbInv'
  <2> DEFINE columns == JobUpdate(c, r)
  <2>1. /\ DOMAIN columns = {"job", "running"}
        /\ columns["job"] = r.job /\ columns["running"] = r.running
    BY DEF JobUpdate, JobColumns
  <2>2. table["job"][r.id] \in JobRow /\ "job" \in Tables
    BY <1>1, <1>4 DEF TableInv, Tables
  <2> HIDE DEF columns
  <2>3. [k \in DOMAIN table["job"][r.id] |->
           IF k \in DOMAIN columns THEN columns[k] ELSE table["job"][r.id][k]]
        \in RowOf("job")
    <3>1. /\ DOMAIN table["job"][r.id] = {"job", "running", "cluster"}
          /\ table["job"][r.id]["cluster"] \in STRING
      BY <2>2 DEF JobRow
    <3>2. [k \in DOMAIN table["job"][r.id] |->
             IF k \in DOMAIN columns THEN columns[k] ELSE table["job"][r.id][k]]
            = [job |-> r.job, running |-> r.running,
               cluster |-> table["job"][r.id]["cluster"]]
      BY <2>1, <3>1
    <3> QED BY <1>2, <3>1, <3>2 DEF RowOf, JobRow
  <2>4. /\ TableInv' /\ Kept /\ lastId' = lastId /\ r.id <= lastId["job"]
    <3>1. Updates("job", r.id, columns)
      BY <1>4 DEF columns
    <3> QED BY <1>1, <1>4, <2>1, <2>2, <2>3, <3>1, UpdateEffect
  <2> QED BY <1>1, <1>2, <1>4, <2>4, SavedJob
<1> QED BY <1>1, <1>3, <1>4, SaveFailsPreserves DEF SaveJob

\* Statuses belong to no cluster.
LEMMA SaveStatusPreserves ==
    ASSUME DbInv, NEW c \in DbConns, SaveStatus(c)
    PROVE  DbInv'
<1> DEFINE r == request[c]
           columns == [job |-> r.job, what |-> r.what]
<1>1. /\ r \in DbRequest /\ step[c] # "idle" /\ TableInv
      /\ r.do = "save status" /\ "status" \in Tables
  BY DEF SaveStatus, DbInv, DbTypeInv, StepInv, Tables
<1>2. r.id \in Nat /\ r.job \in Nat /\ r.what \in STRING
  BY <1>1, RequestFields
<1>3. columns \in RowOf("status")
  BY <1>2 DEF RowOf, StatusRow
<1>4. /\ DOMAIN columns = {"job", "what"}
      /\ columns["job"] = r.job /\ columns["what"] = r.what
  OBVIOUS
<1> HIDE DEF columns
<1>5. ASSUME Respond(c, lastId["status"] + 1, {}), Inserts("status", columns)
      PROVE  DbInv'
  <2>1. TableInv' /\ Kept /\ lastId["status"] \in Nat
    BY <1>1, <1>3, <1>5, InsertEffect
  <2>2. lastId["status"] + 1 \in Nat
    BY <2>1
  <2> QED BY <1>1, <1>5, <2>1, <2>2, SavedStatus
<1>6. ASSUME r.id \in Rows("status"), Respond(c, r.id, {}),
             Updates("status", r.id, columns)
      PROVE  DbInv'
  <2>1. table["status"][r.id] \in StatusRow
    BY <1>1, <1>6 DEF TableInv
  <2>2. [k \in DOMAIN table["status"][r.id] |->
           IF k \in DOMAIN columns THEN columns[k] ELSE table["status"][r.id][k]]
        \in RowOf("status")
    <3>1. DOMAIN table["status"][r.id] = {"job", "what"}
      BY <2>1 DEF StatusRow
    <3>2. [k \in DOMAIN table["status"][r.id] |->
             IF k \in DOMAIN columns THEN columns[k] ELSE table["status"][r.id][k]]
            = [job |-> r.job, what |-> r.what]
      BY <1>4, <3>1
    <3> QED BY <1>2, <3>2 DEF RowOf, StatusRow
  <2>3. TableInv' /\ Kept
    BY <1>1, <1>4, <1>6, <2>2, UpdateEffect
  <2> QED BY <1>1, <1>2, <1>6, <2>3, SavedStatus
<1> QED BY <1>1, <1>5, <1>6, SaveFailsPreserves DEF SaveStatus, columns

\* The lookup of a bundle finds the one that was asked for.
LEMMA FindBundlePreserves ==
    ASSUME DbInv, NEW c \in DbConns, FindBundle(c)
    PROVE  DbInv'
<1> DEFINE r == request[c]
<1>1. /\ r \in DbRequest /\ r.do = "save bundle" /\ step[c] = "handle"
      /\ TableInv /\ UNCHANGED <<table, lastId, request, replyVars>>
  BY DEF FindBundle, DbInv, DbTypeInv, StepInv
<1>2. TableInv' /\ Kept
  BY <1>1, SameTables
<1>3. r.id \in Nat
  BY <1>1, RequestFields
<1>4. CASE step' = [step EXCEPT ![c] = "insert"] /\ UNCHANGED found
  <2>1. StepInv'
    BY <1>1, <1>4 DEF DbInv, DbTypeInv, StepInv, BundleSteps
  <2>2. FoundInv'
    BY <1>1, <1>4 DEF DbInv, DbTypeInv, StepInv, FoundInv, Rows
  <2> QED BY <1>1, <1>2, <2>1, <2>2, SilentPreserves
<1>5. ASSUME NEW i \in Rows("bundle"),
             IF r.id > 0 THEN i = r.id
             ELSE /\ table["bundle"][i].hash = r.hash
                  /\ table["bundle"][i].cluster = ClusterOf[c],
             found' = [found EXCEPT ![c] = i],
             step' = [step EXCEPT ![c] = IF table["bundle"][i].hash = r.hash
                                           THEN "update" ELSE "mismatch"]
      PROVE  DbInv'
  <2>1. i \in Nat /\ i <= lastId["bundle"]
    <3>1. Rows("bundle") \subseteq 1..lastId["bundle"] /\ lastId["bundle"] \in Nat
      BY <1>1 DEF TableInv, Tables
    <3> QED BY <3>1
  <2>2. StepInv'
    BY <1>1, <1>5, <2>1 DEF DbInv, DbTypeInv, StepInv, BundleSteps
  <2>3. r.id = 0 => table["bundle"][i].cluster = ClusterOf[c]
    BY <1>3, <1>5
  <2>4. FoundInv'
    <3> SUFFICES ASSUME NEW d \in DbConns, step'[d] = "update"
                 PROVE  /\ found'[d] <= lastId["bundle"]
                        /\ found'[d] \in Rows("bundle") =>
                           /\ table["bundle"][found'[d]].hash = request[d].hash
                           /\ request[d].id = 0 =>
                                table["bundle"][found'[d]].cluster = ClusterOf[d]
      BY <1>1 DEF FoundInv, Rows
    <3>1. CASE d = c
      <4>1. found'[d] = i /\ table["bundle"][i].hash = r.hash
        BY <1>5, <3>1 DEF DbInv, DbTypeInv, StepInv
      <4> QED BY <2>1, <2>3, <3>1, <4>1
    <3>2. CASE d # c
      BY <1>5, <3>2 DEF DbInv, DbTypeInv, StepInv, FoundInv
    <3> QED BY <3>1, <3>2
  <2> QED BY <1>1, <1>2, <2>2, <2>4, SilentPreserves
<1> QED BY <1>4, <1>5 DEF FindBundle

\* The update changes the content of that bundle, if it is still there.
LEMMA UpdateBundlePreserves ==
    ASSUME DbInv, NEW c \in DbConns, UpdateBundle(c)
    PROVE  DbInv'
<1> DEFINE r == request[c]
           id == found[c]
           columns == [content |-> r.content]
<1>1. /\ r \in DbRequest /\ r.do = "save bundle" /\ step[c] = "update"
      /\ TableInv /\ id \in Nat /\ "bundle" \in Tables
  BY DEF UpdateBundle, DbInv, DbTypeInv, StepInv, BundleSteps, Tables
<1>2. r.content \in STRING
  BY <1>1, RequestFields
<1>3. DOMAIN columns = {"content"} /\ columns["content"] = r.content
  OBVIOUS
<1> HIDE DEF columns
<1>4. ASSUME id \in Rows("bundle"), Respond(c, id, {}),
             Updates("bundle", id, columns)
      PROVE  DbInv'
  <2>1. table["bundle"][id] \in BundleRow
    BY <1>1, <1>4 DEF TableInv
  <2>2. [k \in DOMAIN table["bundle"][id] |->
           IF k \in DOMAIN columns THEN columns[k] ELSE table["bundle"][id][k]]
        \in RowOf("bundle")
    <3>1. /\ DOMAIN table["bundle"][id] = {"content", "hash", "cluster"}
          /\ table["bundle"][id]["hash"] \in STRING
          /\ table["bundle"][id]["cluster"] \in STRING
      BY <2>1 DEF BundleRow
    <3>2. [k \in DOMAIN table["bundle"][id] |->
             IF k \in DOMAIN columns THEN columns[k] ELSE table["bundle"][id][k]]
            = [content |-> r.content, hash |-> table["bundle"][id]["hash"],
               cluster |-> table["bundle"][id]["cluster"]]
      BY <1>3, <3>1
    <3> QED BY <1>2, <3>1, <3>2 DEF RowOf, BundleRow
  <2>3. TableInv' /\ Kept /\ lastId' = lastId
    BY <1>1, <1>3, <1>4, <2>2, UpdateEffect
  <2>4. id \in Rows("bundle")'
    BY <1>4 DEF Updates, Rows
  <2>5. /\ id <= lastId'["bundle"]
        /\ table'["bundle"][id].hash = r.hash
        /\ r.id = 0 => table'["bundle"][id].cluster = ClusterOf[c]
    BY <1>1, <2>3, <2>4, KeptFound
  <2> QED BY <1>1, <1>4, <2>3, <2>5, SavedBundle
<1> QED BY <1>1, <1>4, SaveFailsPreserves DEF UpdateBundle, columns

\* A bundle that is inserted is the cluster's own, with the hash it sent.
LEMMA InsertBundlePreserves ==
    ASSUME DbInv, NEW c \in DbConns, InsertBundle(c)
    PROVE  DbInv'
<1> DEFINE r == request[c]
           new == [content |-> r.content, hash |-> r.hash, cluster |-> ClusterOf[c]]
<1>1. /\ r \in DbRequest /\ r.do = "save bundle" /\ step[c] # "idle"
      /\ TableInv /\ "bundle" \in Tables /\ ClusterOf[c] \in STRING
  BY DbAssumption
     DEF InsertBundle, DbInv, DbTypeInv, StepInv, BundleSteps, Tables
<1>2. r.hash \in STRING /\ r.content \in STRING
  BY <1>1, RequestFields
<1>3. new \in RowOf("bundle") /\ new.hash = r.hash /\ new.cluster = ClusterOf[c]
  BY <1>1, <1>2 DEF RowOf, BundleRow
<1> HIDE DEF new
<1>4. ASSUME Inserts("bundle", new), Respond(c, lastId["bundle"] + 1, {})
      PROVE  DbInv'
  <2>1. /\ TableInv' /\ Kept /\ lastId["bundle"] \in Nat
        /\ lastId'["bundle"] = lastId["bundle"] + 1
        /\ table'["bundle"][lastId["bundle"] + 1] = new
    BY <1>1, <1>3, <1>4, InsertEffect
  <2>2. lastId["bundle"] + 1 \in Nat /\ lastId["bundle"] + 1 <= lastId'["bundle"]
    BY <2>1
  <2> QED BY <1>1, <1>3, <1>4, <2>1, <2>2, SavedBundle
<1> QED BY <1>1, <1>4, SaveFailsPreserves DEF InsertBundle, new

\* A bundle whose hash differs is refused.
LEMMA RefuseBundlePreserves ==
    ASSUME DbInv, NEW c \in DbConns, RefuseBundle(c)
    PROVE  DbInv'
BY SaveFailsPreserves DEF RefuseBundle

-----------------------------------------------------------------------------
(* Theorems                                                                *)

\* The tables a server starts with have ids from their counters.
LEMMA DbInitInv == DbInit => DbInv
<1> SUFFICES ASSUME DbInit PROVE DbInv
  OBVIOUS
<1>1. table \in [job : Seq(JobRow), status : Seq(StatusRow), bundle : Seq(BundleRow)]
  BY TablesAssumption DEF DbInit
<1>2. /\ DOMAIN table = Tables /\ table["job"] \in Seq(JobRow)
      /\ table["status"] \in Seq(StatusRow) /\ table["bundle"] \in Seq(BundleRow)
  BY <1>1 DEF Tables
<1>3. /\ Rows("job") = 1..Len(table["job"]) /\ Len(table["job"]) \in Nat
      /\ \A i \in Rows("job") : table["job"][i] \in JobRow
  BY <1>2 DEF Rows
<1>4. /\ Rows("status") = 1..Len(table["status"]) /\ Len(table["status"]) \in Nat
      /\ \A i \in Rows("status") : table["status"][i] \in StatusRow
  BY <1>2 DEF Rows
<1>5. /\ Rows("bundle") = 1..Len(table["bundle"]) /\ Len(table["bundle"]) \in Nat
      /\ \A i \in Rows("bundle") : table["bundle"][i] \in BundleRow
  BY <1>2 DEF Rows
<1>6. \A n \in Nat : Cardinality(1..n) = n
  BY FS_Interval
<1>7. /\ lastId \in [Tables -> Nat]
      /\ \A t \in Tables : Rows(t) = 1..lastId[t]
  BY <1>3, <1>4, <1>5, <1>6 DEF DbInit, Tables
<1>8. TableInv
  BY <1>2, <1>3, <1>4, <1>5, <1>7 DEF TableInv
<1>9. StepInv /\ FoundInv
  BY DEF DbInit, StepInv, FoundInv, BundleSteps, NoRequest
<1>10. ReplyInv
  BY DEF DbInit, ReplyInv, NoRequest
<1>11. RowsStayOwn
  BY DEF DbInit, RowsStayOwn, NoRequest
<1> QED BY <1>8, <1>9, <1>10, <1>11 DEF DbInv, DbTypeInv

\* Every step of every handler keeps the invariant.
LEMMA DbStep == DbInv /\ [DbNext]_dbVars => DbInv'
<1> SUFFICES ASSUME DbInv, [DbNext]_dbVars PROVE DbInv'
  OBVIOUS
<1>1. CASE UNCHANGED dbVars
  BY <1>1 DEF dbVars, replyVars, DbInv, DbTypeInv, TableInv, StepInv, ReplyInv,
              FoundInv, RowsStayOwn, Rows
<1>2. ASSUME NEW c \in DbConns, NEW r \in DbRequests[c], Accepted(c, r)
      PROVE  DbInv'
  BY <1>2, AcceptedPreserves
<1>3. ASSUME NEW c \in DbConns, Query(c) PROVE DbInv'
  BY <1>3, QueryPreserves
<1>4. ASSUME NEW c \in DbConns, DeleteById(c) \/ DeleteNext(c) \/ DeletedList(c)
      PROVE  DbInv'
  BY <1>4, DeletePreserves
<1>5. ASSUME NEW c \in DbConns, SaveJob(c) PROVE DbInv'
  BY <1>5, SaveJobPreserves
<1>6. ASSUME NEW c \in DbConns, SaveStatus(c) PROVE DbInv'
  BY <1>6, SaveStatusPreserves
<1>7. ASSUME NEW c \in DbConns, FindBundle(c) PROVE DbInv'
  BY <1>7, FindBundlePreserves
<1>8. ASSUME NEW c \in DbConns, RefuseBundle(c) PROVE DbInv'
  BY <1>8, RefuseBundlePreserves
<1>9. ASSUME NEW c \in DbConns, UpdateBundle(c) PROVE DbInv'
  BY <1>9, UpdateBundlePreserves
<1>10. ASSUME NEW c \in DbConns, InsertBundle(c) PROVE DbInv'
  BY <1>10, InsertBundlePreserves
<1> QED BY <1>1, <1>2, <1>3, <1>4, <1>5, <1>6, <1>7, <1>8, <1>9, <1>10 DEF DbNext

\* The inductive invariant holds, whatever the requests are and however the
\* handlers of the connections interleave.
THEOREM DbInductive == DbSpec => []DbInv
BY DbInitInv, DbStep, PTL DEF DbSpec

\* Rows stay with the cluster they were made for: no save, update or deletion
\* of cluster_db.rs on any connection turns a row that a cluster was told of
\* into another cluster's, or a bundle into one with another hash.
THEOREM OwnRows == DbSpec => []RowsStayOwn
<1>1. DbInv => RowsStayOwn
  BY DEF DbInv
<1> QED BY <1>1, DbInductive, PTL

-----------------------------------------------------------------------------
(* The codec of the messages                                               *)

\* A number below Large is made of its three bytes.
LEMMA DivMod ==
    ASSUME NEW v \in Nat, v < 256 * 256 * 256
    PROVE  /\ v % 256 \in Nat /\ (v \div 256) % 256 \in Nat
           /\ (v \div (256 * 256)) % 256 \in Nat
           /\ v = (v % 256) + 256 * ((v \div 256) % 256)
                   + 256 * 256 * ((v \div (256 * 256)) % 256)
OBVIOUS

\* from_le_bytes undoes to_le_bytes, at every width of the protocol.
LEMMA LeBytes ==
    ASSUME NEW v, IsNumber(v), NEW w \in {1, 4, 8}, w = 1 => v \in {0, 1}
    PROVE  /\ ToLeBytes(v, w) \in Seq(Nat) /\ Len(ToLeBytes(v, w)) = w
           /\ FromLeBytes(ToLeBytes(v, w)) = v
<1> DEFINE b == ToLeBytes(v, w)
           byte1 == v % 256
           byte2 == (v \div 256) % 256
           byte3 == (v \div (256 * 256)) % 256
<1>1. v \in Nat /\ v < 256 * 256 * 256 /\ w \in Nat
  BY DEF IsNumber, Large
<1>2. b = [i \in 1..w |-> CASE i = 1 -> byte1 [] i = 2 -> byte2 [] i = 3 -> byte3
                             [] OTHER -> 0]
  BY DEF ToLeBytes
<1>3. /\ byte1 \in Nat /\ byte2 \in Nat /\ byte3 \in Nat
      /\ v = byte1 + 256 * byte2 + 256 * 256 * byte3
  BY <1>1, DivMod
<1>0. w = 1 => byte1 = v
  BY <1>1
<1> HIDE DEF b, byte1, byte2, byte3
<1>4. \A i \in 1..w : b[i] \in Nat
  BY <1>2, <1>3
<1>5. b \in Seq(Nat) /\ Len(b) = w
  <2>1. b \in [1..w -> Nat]
    BY <1>2, <1>4
  <2> QED
    BY <2>1, <1>1
<1>6. /\ b[1] = byte1 /\ (w # 1 => b[2] = byte2 /\ b[3] = byte3)
      /\ \A i \in 4..w : b[i] = 0
  BY <1>2
<1>7. ~ \E i \in 4..Len(b) : b[i] # 0
  BY <1>5, <1>6
<1>8. FromLeBytes(b) = v
  <2>1. CASE w = 1
    BY <1>0, <1>3, <1>5, <1>6, <1>7, <2>1 DEF FromLeBytes
  <2>2. CASE w # 1
    <3>1. 1 <= Len(b) /\ 2 <= Len(b) /\ 3 <= Len(b)
      BY <1>5, <2>2
    <3>2. FromLeBytes(b) = b[1] + 256 * b[2] + 256 * 256 * b[3]
      BY <3>1, <1>7 DEF FromLeBytes
    <3> QED
      BY <3>2, <1>3, <1>6, <2>2
  <2> QED
    BY <2>1, <2>2
<1> QED
  BY <1>5, <1>8 DEF b

\* A string that may be sent is a sequence of bytes, and valid UTF-8.
LEMMA TextSeq ==
    ASSUME NEW s, IsText(s)
    PROVE  s \in Seq(Nat) /\ IsNumber(Len(s)) /\ FromUtf8(s) = s
<1>1. Len(s) \in Nat /\ \A i \in 1..Len(s) : s[i] \in Nat /\ s[i] < 128
  BY DEF IsText, IsNumber
<1>2. s \in [1..Len(s) -> Nat]
  BY <1>1 DEF IsText
<1>3. s \in Seq(Nat)
  BY <1>1, <1>2
<1>4. ~ \E i \in 1..Len(s) : s[i] >= 128
  BY <1>1
<1> QED
  BY <1>3, <1>4 DEF IsText, FromUtf8

\* A set of naturals has a least member.
LEMMA LeastNat ==
    ASSUME NEW T \in SUBSET Nat, T # {}
    PROVE  \E n \in T : \A m \in T : n <= m
<1> DEFINE R == OpToRel(<, Nat)
<1>1. IsWellFoundedOn(R, Nat)
  BY NatLessThanWellFounded
<1>2. \A x, y \in Nat : <<y, x>> \in R <=> y < x
  BY DEF OpToRel
<1> HIDE DEF R
<1>3. PICK n \in T : \A m \in T : ~ (<<m, n>> \in R)
  BY <1>1, WFMin
<1>4. ASSUME NEW m \in T PROVE n <= m
  <2>1. n \in Nat /\ m \in Nat /\ ~(m < n)
    BY <1>2, <1>3
  <2> QED
    BY <2>1
<1> QED
  BY <1>4

\* Induction, for a set: one that has zero and the successors of its members
\* has every number.
LEMMA SetInduction ==
    ASSUME NEW S, 0 \in S, \A n \in Nat : n \in S => n + 1 \in S
    PROVE  Nat \subseteq S
<1> DEFINE T == Nat \ S
<1>1. SUFFICES ASSUME T # {} PROVE FALSE
  OBVIOUS
<1>2. PICK n \in T : \A k \in T : n <= k
  <2>1. T \in SUBSET Nat
    OBVIOUS
  <2> HIDE DEF T
  <2> QED
    BY <1>1, <2>1, LeastNat
<1>3. n \in Nat /\ n \notin S /\ n # 0
  BY <1>2
<1>4. n - 1 \in Nat /\ n - 1 \notin T /\ (n - 1) + 1 = n
  BY <1>2, <1>3
<1> QED
  BY <1>3, <1>4

\* The prefixes of a concatenation
LEMMA JoinExists ==
    ASSUME NEW N \in Nat, NEW part
    PROVE  \E f : f = [i \in 0..N |-> IF i = 0 THEN <<>> ELSE f[i - 1] \o part[i]]
<1> DEFINE Good(n) == \E f : f = [i \in 0..n |-> IF i = 0 THEN <<>> ELSE f[i - 1] \o part[i]]
           S == {n \in Nat : Good(n)}
<1>1. Good(0)
  <2> DEFINE g == [i \in 0..0 |-> <<>>]
  <2>1. g = [i \in 0..0 |-> IF i = 0 THEN <<>> ELSE g[i - 1] \o part[i]]
    OBVIOUS
  <2> QED
    BY <2>1
<1>2. ASSUME NEW n \in Nat, Good(n) PROVE Good(n + 1)
  <2>1. PICK f : f = [i \in 0..n |-> IF i = 0 THEN <<>> ELSE f[i - 1] \o part[i]]
    BY <1>2
  <2> DEFINE g == [i \in 0..(n + 1) |-> IF i = n + 1 THEN f[n] \o part[i] ELSE f[i]]
  <2>2. ASSUME NEW i \in 0..(n + 1)
        PROVE  g[i] = IF i = 0 THEN <<>> ELSE g[i - 1] \o part[i]
    <3>1. CASE i = n + 1
      BY <3>1
    <3>2. CASE i \in 1..n
      <4>1. f[i] = f[i - 1] \o part[i]
        BY <2>1, <3>2
      <4>2. i # n + 1 /\ i - 1 # n + 1 /\ i - 1 \in 0..(n + 1) /\ i # 0
        BY <3>2
      <4> QED
        BY <4>1, <4>2
    <3>3. CASE i = 0
      <4>1. f[0] = <<>> /\ 0 # n + 1
        BY <2>1
      <4> QED
        BY <3>3, <4>1
    <3> QED
      BY <3>1, <3>2, <3>3
  <2>3. g = [i \in 0..(n + 1) |-> IF i = 0 THEN <<>> ELSE g[i - 1] \o part[i]]
    <3>1. g = [i \in 0..(n + 1) |-> g[i]]
      OBVIOUS
    <3> HIDE DEF g
    <3> QED
      BY <3>1, <2>2
  <2> HIDE DEF g
  <2> QED
    BY <2>3
<1> HIDE DEF Good
<1>3. Nat \subseteq S
  <2>1. 0 \in S /\ \A n \in Nat : n \in S => n + 1 \in S
    BY <1>1, <1>2
  <2> HIDE DEF S
  <2> QED
    BY <2>1, SetInduction
<1>4. Good(N)
  BY <1>3
<1> QED
  BY <1>4 DEF Good

\* Pushed is what its recursive definition says.
LEMMA PushedBytes ==
    ASSUME NEW m, Len(Values(m)) \in Nat
    PROVE  Pushed(m) = [i \in 0..Len(Values(m)) |->
              IF i = 0 THEN <<>> ELSE Pushed(m)[i - 1] \o Push(Types(m)[i], Values(m)[i])]
<1> DEFINE N == Len(Values(m))
           part == [i \in 1..N |-> Push(Types(m)[i], Values(m)[i])]
           Body(f) == [i \in 0..N |-> IF i = 0 THEN <<>>
                        ELSE f[i - 1] \o Push(Types(m)[i], Values(m)[i])]
<1>1. PICK f : f = [i \in 0..N |-> IF i = 0 THEN <<>> ELSE f[i - 1] \o part[i]]
  BY JoinExists
<1>2. f = Body(f)
  <2>1. \A i \in 0..N : i # 0 => part[i] = Push(Types(m)[i], Values(m)[i])
    OBVIOUS
  <2> HIDE DEF part
  <2> QED
    BY <1>1, <2>1
<1>3. Pushed(m) = CHOOSE g : g = Body(g)
  BY DEF Pushed
<1> HIDE DEF Body
<1>4. Pushed(m) = Body(Pushed(m))
  BY <1>2, <1>3
<1> QED
  BY <1>4 DEF Body

\* The types of the fields
FieldTypes == {"string", "bool", "uint", "ulong"}

\* The fields of the layouts are of the types of the protocol.
LEMMA LayoutTypes ==
    ASSUME NEW id \in Ids
    PROVE  /\ Len(Layout(id)) \in Nat
           /\ \A i \in 1..Len(Layout(id)) : Layout(id)[i] \in FieldTypes
BY DEF Ids, Layout, FieldTypes

\* The fields of a body, with the header
LEMMA BodyFields ==
    ASSUME NEW m \in Bodies
    PROVE  LET N == Len(m.fields) + 2 IN
           /\ Len(m.fields) \in Nat /\ Len(Values(m)) = N
           /\ Values(m)[1] = m.source /\ Values(m)[2] = m.id
           /\ Types(m)[1] = "string" /\ Types(m)[2] = "uint"
           /\ \A i \in 1..Len(m.fields) :
                 /\ Values(m)[i + 2] = m.fields[i]
                 /\ Types(m)[i + 2] = IF i <= Len(Layout(m.id)) THEN Layout(m.id)[i] ELSE "ulong"
           /\ \A k \in 1..N : Types(m)[k] \in FieldTypes /\ HasType(Values(m)[k], Types(m)[k])
<1> DEFINE n == Len(m.fields)
           type == [i \in 1..n |-> IF i <= Len(Layout(m.id)) THEN Layout(m.id)[i] ELSE "ulong"]
<1>1. n \in Nat /\ m.id \in Ids
  BY BodiesAssumption, LayoutTypes
<1>2. m.fields \in Seq({m.fields[i] : i \in 1..n})
  <2>1. m.fields \in [1..n -> {m.fields[i] : i \in 1..n}]
    BY BodiesAssumption
  <2> QED
    BY <1>1, <2>1
<1>3. type \in Seq(FieldTypes) /\ Len(type) = n
  <2>1. type \in [1..n -> FieldTypes]
    BY <1>1, LayoutTypes DEF FieldTypes
  <2> QED
    BY <1>1, <2>1
<1>4. /\ Len(Values(m)) = n + 2 /\ Values(m)[1] = m.source /\ Values(m)[2] = m.id
      /\ \A i \in 1..n : Values(m)[i + 2] = m.fields[i]
  BY <1>1, <1>2 DEF Values
<1>5. /\ Types(m)[1] = "string" /\ Types(m)[2] = "uint"
      /\ \A i \in 1..n : Types(m)[i + 2] = type[i]
  <2>1. Types(m) = <<"string", "uint">> \o type
    BY DEF Types
  <2> HIDE DEF type
  <2> QED
    BY <1>1, <1>3, <2>1
<1>6. ASSUME NEW k \in 1..(n + 2)
      PROVE  Types(m)[k] \in FieldTypes /\ HasType(Values(m)[k], Types(m)[k])
  <2>1. CASE k = 1
    BY <1>4, <1>5, <2>1, BodiesAssumption DEF FieldTypes, HasType
  <2>2. CASE k = 2
    <3>1. IsNumber(m.id)
      BY <1>1 DEF Ids, ById, IsNumber, Large, UPDATE_JOB, DB_JOB_GET_BY_JOB_ID, DB_JOB_GET_BY_ID,
           DB_JOB_GET_RUNNING_JOBS, DB_JOB_DELETE, DB_JOB_SAVE, DB_JOBSTATUS_GET_BY_JOB_ID_AND_WHAT,
           DB_JOBSTATUS_GET_BY_JOB_ID, DB_JOBSTATUS_DELETE_BY_ID_LIST, DB_JOBSTATUS_SAVE,
           DB_BUNDLE_CREATE_OR_UPDATE_JOB, DB_BUNDLE_GET_JOB_BY_ID, DB_BUNDLE_DELETE_JOB
    <3> QED
      BY <1>4, <1>5, <2>2, <3>1 DEF FieldTypes, HasType
  <2>3. CASE k > 2
    <3>1. k - 2 \in 1..n /\ (k - 2) + 2 = k
      BY <1>1, <2>3
    <3>2. type[k - 2] \in FieldTypes
      BY <1>3, <3>1
    <3>3. HasType(m.fields[k - 2], Types(m)[(k - 2) + 2])
      BY <3>1, BodiesAssumption
    <3> HIDE DEF type
    <3> QED
      BY <1>4, <1>5, <3>1, <3>2, <3>3
  <2> QED
    BY <1>1, <2>1, <2>2, <2>3
<1> QED
  BY <1>1, <1>4, <1>5, <1>6

\* The bytes of a field
LEMMA PushedField ==
    ASSUME NEW type \in FieldTypes, NEW v, HasType(v, type)
    PROVE  /\ Push(type, v) \in Seq(Nat)
           /\ type # "string" => /\ Len(Push(type, v)) = Width[type]
                                 /\ FromLeBytes(Push(type, v)) = v /\ v \in Nat
                                 /\ Width[type] \in {1, 4, 8}
           /\ type = "string" =>
                 /\ v \in Seq(Nat) /\ FromUtf8(v) = v
                 /\ Push(type, v) = ToLeBytes(Len(v), 8) \o v
                 /\ ToLeBytes(Len(v), 8) \in Seq(Nat) /\ Len(ToLeBytes(Len(v), 8)) = 8
                 /\ FromLeBytes(ToLeBytes(Len(v), 8)) = Len(v)
                 /\ Len(Push(type, v)) = 8 + Len(v)
<1>1. CASE type = "string"
  <2>1. v \in Seq(Nat) /\ IsNumber(Len(v)) /\ FromUtf8(v) = v
    BY <1>1, TextSeq DEF HasType
  <2>2. /\ ToLeBytes(Len(v), 8) \in Seq(Nat) /\ Len(ToLeBytes(Len(v), 8)) = 8
        /\ FromLeBytes(ToLeBytes(Len(v), 8)) = Len(v)
    BY <2>1, LeBytes
  <2>3. Push(type, v) = ToLeBytes(Len(v), 8) \o v
    BY <1>1 DEF Push
  <2>4. \A b \in Seq(Nat) : b \o v \in Seq(Nat) /\ Len(b \o v) = Len(b) + Len(v)
    BY <2>1
  <2>5. Push(type, v) \in Seq(Nat) /\ Len(Push(type, v)) = 8 + Len(v)
    BY <2>2, <2>3, <2>4
  <2> QED
    BY <1>1, <2>1, <2>2, <2>3, <2>5
<1>2. CASE type # "string"
  <2>1. IsNumber(v) /\ v \in Nat /\ (type = "bool" => v \in {0, 1})
    BY <1>2 DEF HasType, IsNumber, Large
  <2>2. Width[type] \in {1, 4, 8} /\ (Width[type] = 1 => v \in {0, 1})
    BY <1>2, <2>1 DEF Width, FieldTypes
  <2>3. Push(type, v) = ToLeBytes(v, Width[type])
    BY <1>2 DEF Push
  <2>4. \A w \in {1, 4, 8} : (w = 1 => v \in {0, 1}) =>
           /\ ToLeBytes(v, w) \in Seq(Nat) /\ Len(ToLeBytes(v, w)) = w
           /\ FromLeBytes(ToLeBytes(v, w)) = v
    BY <2>1, LeBytes
  <2>5. /\ ToLeBytes(v, Width[type]) \in Seq(Nat) /\ Len(ToLeBytes(v, Width[type])) = Width[type]
        /\ FromLeBytes(ToLeBytes(v, Width[type])) = v
    BY <2>2, <2>4
  <2> QED
    BY <1>2, <2>1, <2>2, <2>3, <2>5
<1> QED
  BY <1>1, <1>2

\* f[k] is the concatenation of the first k of N sequences of bytes.
Joins(f, part, N) ==
    /\ f[0] = <<>>
    /\ \A k \in 1..N : part[k] \in Seq(Nat) /\ f[k] = f[k - 1] \o part[k]

\* c is a followed by b.
Follows(c, a, b) ==
    /\ Len(a) \in Nat /\ Len(b) \in Nat /\ Len(c) = Len(a) + Len(b)
    /\ \A i \in 1..Len(a) : c[i] = a[i]
    /\ \A i \in 1..Len(b) : c[Len(a) + i] = b[i]

\* One sequence of bytes and another
LEMMA ConcatBytes ==
    ASSUME NEW a \in Seq(Nat), NEW b \in Seq(Nat)
    PROVE  a \o b \in Seq(Nat) /\ Follows(a \o b, a, b)
BY DEF Follows

\* Sums of naturals
LEMMA PlusNat == \A a, b \in Nat : a + b \in Nat
OBVIOUS

\* The sequences follow each other in the longest of the concatenations.
Parts(f, part, N) ==
    /\ \A k \in 0..N : f[k] \in Seq(Nat) /\ Len(f[k]) \in Nat /\ Len(f[k]) <= Len(f[N])
    /\ \A k \in 1..N : /\ Len(f[k]) = Len(f[k - 1]) + Len(part[k])
                        /\ \A i \in 1..Len(part[k]) : f[N][Len(f[k - 1]) + i] = part[k][i]

\* The parts of a concatenation follow each other in it.
LEMMA JoinParts ==
    ASSUME NEW N \in Nat, NEW f, NEW part, Joins(f, part, N)
    PROVE  Parts(f, part, N)
<1>0. \A k \in Nat : k + 1 <= N => part[k + 1] \in Seq(Nat) /\ f[k + 1] = f[k] \o part[k + 1]
  <2>1. ASSUME NEW k \in Nat, k + 1 <= N
        PROVE  part[k + 1] \in Seq(Nat) /\ f[k + 1] = f[k] \o part[k + 1]
    <3>1. k + 1 \in 1..N /\ (k + 1) - 1 = k
      BY <2>1
    <3> QED
      BY <3>1, Zenon DEF Joins
  <2> QED
    BY <2>1
<1>1. ASSUME NEW k \in 0..N PROVE f[k] \in Seq(Nat)
  <2> DEFINE S == {n \in Nat : n <= N => f[n] \in Seq(Nat)}
  <2>1. 0 \in S
    <3>1. f[0] = <<>> /\ <<>> \in Seq(Nat)
      BY DEF Joins
    <3> QED
      BY <3>1
  <2>2. ASSUME NEW n \in Nat, n \in S PROVE n + 1 \in S
    <3>1. SUFFICES ASSUME n + 1 <= N PROVE f[n + 1] \in Seq(Nat)
      OBVIOUS
    <3>2. f[n] \in Seq(Nat)
      BY <2>2, <3>1
    <3> QED
      BY <1>0, <3>1, <3>2, ConcatBytes
  <2>3. Nat \subseteq S
    <3> HIDE DEF S
    <3> QED
      BY <2>1, <2>2, SetInduction
  <2> QED
    BY <2>3
<1>2. ASSUME NEW k \in Nat, k + 1 <= N
      PROVE  /\ Len(f[k]) \in Nat /\ Len(part[k + 1]) \in Nat
             /\ Len(f[k + 1]) = Len(f[k]) + Len(part[k + 1])
             /\ \A i \in 1..Len(f[k]) : f[k + 1][i] = f[k][i]
             /\ \A i \in 1..Len(part[k + 1]) : f[k + 1][Len(f[k]) + i] = part[k + 1][i]
  <2>1. f[k] \in Seq(Nat) /\ part[k + 1] \in Seq(Nat) /\ f[k + 1] = f[k] \o part[k + 1]
    <3>1. k \in 0..N
      BY <1>2
    <3>2. f[k] \in Seq(Nat)
      BY <1>1, <3>1, Zenon
    <3> QED
      BY <1>0, <1>2, <3>2, Zenon
  <2>2. Follows(f[k + 1], f[k], part[k + 1])
    BY <2>1, ConcatBytes, Zenon
  <2> QED
    BY <2>2, Zenon DEF Follows
<1> DEFINE Good(j) == Len(f[j]) <= Len(f[N]) /\ \A i \in 1..Len(f[j]) : f[N][i] = f[j][i]
<1>3. \A k \in 0..N : Len(f[k]) \in Nat
  BY <1>1
<1>4. ASSUME NEW k \in 0..N PROVE Good(k)
  <2> DEFINE S == {n \in Nat : n <= N => Good(N - n)}
  <2>1. 0 \in S
    <3>1. N - 0 = N /\ Len(f[N]) \in Nat
      BY <1>3
    <3> QED
      BY <3>1
  <2>2. ASSUME NEW n \in Nat, n \in S PROVE n + 1 \in S
    <3>1. SUFFICES ASSUME n + 1 <= N PROVE Good(N - (n + 1))
      OBVIOUS
    <3> DEFINE j == N - (n + 1)
    <3>2. j \in Nat /\ j + 1 <= N /\ N - n = j + 1 /\ N \in 0..N
      BY <3>1
    <3>3. Good(j + 1)
      <4> HIDE DEF Good
      <4> QED
        BY <2>2, <3>1, <3>2
    <3> HIDE DEF j
    <3>4. /\ Len(f[j]) \in Nat /\ Len(part[j + 1]) \in Nat
          /\ Len(f[j + 1]) = Len(f[j]) + Len(part[j + 1])
      BY <1>2, <3>2, Zenon
    <3>5. Len(f[j]) <= Len(f[N]) /\ 1..Len(f[j]) \subseteq 1..Len(f[j + 1])
      <4>1. Len(f[N]) \in Nat /\ Len(f[j + 1]) <= Len(f[N])
        BY <1>3, <3>2, <3>3, Zenon
      <4> HIDE DEF S, Good
      <4>2. \A a, b, c, d \in Nat : c = a + b /\ c <= d => a <= d /\ 1..a \subseteq 1..c
        OBVIOUS
      <4>3. PICK a \in Nat, b \in Nat, d \in Nat : a = Len(f[j]) /\ b = Len(part[j + 1]) /\ d = Len(f[N])
        BY <3>4, <4>1, Zenon
      <4>4. a + b \in Nat /\ a + b = Len(f[j + 1]) /\ a + b <= d
        BY <3>4, <4>1, <4>3, PlusNat, Zenon
      <4>5. a <= d /\ 1..a \subseteq 1..(a + b)
        BY <4>2, <4>4, Zenon
      <4> QED
        BY <4>3, <4>4, <4>5, Zenon
    <3>6. ASSUME NEW i \in 1..Len(f[j]) PROVE f[N][i] = f[j][i]
      <4>1. i \in 1..Len(f[j + 1])
        BY <3>5, Zenon
      <4>2. f[N][i] = f[j + 1][i]
        BY <3>3, <4>1, Zenon
      <4> QED
        BY <1>2, <3>2, <4>2, Zenon
    <3>7. Good(j)
      BY <3>5, <3>6
    <3> QED
      BY <3>7 DEF j
  <2>3. Nat \subseteq S
    <3> HIDE DEF S
    <3> QED
      BY <2>1, <2>2, SetInduction
  <2>4. N - k \in Nat /\ N - k <= N /\ N - (N - k) = k
    OBVIOUS
  <2> HIDE DEF Good
  <2> QED
    BY <2>3, <2>4
<1>5. ASSUME NEW k \in 1..N
      PROVE  /\ Len(f[k]) = Len(f[k - 1]) + Len(part[k])
             /\ \A i \in 1..Len(part[k]) : f[N][Len(f[k - 1]) + i] = part[k][i]
  <2> DEFINE j == k - 1
  <2>1. j \in Nat /\ j + 1 <= N /\ j + 1 = k
    OBVIOUS
  <2> HIDE DEF j
  <2>2. /\ Len(f[j]) \in Nat /\ Len(part[k]) \in Nat /\ Len(f[k]) = Len(f[j]) + Len(part[k])
        /\ \A i \in 1..Len(part[k]) : f[k][Len(f[j]) + i] = part[k][i]
    BY <1>2, <2>1
  <2>3. ASSUME NEW i \in 1..Len(part[k]) PROVE f[N][Len(f[j]) + i] = part[k][i]
    <3>0. \A a, b, c \in Nat : c = a + b => \A x \in 1..b : a + x \in 1..c
      OBVIOUS
    <3>1. Len(f[j]) + i \in 1..Len(f[k])
      <4>1. Len(f[k]) \in Nat
        BY <2>2, PlusNat, Zenon
      <4> QED
        BY <2>2, <3>0, <4>1, Zenon
    <3>2. f[N][Len(f[j]) + i] = f[k][Len(f[j]) + i]
      BY <1>4, <3>1
    <3> QED
      BY <2>2, <3>2
  <2> QED
    BY <2>2, <2>3 DEF j
<1> QED
  BY <1>1, <1>3, <1>4, <1>5, Zenon DEF Parts

\* How many bytes the first k fields of a message take
Off(m, k) == Len(Pushed(m)[k])

\* The bytes of field k
Bytes(m, k) == Push(Types(m)[k], Values(m)[k])

\* The bytes of a message are those of its fields, one after the other.
LEMMA EncodeParts ==
    ASSUME NEW m \in Bodies
    PROVE  LET N == Len(m.fields) + 2 IN
           /\ Encode(m) \in Seq(Nat) /\ Off(m, 0) = 0 /\ Off(m, N) = Len(Encode(m))
           /\ \A k \in 0..N : Off(m, k) \in Nat /\ Off(m, k) <= Len(Encode(m))
           /\ \A k \in 1..N : /\ Bytes(m, k) \in Seq(Nat)
                               /\ Off(m, k) = Off(m, k - 1) + Len(Bytes(m, k))
                               /\ \A i \in 1..Len(Bytes(m, k)) :
                                     Encode(m)[Off(m, k - 1) + i] = Bytes(m, k)[i]
<1> DEFINE N == Len(m.fields) + 2
           f == Pushed(m)
           part == [k \in 1..N |-> Bytes(m, k)]
<1>1. N \in Nat /\ Len(Values(m)) = N
  BY BodyFields
<1>2. /\ f[0] = <<>>
      /\ \A k \in 1..N : f[k] = f[k - 1] \o Bytes(m, k)
  <2>1. f = [i \in 0..N |-> IF i = 0 THEN <<>> ELSE f[i - 1] \o Bytes(m, i)]
    BY <1>1, PushedBytes, Zenon DEF Bytes
  <2> HIDE DEF f, N
  <2>2. 0 \in 0..N /\ \A k \in 1..N : k \in 0..N /\ k # 0
    BY <1>1
  <2>3. f[0] = <<>>
    BY <2>1, <2>2, Zenon
  <2>4. ASSUME NEW k \in 1..N PROVE f[k] = f[k - 1] \o Bytes(m, k)
    BY <2>1, <2>2, Zenon
  <2> QED
    BY <2>3, <2>4
<1>3. \A k \in 1..N : Bytes(m, k) \in Seq(Nat)
  BY BodyFields, PushedField DEF Bytes
<1>4. \A k \in 1..N : part[k] = Bytes(m, k)
  OBVIOUS
<1> HIDE DEF part
<1>5. Joins(f, part, N)
  <2> HIDE DEF f, N
  <2> QED
    BY <1>2, <1>3, <1>4, Zenon DEF Joins
<1>6. /\ \A k \in 0..N : f[k] \in Seq(Nat) /\ Len(f[k]) \in Nat /\ Len(f[k]) <= Len(f[N])
      /\ \A k \in 1..N : /\ Len(f[k]) = Len(f[k - 1]) + Len(part[k])
                          /\ \A i \in 1..Len(part[k]) : f[N][Len(f[k - 1]) + i] = part[k][i]
  <2> HIDE DEF f, N
  <2> QED
    <3>1. Parts(f, part, N)
      BY <1>1, <1>5, JoinParts
    <3> QED
      BY <3>1, Zenon DEF Parts
<1>7. Encode(m) = f[N]
  BY <1>1 DEF Encode
<1> HIDE DEF f
<1>8. \A k : Off(m, k) = Len(f[k])
  BY DEF Off, f
<1>9. N \in 0..N /\ 0 \in 0..N /\ Len(<<>>) = 0
  BY <1>1
<1>10. Encode(m) \in Seq(Nat) /\ Off(m, 0) = 0 /\ Off(m, N) = Len(Encode(m))
  BY <1>2, <1>6, <1>7, <1>8, <1>9, Zenon
<1>11. \A k \in 0..N : Off(m, k) \in Nat /\ Off(m, k) <= Len(Encode(m))
  BY <1>6, <1>7, <1>8, Zenon
<1>12. ASSUME NEW k \in 1..N
       PROVE  /\ Bytes(m, k) \in Seq(Nat) /\ Off(m, k) = Off(m, k - 1) + Len(Bytes(m, k))
              /\ \A i \in 1..Len(Bytes(m, k)) : Encode(m)[Off(m, k - 1) + i] = Bytes(m, k)[i]
  <2> HIDE DEF N
  <2>1. part[k] = Bytes(m, k) /\ Bytes(m, k) \in Seq(Nat)
    BY <1>3, <1>4, Zenon
  <2> QED
    BY <1>6, <1>7, <1>8, <2>1, Zenon
<1> QED
  BY <1>10, <1>11, <1>12, Zenon

\* A run of a sequence
LEMMA RunIs ==
    ASSUME NEW s \in Seq(Nat), NEW a \in Nat, NEW b \in Seq(Nat), a + Len(b) <= Len(s),
           \A i \in 1..Len(b) : s[a + i] = b[i]
    PROVE  SubSeq(s, a + 1, a + Len(b)) = b
<1> DEFINE t == SubSeq(s, a + 1, a + Len(b))
<1>1. t \in Seq(Nat) /\ Len(t) = Len(b) /\ \A i \in 1..Len(b) : t[i] = s[a + i]
  OBVIOUS
<1> HIDE DEF t
<1>2. t = b
  BY <1>1, SeqEqual
<1> QED
  BY <1>2 DEF t

-----------------------------------------------------------------------------
(* The inductive invariant of WireFormat                                   *)

\* How many fields of a message its reader has read, before its first step
\* and after each
TakenBy(m) ==
    CASE m.id = UPDATE_JOB -> <<2, 3, 4, 4, 5, 6, 6>>
      [] m.id \in ById -> <<2, 2, 3, 4>>
      [] m.id = DB_JOB_GET_RUNNING_JOBS -> <<2, 2, 3>>
      [] m.id = DB_JOBSTATUS_GET_BY_JOB_ID_AND_WHAT -> <<2, 2, 3, 4, 4, 5>>
      [] m.id = DB_JOB_SAVE -> <<2, 3, 3, 4, 5, 6, 7, 8, 9, 10, 11, 12, 13>>
      [] m.id = DB_JOBSTATUS_DELETE_BY_ID_LIST -> <<2, 2, 3, 4, Len(m.fields) + 2>>
      [] m.id = DB_JOBSTATUS_SAVE -> <<2, 3, 3, 4, 5, 6, 7>>
      [] OTHER -> <<2, 3, 3, 4, 5, 6>>

Taken(m, p) == TakenBy(m)[p + 1]

\* The steps of the readers
Steps == {Need(n) : n \in Nat} \cup {Field(t) : t \in FieldTypes}
         \cup {RowIds, IsStatus}

\* What has come is what was sent, from the first byte on.
Came ==
    /\ sent \in Bodies /\ data \in Seq(Nat) /\ Len(data) <= Len(Encode(sent))
    /\ \A i \in 1..Len(data) : data[i] = Encode(sent)[i]

Cut == Len(data) < Len(Encode(sent))

\* After p steps of the reader of the message: the cursor is at the end of
\* a field, what has been read is what was sent, and the tests held.
InStep(p) ==
    LET R == Reader(sent.id) IN
    /\ p \in 0..Len(R) /\ pc = SubSeq(R, p + 1, Len(R))
    /\ index = Off(sent, Taken(sent, p))
    /\ Len(read) = Taken(sent, p)
    /\ \A i \in 1..Len(read) : read[i] = Values(sent)[i]
    /\ \A q \in 1..p : R[q].do = "need" =>
                          Off(sent, Taken(sent, q)) + R[q].n <= Len(data)

\* A test still to come will drop the message.
Doomed ==
    \E q \in 1..Len(pc) : /\ pc[q].do = "need" /\ Remaining < pc[q].n
                          /\ \A i \in 1..q : pc[i] # RowIds

\* The fields that count have been read, and they are as they were sent.
Settled ==
    /\ \A i \in Guarded(sent) : i <= Len(read) /\ read[i] = Values(sent)[i]
    /\ \A i \in 1..Len(pc) : pc[i] # RowIds

\* The row ids that have come have been read.
Listed ==
    /\ sent.id = DB_JOBSTATUS_DELETE_BY_ID_LIST /\ pc = <<>>
    /\ \A i \in 1..Len(read) : read[i] = Values(sent)[i]

AtHeader == pc = <<Header>> /\ index = 0 /\ read = <<>>

Underway ==
    /\ pc \in Seq(Steps)
    /\ (\E p \in Nat : InStep(p)) \/ (Cut /\ (Doomed \/ Settled \/ Listed))

\* A number or a string
Datum == Nat \cup Seq(Nat)

WireInv ==
    /\ Came /\ index \in Nat /\ index <= Len(data)
    /\ read \in Seq(Datum)
    /\ verdict \in {"reading", "accepted", "dropped"}
    /\ verdict = "dropped" => Cut
    /\ verdict = "reading" => AtHeader \/ Underway
    /\ ReadAsSent

-----------------------------------------------------------------------------
(* Reading one field                                                       *)

\* The bytes of a field, once they have all come
LEMMA FieldCame ==
    ASSUME Came, NEW k \in 1..(Len(sent.fields) + 2), NEW a \in Nat, NEW b \in Seq(Nat),
           NEW c \in Nat, Off(sent, k - 1) + c = a, c + Len(b) <= Len(Bytes(sent, k)),
           a + Len(b) <= Len(data),
           \A i \in 1..Len(b) : Bytes(sent, k)[c + i] = b[i]
    PROVE  SubSeq(data, a + 1, a + Len(b)) = b
<1>1. sent \in Bodies /\ data \in Seq(Nat) /\ \A i \in 1..Len(data) : data[i] = Encode(sent)[i]
  BY DEF Came
<1>2. /\ Bytes(sent, k) \in Seq(Nat) /\ Off(sent, k - 1) \in Nat
      /\ \A i \in 1..Len(Bytes(sent, k)) :
            Encode(sent)[Off(sent, k - 1) + i] = Bytes(sent, k)[i]
  <2>1. k - 1 \in 0..(Len(sent.fields) + 2)
    BY <1>1, BodyFields
  <2> QED
    BY <1>1, <2>1, EncodeParts
<1>3. ASSUME NEW i \in 1..Len(b) PROVE data[a + i] = b[i]
  <2>1. a + i \in 1..Len(data) /\ c + i \in 1..Len(Bytes(sent, k)) /\ Off(sent, k - 1) + (c + i) = a + i
    <3>1. Len(data) \in Nat /\ Len(Bytes(sent, k)) \in Nat /\ Len(b) \in Nat
      BY <1>1, <1>2, LenProperties
    <3>2. PICK ld \in Nat, lk \in Nat, lb \in Nat, o \in Nat :
             ld = Len(data) /\ lk = Len(Bytes(sent, k)) /\ lb = Len(b) /\ o = Off(sent, k - 1)
      BY <1>2, <3>1, Zenon
    <3>3. i \in 1..lb /\ o + c = a /\ c + lb <= lk /\ a + lb <= ld
      BY <3>2, Zenon
    <3>4. a + i \in 1..ld /\ c + i \in 1..lk /\ o + (c + i) = a + i
      BY <3>3
    <3> QED
      BY <3>2, <3>4, Zenon
  <2>2. data[a + i] = Encode(sent)[a + i]
    BY <1>1, <2>1
  <2>3. Encode(sent)[a + i] = Bytes(sent, k)[c + i]
    BY <1>2, <2>1
  <2> QED
    BY <2>2, <2>3
<1> QED
  BY <1>1, <1>3, RunIs

\* How far a field goes, and what pop_le and pop_string make of it
LEMMA FieldSize ==
    ASSUME NEW m \in Bodies, NEW k \in 1..(Len(m.fields) + 2)
    PROVE  /\ Types(m)[k] \in FieldTypes /\ HasType(Values(m)[k], Types(m)[k])
           /\ Off(m, k) \in Nat /\ Off(m, k - 1) \in Nat /\ Off(m, k) <= Len(Encode(m))
           /\ Types(m)[k] # "string" =>
                 Width[Types(m)[k]] \in {1, 4, 8} /\ Off(m, k) = Off(m, k - 1) + Width[Types(m)[k]]
           /\ Types(m)[k] = "string" =>
                 Len(Values(m)[k]) \in Nat /\ Off(m, k) = Off(m, k - 1) + 8 + Len(Values(m)[k])
<1>1. Types(m)[k] \in FieldTypes /\ HasType(Values(m)[k], Types(m)[k]) /\ Len(m.fields) \in Nat
  BY BodyFields
<1>2. k - 1 \in 0..(Len(m.fields) + 2) /\ k \in 0..(Len(m.fields) + 2)
  BY <1>1
<1>3. /\ Off(m, k) \in Nat /\ Off(m, k - 1) \in Nat /\ Off(m, k) <= Len(Encode(m))
      /\ Off(m, k) = Off(m, k - 1) + Len(Bytes(m, k))
  BY <1>2, EncodeParts
<1>4. Types(m)[k] # "string" => Width[Types(m)[k]] \in {1, 4, 8} /\ Len(Bytes(m, k)) = Width[Types(m)[k]]
  BY <1>1, PushedField DEF Bytes
<1>5. Types(m)[k] = "string" => Len(Values(m)[k]) \in Nat /\ Len(Bytes(m, k)) = 8 + Len(Values(m)[k])
  <2>1. ASSUME Types(m)[k] = "string"
        PROVE Values(m)[k] \in Seq(Nat) /\ Len(Bytes(m, k)) = 8 + Len(Values(m)[k])
    BY <1>1, <2>1, PushedField DEF Bytes
  <2> QED
    BY <2>1
<1>6. CASE Types(m)[k] = "string"
  <2>1. Off(m, k) = Off(m, k - 1) + 8 + Len(Values(m)[k])
    BY <1>3, <1>5, <1>6
  <2> QED
    BY <1>1, <1>3, <1>5, <1>6, <2>1, Zenon
<1>7. CASE Types(m)[k] # "string"
  BY <1>1, <1>3, <1>4, <1>7, Zenon
<1> QED
  BY <1>6, <1>7

\* pop_le on a number that has come
LEMMA NumberCame ==
    ASSUME Came, NEW k \in 1..(Len(sent.fields) + 2), index = Off(sent, k - 1),
           Types(sent)[k] # "string", Off(sent, k) <= Len(data)
    PROVE  /\ PopLe(Width[Types(sent)[k]]).value = Values(sent)[k]
           /\ PopLe(Width[Types(sent)[k]]).index = Off(sent, k)
<1> DEFINE w == Width[Types(sent)[k]]
<1>1. sent \in Bodies /\ data \in Seq(Nat)
  BY DEF Came
<1>2. /\ Off(sent, k - 1) \in Nat /\ w \in Nat /\ Off(sent, k) = Off(sent, k - 1) + w
      /\ Types(sent)[k] \in FieldTypes /\ HasType(Values(sent)[k], Types(sent)[k])
  <2>1. w \in {1, 4, 8} => w \in Nat
    OBVIOUS
  <2> QED
    BY <1>1, <2>1, FieldSize, Zenon
<1>3. /\ Bytes(sent, k) \in Seq(Nat) /\ Len(Bytes(sent, k)) = w
      /\ FromLeBytes(Bytes(sent, k)) = Values(sent)[k]
  BY <1>2, PushedField DEF Bytes
<1>4. SubSeq(data, index + 1, index + w) = Bytes(sent, k)
  <2>1. /\ index \in Nat /\ 0 \in Nat /\ Off(sent, k - 1) + 0 = index
        /\ 0 + Len(Bytes(sent, k)) <= Len(Bytes(sent, k)) /\ index + Len(Bytes(sent, k)) <= Len(data)
        /\ \A i \in 1..Len(Bytes(sent, k)) : Bytes(sent, k)[0 + i] = Bytes(sent, k)[i]
    BY <1>2, <1>3
  <2>2. SubSeq(data, index + 1, index + Len(Bytes(sent, k))) = Bytes(sent, k)
    BY <1>3, <2>1, FieldCame
  <2> QED
    BY <1>3, <2>2
<1>5. ~(Remaining < w)
  BY <1>1, <1>2 DEF Remaining
<1> HIDE DEF w
<1>6. PopLe(w) = [value |-> Values(sent)[k], index |-> Off(sent, k)]
  BY <1>2, <1>3, <1>4, <1>5 DEF PopLe
<1> QED
  BY <1>6 DEF w

\* The length prefix of a string, once it has come
LEMMA PrefixCame ==
    ASSUME Came, NEW k \in 1..(Len(sent.fields) + 2), index = Off(sent, k - 1),
           Types(sent)[k] = "string", index + 8 <= Len(data)
    PROVE  Prefix = [value |-> Len(Values(sent)[k]), index |-> index + 8]
<1> DEFINE v == Values(sent)[k]
           b == ToLeBytes(Len(v), 8)
<1>1. sent \in Bodies /\ data \in Seq(Nat)
  BY DEF Came
<1>2. /\ Off(sent, k - 1) \in Nat /\ Types(sent)[k] \in FieldTypes
      /\ HasType(v, Types(sent)[k])
  BY <1>1, FieldSize
<1>3. /\ v \in Seq(Nat) /\ b \in Seq(Nat) /\ Len(b) = 8 /\ FromLeBytes(b) = Len(v)
      /\ Bytes(sent, k) = b \o v
  BY <1>2, PushedField DEF Bytes
<1> HIDE DEF b, v
<1>4. Len(Bytes(sent, k)) = 8 + Len(v) /\ Len(v) \in Nat /\ \A i \in 1..Len(b) : Bytes(sent, k)[i] = b[i]
  <2>1. Follows(Bytes(sent, k), b, v)
    BY <1>3, ConcatBytes
  <2> QED
    BY <1>3, <2>1, Zenon DEF Follows
<1>5. SubSeq(data, index + 1, index + 8) = b
  <2>1. /\ index \in Nat /\ 0 \in Nat /\ Off(sent, k - 1) + 0 = index
        /\ 0 + Len(b) <= Len(Bytes(sent, k)) /\ index + Len(b) <= Len(data)
    BY <1>2, <1>3, <1>4
  <2>3. \A i \in 1..Len(b) : Bytes(sent, k)[0 + i] = b[i]
    <3>1. \A i \in 1..8 : 0 + i = i
      OBVIOUS
    <3> QED
      BY <1>3, <1>4, <3>1, Zenon
  <2>2. SubSeq(data, index + 1, index + Len(b)) = b
    BY <1>3, <2>1, <2>3, FieldCame
  <2> QED
    BY <1>3, <2>2
<1>6. ~(Remaining < 8)
  BY <1>1, <1>2 DEF Remaining
<1> QED
  BY <1>3, <1>5, <1>6 DEF Prefix, PopLe, v

\* try_pop_string and pop_string on a string whose prefix has come
LEMMA StringCame ==
    ASSUME Came, NEW k \in 1..(Len(sent.fields) + 2), index = Off(sent, k - 1),
           Types(sent)[k] = "string", index + 8 <= Len(data)
    PROVE  /\ Overruns <=> Len(data) < Off(sent, k)
           /\ ~Overruns => PopString = [value |-> Values(sent)[k], index |-> Off(sent, k)]
<1> DEFINE v == Values(sent)[k]
<1>1. sent \in Bodies /\ data \in Seq(Nat)
  BY DEF Came
<1>2. /\ Off(sent, k - 1) \in Nat /\ Off(sent, k) = index + 8 + Len(v) /\ Len(v) \in Nat
      /\ Types(sent)[k] \in FieldTypes /\ HasType(v, Types(sent)[k])
  BY <1>1, FieldSize
<1>3. /\ v \in Seq(Nat) /\ FromUtf8(v) = v /\ Bytes(sent, k) = ToLeBytes(Len(v), 8) \o v
      /\ ToLeBytes(Len(v), 8) \in Seq(Nat) /\ Len(ToLeBytes(Len(v), 8)) = 8
  BY <1>2, PushedField DEF Bytes
<1>4. Prefix.value = Len(v) /\ Prefix.index = index + 8
  BY PrefixCame
<1> HIDE DEF v
<1>5. Overruns <=> Len(data) < Off(sent, k)
  BY <1>1, <1>2, <1>4 DEF Overruns
<1>6. ASSUME ~Overruns PROVE PopString = [value |-> v, index |-> Off(sent, k)]
  <2>1. Len(Bytes(sent, k)) = 8 + Len(v) /\ \A i \in 1..Len(v) : Bytes(sent, k)[8 + i] = v[i]
    <3>1. Follows(Bytes(sent, k), ToLeBytes(Len(v), 8), v)
      BY <1>3, ConcatBytes
    <3> QED
      BY <1>3, <3>1, Zenon DEF Follows
  <2>2. /\ index + 8 \in Nat /\ 8 \in Nat /\ Off(sent, k - 1) + 8 = index + 8
        /\ 8 + Len(v) <= Len(Bytes(sent, k)) /\ (index + 8) + Len(v) <= Len(data)
    BY <1>1, <1>2, <1>5, <1>6, <2>1
  <2>3. SubSeq(data, (index + 8) + 1, (index + 8) + Len(v)) = v
    BY <1>3, <2>1, <2>2, FieldCame
  <2>4. Payload = v
    BY <1>4, <2>3 DEF Payload
  <2> QED
    BY <1>2, <1>3, <1>4, <1>6, <2>4 DEF PopString
<1> QED
  BY <1>5, <1>6 DEF v

-----------------------------------------------------------------------------
(* The readers fit the messages                                            *)

\* The bytes a field takes at least
Least(t) == IF t = "string" THEN 8 ELSE Width[t]

\* A cut in the field that step p + 1 reads: what counts has been read, or
\* a test has ruled it out, or a test to come will find it.
Covered(m, p) ==
    LET R == Reader(m.id)
        w == Least(R[p + 1].type)
    IN
    \/ Guarded(m) \subseteq 1..Taken(m, p)
    \/ \E q \in 1..p : /\ R[q].do = "need"
                       /\ Off(m, Taken(m, p)) + w <= Off(m, Taken(m, q)) + R[q].n
    \/ \E q \in (p + 2)..Len(R) : /\ R[q].do = "need" /\ w <= R[q].n
                                  /\ \A i \in 1..q : R[i] # RowIds

\* Step p + 1 of the reader of a message fits what the message holds there.
StepFits(m, p) ==
    LET k == Taken(m, p)
        s == Reader(m.id)[p + 1]
    IN
    /\ s.do = "field" => /\ Taken(m, p + 1) = k + 1 /\ Types(m)[k + 1] = s.type
                         /\ Covered(m, p)
    /\ s.do = "need" => Taken(m, p + 1) = k /\ Off(m, k) + s.n <= Len(Encode(m))
    /\ s.do = "status" => Taken(m, p + 1) = k /\ Values(m)[k - 1] \in Statuses
    /\ s.do = "ids" => /\ m.id = DB_JOBSTATUS_DELETE_BY_ID_LIST /\ k = 4
                       /\ Taken(m, p + 1) = Len(m.fields) + 2

ReaderFits(m) ==
    LET R == Reader(m.id) IN
    /\ R \in Seq(Steps) /\ Taken(m, 0) = 2 /\ Taken(m, Len(R)) = Len(m.fields) + 2
    /\ \A p \in 0..Len(R) : Taken(m, p) \in 2..(Len(m.fields) + 2)
    /\ \A p \in 0..(Len(R) - 1) : StepFits(m, p)

\* Where field k of a message ends
FieldEnds(m, k) ==
    /\ Off(m, k) \in Nat /\ Off(m, k - 1) \in Nat
    /\ Len(Encode(m)) \in Nat /\ Off(m, k) <= Len(Encode(m))
    /\ Types(m)[k] = "string" => Off(m, k) >= Off(m, k - 1) + 8
    /\ Types(m)[k] = "bool" => Off(m, k) = Off(m, k - 1) + 1
    /\ Types(m)[k] = "uint" => Off(m, k) = Off(m, k - 1) + 4
    /\ Types(m)[k] = "ulong" => Off(m, k) = Off(m, k - 1) + 8

\* How long the field of each type is
LEMMA SizeAt ==
    ASSUME NEW m \in Bodies, NEW k \in 1..(Len(m.fields) + 2)
    PROVE  FieldEnds(m, k)
<1>1. Len(Encode(m)) \in Nat
  BY EncodeParts
<1> QED
  BY <1>1, FieldSize DEF Width, FieldEnds

\* The types of the fields are those of the layout.
LEMMA TypeAt ==
    ASSUME NEW m \in Bodies, NEW i \in 1..Len(m.fields), i <= Len(Layout(m.id))
    PROVE  Types(m)[i + 2] = Layout(m.id)[i]
BY BodyFields

\* The id of a list of rows is no other message's.
LEMMA IdsDiffer ==
    /\ DB_JOBSTATUS_DELETE_BY_ID_LIST \notin ById
    /\ DB_JOBSTATUS_DELETE_BY_ID_LIST \notin
          {UPDATE_JOB, DB_JOB_GET_RUNNING_JOBS, DB_JOBSTATUS_GET_BY_JOB_ID_AND_WHAT,
           DB_JOB_SAVE, DB_JOBSTATUS_SAVE, DB_BUNDLE_CREATE_OR_UPDATE_JOB}
BY DEF ById, UPDATE_JOB, DB_JOB_GET_BY_JOB_ID, DB_JOB_GET_BY_ID,
     DB_JOB_GET_RUNNING_JOBS, DB_JOB_DELETE, DB_JOB_SAVE,
     DB_JOBSTATUS_GET_BY_JOB_ID_AND_WHAT, DB_JOBSTATUS_GET_BY_JOB_ID,
     DB_JOBSTATUS_DELETE_BY_ID_LIST, DB_JOBSTATUS_SAVE,
     DB_BUNDLE_CREATE_OR_UPDATE_JOB, DB_BUNDLE_GET_JOB_BY_ID,
     DB_BUNDLE_DELETE_JOB

\* The tables of the model, message by message
LEMMA ReaderOf ==
    ASSUME NEW id
    PROVE
    /\ id = UPDATE_JOB => Reader(id) = ReadUpdateJob
    /\ id \in ById => Reader(id) = ReadById
    /\ id = DB_JOB_GET_RUNNING_JOBS => Reader(id) = ReadRunning
    /\ id = DB_JOBSTATUS_GET_BY_JOB_ID_AND_WHAT => Reader(id) = ReadWhat
    /\ id = DB_JOB_SAVE => Reader(id) = ReadJobSave
    /\ id = DB_JOBSTATUS_DELETE_BY_ID_LIST => Reader(id) = ReadIdList
    /\ id = DB_JOBSTATUS_SAVE => Reader(id) = ReadStatusSave
    /\ id = DB_BUNDLE_CREATE_OR_UPDATE_JOB => Reader(id) = ReadBundle
BY DEF Reader, ById, UPDATE_JOB, DB_JOB_GET_BY_JOB_ID, DB_JOB_GET_BY_ID,
     DB_JOB_GET_RUNNING_JOBS, DB_JOB_DELETE, DB_JOB_SAVE,
     DB_JOBSTATUS_GET_BY_JOB_ID_AND_WHAT, DB_JOBSTATUS_GET_BY_JOB_ID,
     DB_JOBSTATUS_DELETE_BY_ID_LIST, DB_JOBSTATUS_SAVE,
     DB_BUNDLE_CREATE_OR_UPDATE_JOB, DB_BUNDLE_GET_JOB_BY_ID,
     DB_BUNDLE_DELETE_JOB

\* Layout, message by message
LEMMA LayoutOf ==
    ASSUME NEW m \in Bodies
    PROVE
    /\ m.id = UPDATE_JOB => Layout(m.id) = <<"uint", "string", "uint", "string">>
    /\ m.id \in ById => Layout(m.id) = <<"uint", "ulong">>
    /\ m.id = DB_JOB_GET_RUNNING_JOBS => Layout(m.id) = <<"uint">>
    /\ m.id = DB_JOBSTATUS_GET_BY_JOB_ID_AND_WHAT => Layout(m.id) = <<"uint", "ulong", "string">>
    /\ m.id = DB_JOB_SAVE => Layout(m.id) = <<"uint", "ulong", "ulong", "ulong", "bool", "uint", "string", "string", "bool", "bool", "bool">>
    /\ m.id = DB_JOBSTATUS_DELETE_BY_ID_LIST => Layout(m.id) = <<"uint", "uint">>
    /\ m.id = DB_JOBSTATUS_SAVE => Layout(m.id) = <<"uint", "ulong", "ulong", "string", "uint">>
    /\ m.id = DB_BUNDLE_CREATE_OR_UPDATE_JOB => Layout(m.id) = <<"uint", "ulong", "string", "string">>
BY DEF Layout, ById, UPDATE_JOB, DB_JOB_GET_BY_JOB_ID, DB_JOB_GET_BY_ID,
     DB_JOB_GET_RUNNING_JOBS, DB_JOB_DELETE, DB_JOB_SAVE,
     DB_JOBSTATUS_GET_BY_JOB_ID_AND_WHAT, DB_JOBSTATUS_GET_BY_JOB_ID,
     DB_JOBSTATUS_DELETE_BY_ID_LIST, DB_JOBSTATUS_SAVE,
     DB_BUNDLE_CREATE_OR_UPDATE_JOB, DB_BUNDLE_GET_JOB_BY_ID,
     DB_BUNDLE_DELETE_JOB

\* TakenBy, message by message
LEMMA TakenOf ==
    ASSUME NEW m \in Bodies
    PROVE
    /\ m.id = UPDATE_JOB => TakenBy(m) = <<2, 3, 4, 4, 5, 6, 6>>
    /\ m.id \in ById => TakenBy(m) = <<2, 2, 3, 4>>
    /\ m.id = DB_JOB_GET_RUNNING_JOBS => TakenBy(m) = <<2, 2, 3>>
    /\ m.id = DB_JOBSTATUS_GET_BY_JOB_ID_AND_WHAT => TakenBy(m) = <<2, 2, 3, 4, 4, 5>>
    /\ m.id = DB_JOB_SAVE => TakenBy(m) = <<2, 3, 3, 4, 5, 6, 7, 8, 9, 10, 11, 12, 13>>
    /\ m.id = DB_JOBSTATUS_DELETE_BY_ID_LIST => TakenBy(m) = <<2, 2, 3, 4, Len(m.fields) + 2>>
    /\ m.id = DB_JOBSTATUS_SAVE => TakenBy(m) = <<2, 3, 3, 4, 5, 6, 7>>
    /\ m.id = DB_BUNDLE_CREATE_OR_UPDATE_JOB => TakenBy(m) = <<2, 3, 3, 4, 5, 6>>
<1> USE DEF TakenBy, ById, UPDATE_JOB, DB_JOB_GET_BY_JOB_ID, DB_JOB_GET_BY_ID,
     DB_JOB_GET_RUNNING_JOBS, DB_JOB_DELETE, DB_JOB_SAVE,
     DB_JOBSTATUS_GET_BY_JOB_ID_AND_WHAT, DB_JOBSTATUS_GET_BY_JOB_ID,
     DB_JOBSTATUS_DELETE_BY_ID_LIST, DB_JOBSTATUS_SAVE,
     DB_BUNDLE_CREATE_OR_UPDATE_JOB, DB_BUNDLE_GET_JOB_BY_ID,
     DB_BUNDLE_DELETE_JOB
<1>1. m.id = UPDATE_JOB => TakenBy(m) = <<2, 3, 4, 4, 5, 6, 6>>
  BY SMTT(30)
<1>2. m.id \in ById => TakenBy(m) = <<2, 2, 3, 4>>
  BY SMTT(30)
<1>3. m.id = DB_JOB_GET_RUNNING_JOBS => TakenBy(m) = <<2, 2, 3>>
  BY SMTT(30)
<1>4. m.id = DB_JOBSTATUS_GET_BY_JOB_ID_AND_WHAT => TakenBy(m) = <<2, 2, 3, 4, 4, 5>>
  BY SMTT(30)
<1>5. m.id = DB_JOB_SAVE => TakenBy(m) = <<2, 3, 3, 4, 5, 6, 7, 8, 9, 10, 11, 12, 13>>
  BY SMTT(30)
<1>6. m.id = DB_JOBSTATUS_DELETE_BY_ID_LIST => TakenBy(m) = <<2, 2, 3, 4, Len(m.fields) + 2>>
  BY SMTT(30)
<1>7. m.id = DB_JOBSTATUS_SAVE => TakenBy(m) = <<2, 3, 3, 4, 5, 6, 7>>
  BY SMTT(30)
<1>8. m.id = DB_BUNDLE_CREATE_OR_UPDATE_JOB => TakenBy(m) = <<2, 3, 3, 4, 5, 6>>
  BY SMTT(30)
<1> HIDE DEF TakenBy, ById, UPDATE_JOB, DB_JOB_GET_BY_JOB_ID, DB_JOB_GET_BY_ID,
     DB_JOB_GET_RUNNING_JOBS, DB_JOB_DELETE, DB_JOB_SAVE,
     DB_JOBSTATUS_GET_BY_JOB_ID_AND_WHAT, DB_JOBSTATUS_GET_BY_JOB_ID,
     DB_JOBSTATUS_DELETE_BY_ID_LIST, DB_JOBSTATUS_SAVE,
     DB_BUNDLE_CREATE_OR_UPDATE_JOB, DB_BUNDLE_GET_JOB_BY_ID,
     DB_BUNDLE_DELETE_JOB
<1> QED
  BY <1>1, <1>2, <1>3, <1>4, <1>5, <1>6, <1>7, <1>8, Zenon

\* What the assumption on the bodies says of their fields
LEMMA BodyShape ==
    ASSUME NEW m \in Bodies
    PROVE  /\ m.id # DB_JOBSTATUS_DELETE_BY_ID_LIST => Len(m.fields) = Len(Layout(m.id))
           /\ m.id = DB_JOBSTATUS_DELETE_BY_ID_LIST =>
                 Len(m.fields) \in Nat /\ Len(m.fields) >= 2 /\ Values(m)[4] = Len(m.fields) - 2
           /\ m.id = UPDATE_JOB => Values(m)[5] \in Statuses
<1>1. /\ m.id # DB_JOBSTATUS_DELETE_BY_ID_LIST => Len(m.fields) = Len(Layout(m.id))
      /\ m.id = DB_JOBSTATUS_DELETE_BY_ID_LIST =>
            Len(m.fields) \in Nat \ {0, 1} /\ m.fields[2] = Len(m.fields) - 2
      /\ m.id = UPDATE_JOB => m.fields[3] \in Statuses
  BY BodiesAssumption, Zenon
<1>2. \A i \in 1..Len(m.fields) : Values(m)[i + 2] = m.fields[i]
  BY BodyFields
<1>3. CASE m.id = DB_JOBSTATUS_DELETE_BY_ID_LIST
  <2>1. Len(m.fields) \in Nat /\ Len(m.fields) >= 2 /\ 2 \in 1..Len(m.fields) /\ 2 + 2 = 4
    <3>1. Len(m.fields) \in Nat /\ Len(m.fields) \notin {0, 1}
      BY <1>1, <1>3, Zenon
    <3>2. \A n \in Nat : n \notin {0, 1} => n >= 2 /\ 2 \in 1..n /\ 2 + 2 = 4
      OBVIOUS
    <3> QED
      BY <3>1, <3>2, Zenon
  <2>2. m.id # UPDATE_JOB
    BY <1>3, IdsDiffer
  <2> QED
    BY <1>1, <1>2, <1>3, <2>1, <2>2, Zenon
<1>4. CASE m.id = UPDATE_JOB
  <2>1. m.id # DB_JOBSTATUS_DELETE_BY_ID_LIST
    BY <1>4, IdsDiffer
  <2>2. Len(Layout(m.id)) = 4
    BY <1>4, LayoutOf
  <2>3. 3 \in 1..Len(m.fields) /\ 3 + 2 = 5
    <3>1. Len(m.fields) = 4
      BY <1>1, <2>1, <2>2, Zenon
    <3> QED
      BY <3>1
  <2> QED
    BY <1>1, <1>2, <1>4, <2>1, <2>3, Zenon
<1> QED
  BY <1>1, <1>3, <1>4, Zenon

\* Guarded, message by message
LEMMA GuardedOf ==
    ASSUME NEW m \in Bodies
    PROVE
    /\ m.id = UPDATE_JOB => Guarded(m) = 1..3
    /\ m.id \in {DB_JOB_SAVE, DB_JOBSTATUS_SAVE, DB_BUNDLE_CREATE_OR_UPDATE_JOB} =>
          Guarded(m) = {j \in 1..(Len(m.fields) + 2) : \A h \in 3..(j - 1) : Types(m)[h] # "string"}
    /\ m.id = DB_JOBSTATUS_DELETE_BY_ID_LIST => Guarded(m) = 1..(Len(m.fields) + 2)
    /\ Guarded(m) \subseteq 1..(Len(m.fields) + 2)
<1>1. Len(Values(m)) = Len(m.fields) + 2 /\ Len(m.fields) \in Nat
  BY BodyFields
<1>2. m.id = UPDATE_JOB => Len(m.fields) = 4
  BY BodyShape, LayoutOf, IdsDiffer
<1>3. /\ m.id = UPDATE_JOB => Guarded(m) = 1..3
      /\ m.id \in {DB_JOB_SAVE, DB_JOBSTATUS_SAVE, DB_BUNDLE_CREATE_OR_UPDATE_JOB} =>
            Guarded(m) = {j \in 1..Len(Values(m)) : \A h \in 3..(j - 1) : Types(m)[h] # "string"}
      /\ m.id \notin {UPDATE_JOB, DB_JOB_SAVE, DB_JOBSTATUS_SAVE, DB_BUNDLE_CREATE_OR_UPDATE_JOB} =>
            Guarded(m) = 1..Len(Values(m))
  BY DEF Guarded, ById, UPDATE_JOB, DB_JOB_GET_BY_JOB_ID, DB_JOB_GET_BY_ID,
     DB_JOB_GET_RUNNING_JOBS, DB_JOB_DELETE, DB_JOB_SAVE,
     DB_JOBSTATUS_GET_BY_JOB_ID_AND_WHAT, DB_JOBSTATUS_GET_BY_JOB_ID,
     DB_JOBSTATUS_DELETE_BY_ID_LIST, DB_JOBSTATUS_SAVE,
     DB_BUNDLE_CREATE_OR_UPDATE_JOB, DB_BUNDLE_GET_JOB_BY_ID,
     DB_BUNDLE_DELETE_JOB
<1>4. Guarded(m) \subseteq 1..(Len(m.fields) + 2)
  <2>1. CASE m.id = UPDATE_JOB
    <3>1. 1..3 \subseteq 1..(Len(m.fields) + 2)
      <4>1. Len(m.fields) = 4
        BY <1>2, <2>1
      <4>2. \A n : n = 4 => 1..3 \subseteq 1..(n + 2)
        OBVIOUS
      <4> QED
        BY <4>1, <4>2, Zenon
    <3> QED
      BY <1>3, <2>1, <3>1, Zenon
  <2>2. CASE m.id \in {DB_JOB_SAVE, DB_JOBSTATUS_SAVE, DB_BUNDLE_CREATE_OR_UPDATE_JOB}
    BY <1>1, <1>3, <2>2, Zenon
  <2>3. CASE m.id \notin {UPDATE_JOB, DB_JOB_SAVE, DB_JOBSTATUS_SAVE, DB_BUNDLE_CREATE_OR_UPDATE_JOB}
    BY <1>1, <1>3, <2>3, Zenon
  <2> QED
    BY <2>1, <2>2, <2>3, Zenon
<1> QED
  BY <1>1, <1>3, <1>4, IdsDiffer

\* What it takes for a step that reads a field to fit
LEMMA FieldFits ==
    ASSUME NEW m, NEW p \in Nat, NEW k, Taken(m, p) = k, Taken(m, p + 1) = k + 1,
           Reader(m.id)[p + 1] = Field(Types(m)[k + 1]), Covered(m, p)
    PROVE  StepFits(m, p)
BY DEF StepFits, Field

\* A field is covered by a test before it.
LEMMA TestedBefore ==
    ASSUME NEW m, NEW p \in Nat, NEW q \in 1..p, NEW t, NEW n,
           Reader(m.id)[p + 1] = Field(t), Reader(m.id)[q] = Need(n),
           Off(m, Taken(m, p)) + Least(t) <= Off(m, Taken(m, q)) + n
    PROVE  Covered(m, p)
BY DEF Covered, Field, Need

\* A field is covered by a test to come.
LEMMA TestedLater ==
    ASSUME NEW m, NEW p \in Nat, NEW q \in (p + 2)..Len(Reader(m.id)), NEW t, NEW n,
           Reader(m.id)[p + 1] = Field(t), Reader(m.id)[q] = Need(n), Least(t) <= n,
           \A i \in 1..q : Reader(m.id)[i] # RowIds
    PROVE  Covered(m, p)
BY DEF Covered, Field, Need

\* One sequence of steps and another
LEMMA Joined ==
    ASSUME NEW a \in Seq(Steps), NEW b \in Seq(Steps)
    PROVE  a \o b \in Seq(Steps) /\ Follows(a \o b, a, b)
BY DEF Follows

\* The steps of the readers are steps.
LEMMA StepsAre ==
    /\ \A n \in Nat : Need(n) \in Steps
    /\ \A t \in FieldTypes : Field(t) \in Steps
    /\ RowIds \in Steps /\ IsStatus \in Steps
BY DEF Steps

\* The steps of ReadUpdateJob
LEMMA UpdateJobStepList ==
    /\ ReadUpdateJob \in Seq(Steps) /\ Len(ReadUpdateJob) = 6
    /\ ReadUpdateJob[1] = Field("uint") /\ ReadUpdateJob[2] = Field("string")
    /\ ReadUpdateJob[3] = Need(4) /\ ReadUpdateJob[4] = Field("uint")
    /\ ReadUpdateJob[5] = Field("string") /\ ReadUpdateJob[6] = IsStatus
BY StepsAre DEF ReadUpdateJob, FieldTypes

\* The reader of a report on a job fits it.
LEMMA UpdateJobFits ==
    ASSUME NEW m \in Bodies, m.id = UPDATE_JOB
    PROVE  ReaderFits(m)
<1> DEFINE R == Reader(m.id)
<1>1. /\ R \in Seq(Steps) /\ Len(R) = 6
      /\ R[1] = Field("uint") /\ R[2] = Field("string") /\ R[3] = Need(4)
      /\ R[4] = Field("uint") /\ R[5] = Field("string") /\ R[6] = IsStatus
  BY ReaderOf, UpdateJobStepList, Zenon
<1>2. /\ Taken(m, 0) = 2 /\ Taken(m, 1) = 3 /\ Taken(m, 2) = 4 /\ Taken(m, 3) = 4
      /\ Taken(m, 4) = 5 /\ Taken(m, 5) = 6 /\ Taken(m, 6) = 6
  BY TakenOf DEF Taken
<1>3. /\ Len(m.fields) = 4 /\ Types(m)[3] = "uint" /\ Types(m)[4] = "string"
      /\ Types(m)[5] = "uint" /\ Types(m)[6] = "string"
  <2>1. /\ Len(Layout(m.id)) = 4 /\ Layout(m.id)[1] = "uint" /\ Layout(m.id)[2] = "string"
        /\ Layout(m.id)[3] = "uint" /\ Layout(m.id)[4] = "string"
    BY LayoutOf
  <2>2. Len(m.fields) \in Nat /\ Len(m.fields) = 4
    BY <2>1, BodyShape, IdsDiffer
  <2>3. \A i \in 1..4 : i \in 1..Len(m.fields) /\ i <= Len(Layout(m.id))
    BY <2>1, <2>2
  <2>4. \A i \in 1..4 : Types(m)[i + 2] = Layout(m.id)[i]
    BY <2>3, TypeAt, Zenon
  <2> QED
    BY <2>1, <2>2, <2>4
<1>4. /\ Off(m, 4) \in Nat /\ Off(m, 5) = Off(m, 4) + 4
      /\ Len(Encode(m)) \in Nat /\ Len(Encode(m)) >= Off(m, 4) + 12
  <2>1. ASSUME NEW k \in 5..6 PROVE FieldEnds(m, k)
    <3>1. k \in 1..(Len(m.fields) + 2)
      BY <1>3
    <3> QED
      BY <3>1, SizeAt
  <2>2. Off(m, 4) \in Nat /\ Off(m, 5) \in Nat /\ Off(m, 5) = Off(m, 4) + 4
    <3>1. FieldEnds(m, 5)
      BY <2>1
    <3> QED
      BY <1>3, <3>1 DEF FieldEnds
  <2>3. Off(m, 4) \in Nat /\ Off(m, 6) \in Nat /\ Off(m, 6) >= Off(m, 4) + 12
    <3>1. FieldEnds(m, 6)
      BY <2>1
    <3> QED
      BY <1>3, <3>1, <2>2 DEF FieldEnds
  <2>4. Len(Encode(m)) \in Nat /\ Len(Encode(m)) >= Off(m, 4) + 12
    <3>1. FieldEnds(m, 6)
      BY <2>1
    <3> QED
      BY <3>1, <2>3 DEF FieldEnds
  <2> QED
    BY <2>2, <2>3, <2>4, Zenon
<1>5. Guarded(m) \subseteq 1..3
  BY GuardedOf
<1>6. ASSUME NEW p \in 0..0 PROVE StepFits(m, p)
  <2>1. /\ Taken(m, p) = p + 2 /\ Taken(m, p + 1) = p + 3
        /\ R[p + 1] = Field(Types(m)[p + 3])
    BY <1>1, <1>2, <1>3
  <2>2. Covered(m, p)
    <3>1. 3 \in (p + 2)..Len(R) /\ R[3] = Need(4) /\ \A i \in 1..3 : R[i] # RowIds
      BY <1>1 DEF Field, Need, RowIds
    <3>2. Least(Types(m)[p + 3]) <= 4
      BY <1>3 DEF Least, Width
    <3> QED
      BY <2>1, <3>1, <3>2, TestedLater
  <2> QED
    BY <2>1, <2>2, FieldFits
<1>7. ASSUME NEW p \in 1..1 PROVE StepFits(m, p)
  <2>1. /\ Taken(m, p) = p + 2 /\ Taken(m, p + 1) = p + 3
        /\ R[p + 1] = Field(Types(m)[p + 3])
    BY <1>1, <1>2, <1>3
  <2>2. Covered(m, p)
    <3>1. Guarded(m) \subseteq 1..(p + 2)
      BY <1>5
    <3> QED
      BY <2>1, <3>1 DEF Covered
  <2> QED
    BY <2>1, <2>2, FieldFits
<1>8. StepFits(m, 2)
  <2>1. Off(m, 4) + 4 <= Len(Encode(m))
    BY <1>4
  <2>2. R[2 + 1] = Need(4) /\ Taken(m, 2) = 4 /\ Taken(m, 2 + 1) = 4
    BY <1>1, <1>2
  <2> QED
    BY <2>1, <2>2 DEF StepFits, Need
<1>9. ASSUME NEW p \in 3..3 PROVE StepFits(m, p)
  <2>1. /\ Taken(m, p) = p + 1 /\ Taken(m, p + 1) = p + 2
        /\ R[p + 1] = Field(Types(m)[p + 2])
    BY <1>1, <1>2, <1>3
  <2>2. Covered(m, p)
    <3>1. Off(m, p + 1) + Least(Types(m)[p + 2]) <= Off(m, 4) + 4
      <4>1. Off(m, p + 1) \in Nat /\ Off(m, p + 1) <= Off(m, 4) + 0
        BY <1>4
      <4>2. Least(Types(m)[p + 2]) \in Nat /\ Least(Types(m)[p + 2]) <= 4
        BY <1>3 DEF Least, Width
      <4>3. Off(m, 4) \in Nat
        BY <1>4
      <4> QED
        BY <4>1, <4>2, <4>3
    <3>2. 3 \in 1..p /\ R[3] = Need(4) /\ Taken(m, 3) = 4
      BY <1>1, <1>2
    <3> QED
      BY <2>1, <3>1, <3>2, TestedBefore
  <2> QED
    BY <2>1, <2>2, FieldFits
<1>10. ASSUME NEW p \in 4..4 PROVE StepFits(m, p)
  <2>1. /\ Taken(m, p) = p + 1 /\ Taken(m, p + 1) = p + 2
        /\ R[p + 1] = Field(Types(m)[p + 2])
    BY <1>1, <1>2, <1>3
  <2>2. Covered(m, p)
    <3>1. Guarded(m) \subseteq 1..(p + 1)
      BY <1>5
    <3> QED
      BY <2>1, <3>1 DEF Covered
  <2> QED
    BY <2>1, <2>2, FieldFits
<1>11. StepFits(m, 5)
  BY <1>1, <1>2, BodyShape DEF StepFits, IsStatus
<1>12. \A p \in 0..5 : StepFits(m, p)
  BY <1>6, <1>7, <1>8, <1>9, <1>10, <1>11
<1>13. \A p \in 0..6 : Taken(m, p) \in 2..(Len(m.fields) + 2)
  BY <1>2, <1>3
<1> QED
  BY <1>1, <1>2, <1>3, <1>12, <1>13 DEF ReaderFits

\* The steps of ReadById
LEMMA ByIdStepList ==
    /\ ReadById \in Seq(Steps) /\ Len(ReadById) = 3
    /\ ReadById[1] = Need(12) /\ ReadById[2] = Field("uint")
    /\ ReadById[3] = Field("ulong")
BY StepsAre DEF ReadById, FieldTypes

\* The reader of a request that names a row fits it.
LEMMA ByIdFits ==
    ASSUME NEW m \in Bodies, m.id \in ById
    PROVE  ReaderFits(m)
<1> DEFINE R == Reader(m.id)
<1>1. /\ R \in Seq(Steps) /\ Len(R) = 3
      /\ R[1] = Need(12) /\ R[2] = Field("uint") /\ R[3] = Field("ulong")
  BY ReaderOf, ByIdStepList, Zenon
<1>2. /\ Taken(m, 0) = 2 /\ Taken(m, 1) = 2 /\ Taken(m, 2) = 3 /\ Taken(m, 3) = 4
  BY TakenOf DEF Taken
<1>3. /\ Len(m.fields) = 2 /\ Types(m)[3] = "uint" /\ Types(m)[4] = "ulong"
  <2>1. /\ Len(Layout(m.id)) = 2 /\ Layout(m.id)[1] = "uint" /\ Layout(m.id)[2] = "ulong"
    BY LayoutOf
  <2>2. Len(m.fields) \in Nat /\ Len(m.fields) = 2
    BY <2>1, BodyShape, IdsDiffer
  <2>3. \A i \in 1..2 : i \in 1..Len(m.fields) /\ i <= Len(Layout(m.id))
    BY <2>1, <2>2
  <2>4. \A i \in 1..2 : Types(m)[i + 2] = Layout(m.id)[i]
    BY <2>3, TypeAt, Zenon
  <2> QED
    BY <2>1, <2>2, <2>4
<1>4. /\ Off(m, 2) \in Nat /\ Off(m, 3) = Off(m, 2) + 4
      /\ Off(m, 4) = Off(m, 2) + 12 /\ Len(Encode(m)) \in Nat
      /\ Len(Encode(m)) >= Off(m, 2) + 12
  <2>1. ASSUME NEW k \in 3..4 PROVE FieldEnds(m, k)
    <3>1. k \in 1..(Len(m.fields) + 2)
      BY <1>3
    <3> QED
      BY <3>1, SizeAt
  <2>2. Off(m, 2) \in Nat /\ Off(m, 3) \in Nat /\ Off(m, 3) = Off(m, 2) + 4
    <3>1. FieldEnds(m, 3)
      BY <2>1
    <3> QED
      BY <1>3, <3>1 DEF FieldEnds
  <2>3. Off(m, 2) \in Nat /\ Off(m, 4) \in Nat /\ Off(m, 4) = Off(m, 2) + 12
    <3>1. FieldEnds(m, 4)
      BY <2>1
    <3> QED
      BY <1>3, <3>1, <2>2 DEF FieldEnds
  <2>4. Len(Encode(m)) \in Nat /\ Len(Encode(m)) >= Off(m, 2) + 12
    <3>1. FieldEnds(m, 4)
      BY <2>1
    <3> QED
      BY <3>1, <2>3 DEF FieldEnds
  <2> QED
    BY <2>2, <2>3, <2>4, Zenon
<1>5. StepFits(m, 0)
  <2>1. Off(m, 2) + 12 <= Len(Encode(m))
    BY <1>4
  <2>2. R[0 + 1] = Need(12) /\ Taken(m, 0) = 2 /\ Taken(m, 0 + 1) = 2
    BY <1>1, <1>2
  <2> QED
    BY <2>1, <2>2 DEF StepFits, Need
<1>6. ASSUME NEW p \in 1..2 PROVE StepFits(m, p)
  <2>1. /\ Taken(m, p) = p + 1 /\ Taken(m, p + 1) = p + 2
        /\ R[p + 1] = Field(Types(m)[p + 2])
    BY <1>1, <1>2, <1>3
  <2>2. Covered(m, p)
    <3>1. Off(m, p + 1) + Least(Types(m)[p + 2]) <= Off(m, 2) + 12
      <4>1. Off(m, p + 1) \in Nat /\ Off(m, p + 1) <= Off(m, 2) + 4
        BY <1>4
      <4>2. Least(Types(m)[p + 2]) \in Nat /\ Least(Types(m)[p + 2]) <= 8
        BY <1>3 DEF Least, Width
      <4>3. Off(m, 2) \in Nat
        BY <1>4
      <4> QED
        BY <4>1, <4>2, <4>3
    <3>2. 1 \in 1..p /\ R[1] = Need(12) /\ Taken(m, 1) = 2
      BY <1>1, <1>2
    <3> QED
      BY <2>1, <3>1, <3>2, TestedBefore
  <2> QED
    BY <2>1, <2>2, FieldFits
<1>7. \A p \in 0..2 : StepFits(m, p)
  BY <1>5, <1>6
<1>8. \A p \in 0..3 : Taken(m, p) \in 2..(Len(m.fields) + 2)
  BY <1>2, <1>3
<1> QED
  BY <1>1, <1>2, <1>3, <1>7, <1>8 DEF ReaderFits

\* The steps of ReadRunning
LEMMA RunningStepList ==
    /\ ReadRunning \in Seq(Steps) /\ Len(ReadRunning) = 2
    /\ ReadRunning[1] = Need(4) /\ ReadRunning[2] = Field("uint")
BY StepsAre DEF ReadRunning, FieldTypes

\* The reader of the request for the jobs that run fits it.
LEMMA RunningFits ==
    ASSUME NEW m \in Bodies, m.id = DB_JOB_GET_RUNNING_JOBS
    PROVE  ReaderFits(m)
<1> DEFINE R == Reader(m.id)
<1>1. /\ R \in Seq(Steps) /\ Len(R) = 2
      /\ R[1] = Need(4) /\ R[2] = Field("uint")
  BY ReaderOf, RunningStepList, Zenon
<1>2. /\ Taken(m, 0) = 2 /\ Taken(m, 1) = 2 /\ Taken(m, 2) = 3
  BY TakenOf DEF Taken
<1>3. /\ Len(m.fields) = 1 /\ Types(m)[3] = "uint"
  <2>1. /\ Len(Layout(m.id)) = 1 /\ Layout(m.id)[1] = "uint"
    BY LayoutOf
  <2>2. Len(m.fields) \in Nat /\ Len(m.fields) = 1
    BY <2>1, BodyShape, IdsDiffer
  <2>3. \A i \in 1..1 : i \in 1..Len(m.fields) /\ i <= Len(Layout(m.id))
    BY <2>1, <2>2
  <2>4. \A i \in 1..1 : Types(m)[i + 2] = Layout(m.id)[i]
    BY <2>3, TypeAt, Zenon
  <2> QED
    BY <2>1, <2>2, <2>4
<1>4. /\ Off(m, 2) \in Nat /\ Off(m, 3) = Off(m, 2) + 4
      /\ Len(Encode(m)) \in Nat /\ Len(Encode(m)) >= Off(m, 2) + 4
  <2>1. ASSUME NEW k \in 3..3 PROVE FieldEnds(m, k)
    <3>1. k \in 1..(Len(m.fields) + 2)
      BY <1>3
    <3> QED
      BY <3>1, SizeAt
  <2>2. Off(m, 2) \in Nat /\ Off(m, 3) \in Nat /\ Off(m, 3) = Off(m, 2) + 4
    <3>1. FieldEnds(m, 3)
      BY <2>1
    <3> QED
      BY <1>3, <3>1 DEF FieldEnds
  <2>3. Len(Encode(m)) \in Nat /\ Len(Encode(m)) >= Off(m, 2) + 4
    <3>1. FieldEnds(m, 3)
      BY <2>1
    <3> QED
      BY <3>1, <2>2 DEF FieldEnds
  <2> QED
    BY <2>2, <2>3, Zenon
<1>5. StepFits(m, 0)
  <2>1. Off(m, 2) + 4 <= Len(Encode(m))
    BY <1>4
  <2>2. R[0 + 1] = Need(4) /\ Taken(m, 0) = 2 /\ Taken(m, 0 + 1) = 2
    BY <1>1, <1>2
  <2> QED
    BY <2>1, <2>2 DEF StepFits, Need
<1>6. ASSUME NEW p \in 1..1 PROVE StepFits(m, p)
  <2>1. /\ Taken(m, p) = p + 1 /\ Taken(m, p + 1) = p + 2
        /\ R[p + 1] = Field(Types(m)[p + 2])
    BY <1>1, <1>2, <1>3
  <2>2. Covered(m, p)
    <3>1. Off(m, p + 1) + Least(Types(m)[p + 2]) <= Off(m, 2) + 4
      <4>1. Off(m, p + 1) \in Nat /\ Off(m, p + 1) <= Off(m, 2) + 0
        BY <1>4
      <4>2. Least(Types(m)[p + 2]) \in Nat /\ Least(Types(m)[p + 2]) <= 4
        BY <1>3 DEF Least, Width
      <4>3. Off(m, 2) \in Nat
        BY <1>4
      <4> QED
        BY <4>1, <4>2, <4>3
    <3>2. 1 \in 1..p /\ R[1] = Need(4) /\ Taken(m, 1) = 2
      BY <1>1, <1>2
    <3> QED
      BY <2>1, <3>1, <3>2, TestedBefore
  <2> QED
    BY <2>1, <2>2, FieldFits
<1>7. \A p \in 0..1 : StepFits(m, p)
  BY <1>5, <1>6
<1>8. \A p \in 0..2 : Taken(m, p) \in 2..(Len(m.fields) + 2)
  BY <1>2, <1>3
<1> QED
  BY <1>1, <1>2, <1>3, <1>7, <1>8 DEF ReaderFits

\* The steps of ReadWhat
LEMMA WhatStepList ==
    /\ ReadWhat \in Seq(Steps) /\ Len(ReadWhat) = 5
    /\ ReadWhat[1] = Need(12) /\ ReadWhat[2] = Field("uint")
    /\ ReadWhat[3] = Field("ulong") /\ ReadWhat[4] = Need(8)
    /\ ReadWhat[5] = Field("string")
<1> DEFINE a == ReadById
           b == <<Need(8), Field("string")>>
<1>1. a \in Seq(Steps) /\ Len(a) = 3 /\ b \in Seq(Steps) /\ Len(b) = 2
  BY ByIdStepList, StepsAre DEF FieldTypes
<1>2. /\ a[1] = Need(12) /\ a[2] = Field("uint") /\ a[3] = Field("ulong")
  BY ByIdStepList
<1>3. /\ b[1] = Need(8) /\ b[2] = Field("string")
  OBVIOUS
<1>4. ReadWhat = a \o b
  BY DEF ReadWhat
<1> HIDE DEF a, b
<1>5. ReadWhat \in Seq(Steps) /\ Follows(ReadWhat, a, b)
  BY <1>1, <1>4, Joined, Zenon
<1>6. /\ ReadWhat \in Seq(Steps) /\ Len(ReadWhat) = 5
      /\ \A i \in 1..3 : ReadWhat[i] = a[i]
      /\ \A i \in 1..2 : ReadWhat[3 + i] = b[i]
  BY <1>1, <1>5 DEF Follows
<1> QED
  BY <1>2, <1>3, <1>6

\* The reader of the request for the statuses of one kind fits it.
LEMMA WhatFits ==
    ASSUME NEW m \in Bodies, m.id = DB_JOBSTATUS_GET_BY_JOB_ID_AND_WHAT
    PROVE  ReaderFits(m)
<1> DEFINE R == Reader(m.id)
<1>1. /\ R \in Seq(Steps) /\ Len(R) = 5
      /\ R[1] = Need(12) /\ R[2] = Field("uint") /\ R[3] = Field("ulong")
      /\ R[4] = Need(8) /\ R[5] = Field("string")
  BY ReaderOf, WhatStepList, Zenon
<1>2. /\ Taken(m, 0) = 2 /\ Taken(m, 1) = 2 /\ Taken(m, 2) = 3 /\ Taken(m, 3) = 4
      /\ Taken(m, 4) = 4 /\ Taken(m, 5) = 5
  BY TakenOf DEF Taken
<1>3. /\ Len(m.fields) = 3 /\ Types(m)[3] = "uint" /\ Types(m)[4] = "ulong"
      /\ Types(m)[5] = "string"
  <2>1. /\ Len(Layout(m.id)) = 3 /\ Layout(m.id)[1] = "uint" /\ Layout(m.id)[2] = "ulong"
        /\ Layout(m.id)[3] = "string"
    BY LayoutOf
  <2>2. Len(m.fields) \in Nat /\ Len(m.fields) = 3
    BY <2>1, BodyShape, IdsDiffer
  <2>3. \A i \in 1..3 : i \in 1..Len(m.fields) /\ i <= Len(Layout(m.id))
    BY <2>1, <2>2
  <2>4. \A i \in 1..3 : Types(m)[i + 2] = Layout(m.id)[i]
    BY <2>3, TypeAt, Zenon
  <2> QED
    BY <2>1, <2>2, <2>4
<1>4. /\ Off(m, 2) \in Nat /\ Off(m, 3) = Off(m, 2) + 4
      /\ Off(m, 4) = Off(m, 2) + 12 /\ Len(Encode(m)) \in Nat
      /\ Len(Encode(m)) >= Off(m, 2) + 20
  <2>1. ASSUME NEW k \in 3..5 PROVE FieldEnds(m, k)
    <3>1. k \in 1..(Len(m.fields) + 2)
      BY <1>3
    <3> QED
      BY <3>1, SizeAt
  <2>2. Off(m, 2) \in Nat /\ Off(m, 3) \in Nat /\ Off(m, 3) = Off(m, 2) + 4
    <3>1. FieldEnds(m, 3)
      BY <2>1
    <3> QED
      BY <1>3, <3>1 DEF FieldEnds
  <2>3. Off(m, 2) \in Nat /\ Off(m, 4) \in Nat /\ Off(m, 4) = Off(m, 2) + 12
    <3>1. FieldEnds(m, 4)
      BY <2>1
    <3> QED
      BY <1>3, <3>1, <2>2 DEF FieldEnds
  <2>4. Off(m, 2) \in Nat /\ Off(m, 5) \in Nat /\ Off(m, 5) >= Off(m, 2) + 20
    <3>1. FieldEnds(m, 5)
      BY <2>1
    <3> QED
      BY <1>3, <3>1, <2>3 DEF FieldEnds
  <2>5. Len(Encode(m)) \in Nat /\ Len(Encode(m)) >= Off(m, 2) + 20
    <3>1. FieldEnds(m, 5)
      BY <2>1
    <3> QED
      BY <3>1, <2>4 DEF FieldEnds
  <2> QED
    BY <2>2, <2>3, <2>4, <2>5, Zenon
<1>5. StepFits(m, 0)
  <2>1. Off(m, 2) + 12 <= Len(Encode(m))
    BY <1>4
  <2>2. R[0 + 1] = Need(12) /\ Taken(m, 0) = 2 /\ Taken(m, 0 + 1) = 2
    BY <1>1, <1>2
  <2> QED
    BY <2>1, <2>2 DEF StepFits, Need
<1>6. ASSUME NEW p \in 1..2 PROVE StepFits(m, p)
  <2>1. /\ Taken(m, p) = p + 1 /\ Taken(m, p + 1) = p + 2
        /\ R[p + 1] = Field(Types(m)[p + 2])
    BY <1>1, <1>2, <1>3
  <2>2. Covered(m, p)
    <3>1. Off(m, p + 1) + Least(Types(m)[p + 2]) <= Off(m, 2) + 12
      <4>1. Off(m, p + 1) \in Nat /\ Off(m, p + 1) <= Off(m, 2) + 4
        BY <1>4
      <4>2. Least(Types(m)[p + 2]) \in Nat /\ Least(Types(m)[p + 2]) <= 8
        BY <1>3 DEF Least, Width
      <4>3. Off(m, 2) \in Nat
        BY <1>4
      <4> QED
        BY <4>1, <4>2, <4>3
    <3>2. 1 \in 1..p /\ R[1] = Need(12) /\ Taken(m, 1) = 2
      BY <1>1, <1>2
    <3> QED
      BY <2>1, <3>1, <3>2, TestedBefore
  <2> QED
    BY <2>1, <2>2, FieldFits
<1>7. StepFits(m, 3)
  <2>1. Off(m, 4) + 8 <= Len(Encode(m))
    BY <1>4
  <2>2. R[3 + 1] = Need(8) /\ Taken(m, 3) = 4 /\ Taken(m, 3 + 1) = 4
    BY <1>1, <1>2
  <2> QED
    BY <2>1, <2>2 DEF StepFits, Need
<1>8. ASSUME NEW p \in 4..4 PROVE StepFits(m, p)
  <2>1. /\ Taken(m, p) = p + 0 /\ Taken(m, p + 1) = p + 1
        /\ R[p + 1] = Field(Types(m)[p + 1])
    BY <1>1, <1>2, <1>3
  <2>2. Covered(m, p)
    <3>1. Off(m, p + 0) + Least(Types(m)[p + 1]) <= Off(m, 4) + 8
      <4>1. Off(m, p + 0) \in Nat /\ Off(m, p + 0) <= Off(m, 4) + 0
        BY <1>4
      <4>2. Least(Types(m)[p + 1]) \in Nat /\ Least(Types(m)[p + 1]) <= 8
        BY <1>3 DEF Least, Width
      <4>3. Off(m, 4) \in Nat
        BY <1>4
      <4> QED
        BY <4>1, <4>2, <4>3
    <3>2. 4 \in 1..p /\ R[4] = Need(8) /\ Taken(m, 4) = 4
      BY <1>1, <1>2
    <3> QED
      BY <2>1, <3>1, <3>2, TestedBefore
  <2> QED
    BY <2>1, <2>2, FieldFits
<1>9. \A p \in 0..4 : StepFits(m, p)
  BY <1>5, <1>6, <1>7, <1>8
<1>10. \A p \in 0..5 : Taken(m, p) \in 2..(Len(m.fields) + 2)
  BY <1>2, <1>3
<1> QED
  BY <1>1, <1>2, <1>3, <1>9, <1>10 DEF ReaderFits

\* The steps of ReadJobSave
LEMMA JobSaveStepList ==
    /\ ReadJobSave \in Seq(Steps) /\ Len(ReadJobSave) = 12
    /\ ReadJobSave[1] = Field("uint") /\ ReadJobSave[2] = Need(48)
    /\ ReadJobSave[3] = Field("ulong") /\ ReadJobSave[4] = Field("ulong")
    /\ ReadJobSave[5] = Field("ulong") /\ ReadJobSave[6] = Field("bool")
    /\ ReadJobSave[7] = Field("uint") /\ ReadJobSave[8] = Field("string")
    /\ ReadJobSave[9] = Field("string") /\ ReadJobSave[10] = Field("bool")
    /\ ReadJobSave[11] = Field("bool") /\ ReadJobSave[12] = Field("bool")
<1> DEFINE a == <<Field("uint"), Need(48)>>
           b == ClusterJob
<1>1. a \in Seq(Steps) /\ Len(a) = 2 /\ b \in Seq(Steps) /\ Len(b) = 10
  BY StepsAre DEF FieldTypes, ClusterJob
<1>2. /\ a[1] = Field("uint") /\ a[2] = Need(48)
  OBVIOUS
<1>3. /\ b[1] = Field("ulong") /\ b[2] = Field("ulong") /\ b[3] = Field("ulong")
      /\ b[4] = Field("bool") /\ b[5] = Field("uint") /\ b[6] = Field("string")
      /\ b[7] = Field("string") /\ b[8] = Field("bool") /\ b[9] = Field("bool")
      /\ b[10] = Field("bool")
  BY DEF ClusterJob
<1>4. ReadJobSave = a \o b
  BY DEF ReadJobSave
<1> HIDE DEF a, b
<1>5. ReadJobSave \in Seq(Steps) /\ Follows(ReadJobSave, a, b)
  BY <1>1, <1>4, Joined, Zenon
<1>6. /\ ReadJobSave \in Seq(Steps) /\ Len(ReadJobSave) = 12
      /\ \A i \in 1..2 : ReadJobSave[i] = a[i]
      /\ \A i \in 1..10 : ReadJobSave[2 + i] = b[i]
  BY <1>1, <1>5 DEF Follows
<1> QED
  BY <1>2, <1>3, <1>6

\* The reader of a job to be saved fits it.
LEMMA JobSaveFits ==
    ASSUME NEW m \in Bodies, m.id = DB_JOB_SAVE
    PROVE  ReaderFits(m)
<1> DEFINE R == Reader(m.id)
<1>1. /\ R \in Seq(Steps) /\ Len(R) = 12
      /\ R[1] = Field("uint") /\ R[2] = Need(48) /\ R[3] = Field("ulong")
      /\ R[4] = Field("ulong") /\ R[5] = Field("ulong") /\ R[6] = Field("bool")
      /\ R[7] = Field("uint") /\ R[8] = Field("string") /\ R[9] = Field("string")
      /\ R[10] = Field("bool") /\ R[11] = Field("bool") /\ R[12] = Field("bool")
  BY ReaderOf, JobSaveStepList, Zenon
<1>2. /\ Taken(m, 0) = 2 /\ Taken(m, 1) = 3 /\ Taken(m, 2) = 3 /\ Taken(m, 3) = 4
      /\ Taken(m, 4) = 5 /\ Taken(m, 5) = 6 /\ Taken(m, 6) = 7 /\ Taken(m, 7) = 8
      /\ Taken(m, 8) = 9 /\ Taken(m, 9) = 10 /\ Taken(m, 10) = 11 /\ Taken(m, 11) = 12
      /\ Taken(m, 12) = 13
  BY TakenOf DEF Taken
<1>3. /\ Len(m.fields) = 11 /\ Types(m)[3] = "uint" /\ Types(m)[4] = "ulong"
      /\ Types(m)[5] = "ulong" /\ Types(m)[6] = "ulong" /\ Types(m)[7] = "bool"
      /\ Types(m)[8] = "uint" /\ Types(m)[9] = "string" /\ Types(m)[10] = "string"
      /\ Types(m)[11] = "bool" /\ Types(m)[12] = "bool" /\ Types(m)[13] = "bool"
  <2>1. /\ Len(Layout(m.id)) = 11 /\ Layout(m.id)[1] = "uint" /\ Layout(m.id)[2] = "ulong"
        /\ Layout(m.id)[3] = "ulong" /\ Layout(m.id)[4] = "ulong" /\ Layout(m.id)[5] = "bool"
        /\ Layout(m.id)[6] = "uint" /\ Layout(m.id)[7] = "string" /\ Layout(m.id)[8] = "string"
        /\ Layout(m.id)[9] = "bool" /\ Layout(m.id)[10] = "bool" /\ Layout(m.id)[11] = "bool"
    BY LayoutOf
  <2>2. Len(m.fields) \in Nat /\ Len(m.fields) = 11
    BY <2>1, BodyShape, IdsDiffer
  <2>3. \A i \in 1..11 : i \in 1..Len(m.fields) /\ i <= Len(Layout(m.id))
    BY <2>1, <2>2
  <2>4. \A i \in 1..11 : Types(m)[i + 2] = Layout(m.id)[i]
    BY <2>3, TypeAt, Zenon
  <2> QED
    BY <2>1, <2>2, <2>4
<1>4. /\ Off(m, 3) \in Nat /\ Off(m, 4) = Off(m, 3) + 8
      /\ Off(m, 5) = Off(m, 3) + 16 /\ Off(m, 6) = Off(m, 3) + 24
      /\ Off(m, 7) = Off(m, 3) + 25 /\ Off(m, 8) = Off(m, 3) + 29
      /\ Len(Encode(m)) \in Nat /\ Len(Encode(m)) >= Off(m, 3) + 48
  <2>1. ASSUME NEW k \in 4..13 PROVE FieldEnds(m, k)
    <3>1. k \in 1..(Len(m.fields) + 2)
      BY <1>3
    <3> QED
      BY <3>1, SizeAt
  <2>2. Off(m, 3) \in Nat /\ Off(m, 4) \in Nat /\ Off(m, 4) = Off(m, 3) + 8
    <3>1. FieldEnds(m, 4)
      BY <2>1
    <3> QED
      BY <1>3, <3>1 DEF FieldEnds
  <2>3. Off(m, 3) \in Nat /\ Off(m, 5) \in Nat /\ Off(m, 5) = Off(m, 3) + 16
    <3>1. FieldEnds(m, 5)
      BY <2>1
    <3> QED
      BY <1>3, <3>1, <2>2 DEF FieldEnds
  <2>4. Off(m, 3) \in Nat /\ Off(m, 6) \in Nat /\ Off(m, 6) = Off(m, 3) + 24
    <3>1. FieldEnds(m, 6)
      BY <2>1
    <3> QED
      BY <1>3, <3>1, <2>3 DEF FieldEnds
  <2>5. Off(m, 3) \in Nat /\ Off(m, 7) \in Nat /\ Off(m, 7) = Off(m, 3) + 25
    <3>1. FieldEnds(m, 7)
      BY <2>1
    <3> QED
      BY <1>3, <3>1, <2>4 DEF FieldEnds
  <2>6. Off(m, 3) \in Nat /\ Off(m, 8) \in Nat /\ Off(m, 8) = Off(m, 3) + 29
    <3>1. FieldEnds(m, 8)
      BY <2>1
    <3> QED
      BY <1>3, <3>1, <2>5 DEF FieldEnds
  <2>7. Off(m, 3) \in Nat /\ Off(m, 9) \in Nat /\ Off(m, 9) >= Off(m, 3) + 37
    <3>1. FieldEnds(m, 9)
      BY <2>1
    <3> QED
      BY <1>3, <3>1, <2>6 DEF FieldEnds
  <2>8. Off(m, 3) \in Nat /\ Off(m, 10) \in Nat /\ Off(m, 10) >= Off(m, 3) + 45
    <3>1. FieldEnds(m, 10)
      BY <2>1
    <3> QED
      BY <1>3, <3>1, <2>7 DEF FieldEnds
  <2>9. Off(m, 3) \in Nat /\ Off(m, 11) \in Nat /\ Off(m, 11) >= Off(m, 3) + 46
    <3>1. FieldEnds(m, 11)
      BY <2>1
    <3> QED
      BY <1>3, <3>1, <2>8 DEF FieldEnds
  <2>10. Off(m, 3) \in Nat /\ Off(m, 12) \in Nat /\ Off(m, 12) >= Off(m, 3) + 47
    <3>1. FieldEnds(m, 12)
      BY <2>1
    <3> QED
      BY <1>3, <3>1, <2>9 DEF FieldEnds
  <2>11. Off(m, 3) \in Nat /\ Off(m, 13) \in Nat /\ Off(m, 13) >= Off(m, 3) + 48
    <3>1. FieldEnds(m, 13)
      BY <2>1
    <3> QED
      BY <1>3, <3>1, <2>10 DEF FieldEnds
  <2>12. Len(Encode(m)) \in Nat /\ Len(Encode(m)) >= Off(m, 3) + 48
    <3>1. FieldEnds(m, 13)
      BY <2>1
    <3> QED
      BY <3>1, <2>11 DEF FieldEnds
  <2> QED
    BY <2>2, <2>3, <2>4, <2>5, <2>6, <2>7, <2>8, <2>9, <2>10, <2>11, <2>12, Zenon
<1>5. Guarded(m) \subseteq 1..9
  <2>1. ASSUME NEW i \in Guarded(m) PROVE i \in 1..9
    <3>1. Guarded(m) = {j \in 1..(Len(m.fields) + 2) : \A h \in 3..(j - 1) : Types(m)[h] # "string"}
      BY GuardedOf
    <3>2. i \in 1..(Len(m.fields) + 2) /\ ~(9 \in 3..(i - 1))
      BY <1>3, <3>1
    <3> QED
      BY <1>3, <3>2
  <2> QED
    BY <2>1
<1>6. ASSUME NEW p \in 0..0 PROVE StepFits(m, p)
  <2>1. /\ Taken(m, p) = p + 2 /\ Taken(m, p + 1) = p + 3
        /\ R[p + 1] = Field(Types(m)[p + 3])
    BY <1>1, <1>2, <1>3
  <2>2. Covered(m, p)
    <3>1. 2 \in (p + 2)..Len(R) /\ R[2] = Need(48) /\ \A i \in 1..2 : R[i] # RowIds
      BY <1>1 DEF Field, Need, RowIds
    <3>2. Least(Types(m)[p + 3]) <= 48
      BY <1>3 DEF Least, Width
    <3> QED
      BY <2>1, <3>1, <3>2, TestedLater
  <2> QED
    BY <2>1, <2>2, FieldFits
<1>7. StepFits(m, 1)
  <2>1. Off(m, 3) + 48 <= Len(Encode(m))
    BY <1>4
  <2>2. R[1 + 1] = Need(48) /\ Taken(m, 1) = 3 /\ Taken(m, 1 + 1) = 3
    BY <1>1, <1>2
  <2> QED
    BY <2>1, <2>2 DEF StepFits, Need
<1>8. ASSUME NEW p \in 2..4 PROVE StepFits(m, p)
  <2>1. /\ Taken(m, p) = p + 1 /\ Taken(m, p + 1) = p + 2
        /\ R[p + 1] = Field(Types(m)[p + 2])
    BY <1>1, <1>2, <1>3
  <2>2. Covered(m, p)
    <3>1. Off(m, p + 1) + Least(Types(m)[p + 2]) <= Off(m, 3) + 48
      <4>1. Off(m, p + 1) \in Nat /\ Off(m, p + 1) <= Off(m, 3) + 16
        BY <1>4
      <4>2. Least(Types(m)[p + 2]) \in Nat /\ Least(Types(m)[p + 2]) <= 8
        BY <1>3 DEF Least, Width
      <4>3. Off(m, 3) \in Nat
        BY <1>4
      <4> QED
        BY <4>1, <4>2, <4>3
    <3>2. 2 \in 1..p /\ R[2] = Need(48) /\ Taken(m, 2) = 3
      BY <1>1, <1>2
    <3> QED
      BY <2>1, <3>1, <3>2, TestedBefore
  <2> QED
    BY <2>1, <2>2, FieldFits
<1>9. ASSUME NEW p \in 5..7 PROVE StepFits(m, p)
  <2>1. /\ Taken(m, p) = p + 1 /\ Taken(m, p + 1) = p + 2
        /\ R[p + 1] = Field(Types(m)[p + 2])
    BY <1>1, <1>2, <1>3
  <2>2. Covered(m, p)
    <3>1. Off(m, p + 1) + Least(Types(m)[p + 2]) <= Off(m, 3) + 48
      <4>1. Off(m, p + 1) \in Nat /\ Off(m, p + 1) <= Off(m, 3) + 29
        BY <1>4
      <4>2. Least(Types(m)[p + 2]) \in Nat /\ Least(Types(m)[p + 2]) <= 8
        BY <1>3 DEF Least, Width
      <4>3. Off(m, 3) \in Nat
        BY <1>4
      <4> QED
        BY <4>1, <4>2, <4>3
    <3>2. 2 \in 1..p /\ R[2] = Need(48) /\ Taken(m, 2) = 3
      BY <1>1, <1>2
    <3> QED
      BY <2>1, <3>1, <3>2, TestedBefore
  <2> QED
    BY <2>1, <2>2, FieldFits
<1>10. ASSUME NEW p \in 8..10 PROVE StepFits(m, p)
  <2>1. /\ Taken(m, p) = p + 1 /\ Taken(m, p + 1) = p + 2
        /\ R[p + 1] = Field(Types(m)[p + 2])
    BY <1>1, <1>2, <1>3
  <2>2. Covered(m, p)
    <3>1. Guarded(m) \subseteq 1..(p + 1)
      BY <1>5
    <3> QED
      BY <2>1, <3>1 DEF Covered
  <2> QED
    BY <2>1, <2>2, FieldFits
<1>11. ASSUME NEW p \in 11..11 PROVE StepFits(m, p)
  <2>1. /\ Taken(m, p) = p + 1 /\ Taken(m, p + 1) = p + 2
        /\ R[p + 1] = Field(Types(m)[p + 2])
    BY <1>1, <1>2, <1>3
  <2>2. Covered(m, p)
    <3>1. Guarded(m) \subseteq 1..(p + 1)
      BY <1>5
    <3> QED
      BY <2>1, <3>1 DEF Covered
  <2> QED
    BY <2>1, <2>2, FieldFits
<1>12. \A p \in 0..11 : StepFits(m, p)
  BY <1>6, <1>7, <1>8, <1>9, <1>10, <1>11
<1>13. \A p \in 0..12 : Taken(m, p) \in 2..(Len(m.fields) + 2)
  BY <1>2, <1>3
<1> QED
  BY <1>1, <1>2, <1>3, <1>12, <1>13 DEF ReaderFits

\* The steps of ReadIdList
LEMMA IdListStepList ==
    /\ ReadIdList \in Seq(Steps) /\ Len(ReadIdList) = 4
    /\ ReadIdList[1] = Need(8) /\ ReadIdList[2] = Field("uint")
    /\ ReadIdList[3] = Field("uint") /\ ReadIdList[4] = RowIds
BY StepsAre DEF ReadIdList, FieldTypes

\* The reader of a list of statuses to be deleted fits it.
LEMMA IdListFits ==
    ASSUME NEW m \in Bodies, m.id = DB_JOBSTATUS_DELETE_BY_ID_LIST
    PROVE  ReaderFits(m)
<1> DEFINE R == Reader(m.id)
<1>1. /\ R \in Seq(Steps) /\ Len(R) = 4
      /\ R[1] = Need(8) /\ R[2] = Field("uint") /\ R[3] = Field("uint")
      /\ R[4] = RowIds
  BY ReaderOf, IdListStepList, Zenon
<1>2. /\ Taken(m, 0) = 2 /\ Taken(m, 1) = 2 /\ Taken(m, 2) = 3 /\ Taken(m, 3) = 4
      /\ Taken(m, 4) = Len(m.fields) + 2
  BY TakenOf DEF Taken
<1>3. /\ Len(m.fields) \in Nat /\ Len(m.fields) >= 2 /\ Types(m)[3] = "uint"
      /\ Types(m)[4] = "uint"
  <2>1. /\ Len(Layout(m.id)) = 2 /\ Layout(m.id)[1] = "uint" /\ Layout(m.id)[2] = "uint"
    BY LayoutOf
  <2>2. Len(m.fields) \in Nat /\ Len(m.fields) >= 2
    BY <2>1, BodyShape, IdsDiffer
  <2>3. \A i \in 1..2 : i \in 1..Len(m.fields) /\ i <= Len(Layout(m.id))
    BY <2>1, <2>2
  <2>4. \A i \in 1..2 : Types(m)[i + 2] = Layout(m.id)[i]
    BY <2>3, TypeAt, Zenon
  <2> QED
    BY <2>1, <2>2, <2>4
<1>4. /\ Off(m, 2) \in Nat /\ Off(m, 3) = Off(m, 2) + 4
      /\ Off(m, 4) = Off(m, 2) + 8 /\ Len(Encode(m)) \in Nat
      /\ Len(Encode(m)) >= Off(m, 2) + 8
  <2>1. ASSUME NEW k \in 3..4 PROVE FieldEnds(m, k)
    <3>1. k \in 1..(Len(m.fields) + 2)
      BY <1>3
    <3> QED
      BY <3>1, SizeAt
  <2>2. Off(m, 2) \in Nat /\ Off(m, 3) \in Nat /\ Off(m, 3) = Off(m, 2) + 4
    <3>1. FieldEnds(m, 3)
      BY <2>1
    <3> QED
      BY <1>3, <3>1 DEF FieldEnds
  <2>3. Off(m, 2) \in Nat /\ Off(m, 4) \in Nat /\ Off(m, 4) = Off(m, 2) + 8
    <3>1. FieldEnds(m, 4)
      BY <2>1
    <3> QED
      BY <1>3, <3>1, <2>2 DEF FieldEnds
  <2>4. Len(Encode(m)) \in Nat /\ Len(Encode(m)) >= Off(m, 2) + 8
    <3>1. FieldEnds(m, 4)
      BY <2>1
    <3> QED
      BY <3>1, <2>3 DEF FieldEnds
  <2> QED
    BY <2>2, <2>3, <2>4, Zenon
<1>5. StepFits(m, 0)
  <2>1. Off(m, 2) + 8 <= Len(Encode(m))
    BY <1>4
  <2>2. R[0 + 1] = Need(8) /\ Taken(m, 0) = 2 /\ Taken(m, 0 + 1) = 2
    BY <1>1, <1>2
  <2> QED
    BY <2>1, <2>2 DEF StepFits, Need
<1>6. ASSUME NEW p \in 1..2 PROVE StepFits(m, p)
  <2>1. /\ Taken(m, p) = p + 1 /\ Taken(m, p + 1) = p + 2
        /\ R[p + 1] = Field(Types(m)[p + 2])
    BY <1>1, <1>2, <1>3
  <2>2. Covered(m, p)
    <3>1. Off(m, p + 1) + Least(Types(m)[p + 2]) <= Off(m, 2) + 8
      <4>1. Off(m, p + 1) \in Nat /\ Off(m, p + 1) <= Off(m, 2) + 4
        BY <1>4
      <4>2. Least(Types(m)[p + 2]) \in Nat /\ Least(Types(m)[p + 2]) <= 4
        BY <1>3 DEF Least, Width
      <4>3. Off(m, 2) \in Nat
        BY <1>4
      <4> QED
        BY <4>1, <4>2, <4>3
    <3>2. 1 \in 1..p /\ R[1] = Need(8) /\ Taken(m, 1) = 2
      BY <1>1, <1>2
    <3> QED
      BY <2>1, <3>1, <3>2, TestedBefore
  <2> QED
    BY <2>1, <2>2, FieldFits
<1>7. StepFits(m, 3)
  BY <1>1, <1>2 DEF StepFits, RowIds
<1>8. \A p \in 0..3 : StepFits(m, p)
  BY <1>5, <1>6, <1>7
<1>9. \A p \in 0..4 : Taken(m, p) \in 2..(Len(m.fields) + 2)
  BY <1>2, <1>3
<1> QED
  BY <1>1, <1>2, <1>3, <1>8, <1>9 DEF ReaderFits

\* The steps of ReadStatusSave
LEMMA StatusSaveStepList ==
    /\ ReadStatusSave \in Seq(Steps) /\ Len(ReadStatusSave) = 6
    /\ ReadStatusSave[1] = Field("uint") /\ ReadStatusSave[2] = Need(28)
    /\ ReadStatusSave[3] = Field("ulong") /\ ReadStatusSave[4] = Field("ulong")
    /\ ReadStatusSave[5] = Field("string") /\ ReadStatusSave[6] = Field("uint")
<1> DEFINE a == <<Field("uint"), Need(28)>>
           b == ClusterJobStatus
<1>1. a \in Seq(Steps) /\ Len(a) = 2 /\ b \in Seq(Steps) /\ Len(b) = 4
  BY StepsAre DEF FieldTypes, ClusterJobStatus
<1>2. /\ a[1] = Field("uint") /\ a[2] = Need(28)
  OBVIOUS
<1>3. /\ b[1] = Field("ulong") /\ b[2] = Field("ulong") /\ b[3] = Field("string")
      /\ b[4] = Field("uint")
  BY DEF ClusterJobStatus
<1>4. ReadStatusSave = a \o b
  BY DEF ReadStatusSave
<1> HIDE DEF a, b
<1>5. ReadStatusSave \in Seq(Steps) /\ Follows(ReadStatusSave, a, b)
  BY <1>1, <1>4, Joined, Zenon
<1>6. /\ ReadStatusSave \in Seq(Steps) /\ Len(ReadStatusSave) = 6
      /\ \A i \in 1..2 : ReadStatusSave[i] = a[i]
      /\ \A i \in 1..4 : ReadStatusSave[2 + i] = b[i]
  BY <1>1, <1>5 DEF Follows
<1> QED
  BY <1>2, <1>3, <1>6

\* The reader of a status to be saved fits it.
LEMMA StatusSaveFits ==
    ASSUME NEW m \in Bodies, m.id = DB_JOBSTATUS_SAVE
    PROVE  ReaderFits(m)
<1> DEFINE R == Reader(m.id)
<1>1. /\ R \in Seq(Steps) /\ Len(R) = 6
      /\ R[1] = Field("uint") /\ R[2] = Need(28) /\ R[3] = Field("ulong")
      /\ R[4] = Field("ulong") /\ R[5] = Field("string") /\ R[6] = Field("uint")
  BY ReaderOf, StatusSaveStepList, Zenon
<1>2. /\ Taken(m, 0) = 2 /\ Taken(m, 1) = 3 /\ Taken(m, 2) = 3 /\ Taken(m, 3) = 4
      /\ Taken(m, 4) = 5 /\ Taken(m, 5) = 6 /\ Taken(m, 6) = 7
  BY TakenOf DEF Taken
<1>3. /\ Len(m.fields) = 5 /\ Types(m)[3] = "uint" /\ Types(m)[4] = "ulong"
      /\ Types(m)[5] = "ulong" /\ Types(m)[6] = "string" /\ Types(m)[7] = "uint"
  <2>1. /\ Len(Layout(m.id)) = 5 /\ Layout(m.id)[1] = "uint" /\ Layout(m.id)[2] = "ulong"
        /\ Layout(m.id)[3] = "ulong" /\ Layout(m.id)[4] = "string" /\ Layout(m.id)[5] = "uint"
    BY LayoutOf
  <2>2. Len(m.fields) \in Nat /\ Len(m.fields) = 5
    BY <2>1, BodyShape, IdsDiffer
  <2>3. \A i \in 1..5 : i \in 1..Len(m.fields) /\ i <= Len(Layout(m.id))
    BY <2>1, <2>2
  <2>4. \A i \in 1..5 : Types(m)[i + 2] = Layout(m.id)[i]
    BY <2>3, TypeAt, Zenon
  <2> QED
    BY <2>1, <2>2, <2>4
<1>4. /\ Off(m, 3) \in Nat /\ Off(m, 4) = Off(m, 3) + 8
      /\ Off(m, 5) = Off(m, 3) + 16 /\ Len(Encode(m)) \in Nat
      /\ Len(Encode(m)) >= Off(m, 3) + 28
  <2>1. ASSUME NEW k \in 4..7 PROVE FieldEnds(m, k)
    <3>1. k \in 1..(Len(m.fields) + 2)
      BY <1>3
    <3> QED
      BY <3>1, SizeAt
  <2>2. Off(m, 3) \in Nat /\ Off(m, 4) \in Nat /\ Off(m, 4) = Off(m, 3) + 8
    <3>1. FieldEnds(m, 4)
      BY <2>1
    <3> QED
      BY <1>3, <3>1 DEF FieldEnds
  <2>3. Off(m, 3) \in Nat /\ Off(m, 5) \in Nat /\ Off(m, 5) = Off(m, 3) + 16
    <3>1. FieldEnds(m, 5)
      BY <2>1
    <3> QED
      BY <1>3, <3>1, <2>2 DEF FieldEnds
  <2>4. Off(m, 3) \in Nat /\ Off(m, 6) \in Nat /\ Off(m, 6) >= Off(m, 3) + 24
    <3>1. FieldEnds(m, 6)
      BY <2>1
    <3> QED
      BY <1>3, <3>1, <2>3 DEF FieldEnds
  <2>5. Off(m, 3) \in Nat /\ Off(m, 7) \in Nat /\ Off(m, 7) >= Off(m, 3) + 28
    <3>1. FieldEnds(m, 7)
      BY <2>1
    <3> QED
      BY <1>3, <3>1, <2>4 DEF FieldEnds
  <2>6. Len(Encode(m)) \in Nat /\ Len(Encode(m)) >= Off(m, 3) + 28
    <3>1. FieldEnds(m, 7)
      BY <2>1
    <3> QED
      BY <3>1, <2>5 DEF FieldEnds
  <2> QED
    BY <2>2, <2>3, <2>4, <2>5, <2>6, Zenon
<1>5. Guarded(m) \subseteq 1..6
  <2>1. ASSUME NEW i \in Guarded(m) PROVE i \in 1..6
    <3>1. Guarded(m) = {j \in 1..(Len(m.fields) + 2) : \A h \in 3..(j - 1) : Types(m)[h] # "string"}
      BY GuardedOf
    <3>2. i \in 1..(Len(m.fields) + 2) /\ ~(6 \in 3..(i - 1))
      BY <1>3, <3>1
    <3> QED
      BY <1>3, <3>2
  <2> QED
    BY <2>1
<1>6. ASSUME NEW p \in 0..0 PROVE StepFits(m, p)
  <2>1. /\ Taken(m, p) = p + 2 /\ Taken(m, p + 1) = p + 3
        /\ R[p + 1] = Field(Types(m)[p + 3])
    BY <1>1, <1>2, <1>3
  <2>2. Covered(m, p)
    <3>1. 2 \in (p + 2)..Len(R) /\ R[2] = Need(28) /\ \A i \in 1..2 : R[i] # RowIds
      BY <1>1 DEF Field, Need, RowIds
    <3>2. Least(Types(m)[p + 3]) <= 28
      BY <1>3 DEF Least, Width
    <3> QED
      BY <2>1, <3>1, <3>2, TestedLater
  <2> QED
    BY <2>1, <2>2, FieldFits
<1>7. StepFits(m, 1)
  <2>1. Off(m, 3) + 28 <= Len(Encode(m))
    BY <1>4
  <2>2. R[1 + 1] = Need(28) /\ Taken(m, 1) = 3 /\ Taken(m, 1 + 1) = 3
    BY <1>1, <1>2
  <2> QED
    BY <2>1, <2>2 DEF StepFits, Need
<1>8. ASSUME NEW p \in 2..4 PROVE StepFits(m, p)
  <2>1. /\ Taken(m, p) = p + 1 /\ Taken(m, p + 1) = p + 2
        /\ R[p + 1] = Field(Types(m)[p + 2])
    BY <1>1, <1>2, <1>3
  <2>2. Covered(m, p)
    <3>1. Off(m, p + 1) + Least(Types(m)[p + 2]) <= Off(m, 3) + 28
      <4>1. Off(m, p + 1) \in Nat /\ Off(m, p + 1) <= Off(m, 3) + 16
        BY <1>4
      <4>2. Least(Types(m)[p + 2]) \in Nat /\ Least(Types(m)[p + 2]) <= 8
        BY <1>3 DEF Least, Width
      <4>3. Off(m, 3) \in Nat
        BY <1>4
      <4> QED
        BY <4>1, <4>2, <4>3
    <3>2. 2 \in 1..p /\ R[2] = Need(28) /\ Taken(m, 2) = 3
      BY <1>1, <1>2
    <3> QED
      BY <2>1, <3>1, <3>2, TestedBefore
  <2> QED
    BY <2>1, <2>2, FieldFits
<1>9. ASSUME NEW p \in 5..5 PROVE StepFits(m, p)
  <2>1. /\ Taken(m, p) = p + 1 /\ Taken(m, p + 1) = p + 2
        /\ R[p + 1] = Field(Types(m)[p + 2])
    BY <1>1, <1>2, <1>3
  <2>2. Covered(m, p)
    <3>1. Guarded(m) \subseteq 1..(p + 1)
      BY <1>5
    <3> QED
      BY <2>1, <3>1 DEF Covered
  <2> QED
    BY <2>1, <2>2, FieldFits
<1>10. \A p \in 0..5 : StepFits(m, p)
  BY <1>6, <1>7, <1>8, <1>9
<1>11. \A p \in 0..6 : Taken(m, p) \in 2..(Len(m.fields) + 2)
  BY <1>2, <1>3
<1> QED
  BY <1>1, <1>2, <1>3, <1>10, <1>11 DEF ReaderFits

\* The steps of ReadBundle
LEMMA BundleStepList ==
    /\ ReadBundle \in Seq(Steps) /\ Len(ReadBundle) = 5
    /\ ReadBundle[1] = Field("uint") /\ ReadBundle[2] = Need(24)
    /\ ReadBundle[3] = Field("ulong") /\ ReadBundle[4] = Field("string")
    /\ ReadBundle[5] = Field("string")
<1> DEFINE a == <<Field("uint"), Need(24)>>
           b == BundleJob \o <<Field("string")>>
<1>1. a \in Seq(Steps) /\ Len(a) = 2 /\ b \in Seq(Steps) /\ Len(b) = 3
  BY StepsAre DEF FieldTypes, BundleJob
<1>2. /\ a[1] = Field("uint") /\ a[2] = Need(24)
  OBVIOUS
<1>3. /\ b[1] = Field("ulong") /\ b[2] = Field("string") /\ b[3] = Field("string")
  BY DEF BundleJob
<1>4. ReadBundle = a \o b
  BY DEF ReadBundle, BundleJob
<1> HIDE DEF a, b
<1>5. ReadBundle \in Seq(Steps) /\ Follows(ReadBundle, a, b)
  BY <1>1, <1>4, Joined, Zenon
<1>6. /\ ReadBundle \in Seq(Steps) /\ Len(ReadBundle) = 5
      /\ \A i \in 1..2 : ReadBundle[i] = a[i]
      /\ \A i \in 1..3 : ReadBundle[2 + i] = b[i]
  BY <1>1, <1>5 DEF Follows
<1> QED
  BY <1>2, <1>3, <1>6

\* The reader of a bundle job to be saved fits it.
LEMMA BundleFits ==
    ASSUME NEW m \in Bodies, m.id = DB_BUNDLE_CREATE_OR_UPDATE_JOB
    PROVE  ReaderFits(m)
<1> DEFINE R == Reader(m.id)
<1>1. /\ R \in Seq(Steps) /\ Len(R) = 5
      /\ R[1] = Field("uint") /\ R[2] = Need(24) /\ R[3] = Field("ulong")
      /\ R[4] = Field("string") /\ R[5] = Field("string")
  BY ReaderOf, BundleStepList, Zenon
<1>2. /\ Taken(m, 0) = 2 /\ Taken(m, 1) = 3 /\ Taken(m, 2) = 3 /\ Taken(m, 3) = 4
      /\ Taken(m, 4) = 5 /\ Taken(m, 5) = 6
  BY TakenOf DEF Taken
<1>3. /\ Len(m.fields) = 4 /\ Types(m)[3] = "uint" /\ Types(m)[4] = "ulong"
      /\ Types(m)[5] = "string" /\ Types(m)[6] = "string"
  <2>1. /\ Len(Layout(m.id)) = 4 /\ Layout(m.id)[1] = "uint" /\ Layout(m.id)[2] = "ulong"
        /\ Layout(m.id)[3] = "string" /\ Layout(m.id)[4] = "string"
    BY LayoutOf
  <2>2. Len(m.fields) \in Nat /\ Len(m.fields) = 4
    BY <2>1, BodyShape, IdsDiffer
  <2>3. \A i \in 1..4 : i \in 1..Len(m.fields) /\ i <= Len(Layout(m.id))
    BY <2>1, <2>2
  <2>4. \A i \in 1..4 : Types(m)[i + 2] = Layout(m.id)[i]
    BY <2>3, TypeAt, Zenon
  <2> QED
    BY <2>1, <2>2, <2>4
<1>4. /\ Off(m, 3) \in Nat /\ Off(m, 4) = Off(m, 3) + 8
      /\ Len(Encode(m)) \in Nat /\ Len(Encode(m)) >= Off(m, 3) + 24
  <2>1. ASSUME NEW k \in 4..6 PROVE FieldEnds(m, k)
    <3>1. k \in 1..(Len(m.fields) + 2)
      BY <1>3
    <3> QED
      BY <3>1, SizeAt
  <2>2. Off(m, 3) \in Nat /\ Off(m, 4) \in Nat /\ Off(m, 4) = Off(m, 3) + 8
    <3>1. FieldEnds(m, 4)
      BY <2>1
    <3> QED
      BY <1>3, <3>1 DEF FieldEnds
  <2>3. Off(m, 3) \in Nat /\ Off(m, 5) \in Nat /\ Off(m, 5) >= Off(m, 3) + 16
    <3>1. FieldEnds(m, 5)
      BY <2>1
    <3> QED
      BY <1>3, <3>1, <2>2 DEF FieldEnds
  <2>4. Off(m, 3) \in Nat /\ Off(m, 6) \in Nat /\ Off(m, 6) >= Off(m, 3) + 24
    <3>1. FieldEnds(m, 6)
      BY <2>1
    <3> QED
      BY <1>3, <3>1, <2>3 DEF FieldEnds
  <2>5. Len(Encode(m)) \in Nat /\ Len(Encode(m)) >= Off(m, 3) + 24
    <3>1. FieldEnds(m, 6)
      BY <2>1
    <3> QED
      BY <3>1, <2>4 DEF FieldEnds
  <2> QED
    BY <2>2, <2>3, <2>4, <2>5, Zenon
<1>5. Guarded(m) \subseteq 1..5
  <2>1. ASSUME NEW i \in Guarded(m) PROVE i \in 1..5
    <3>1. Guarded(m) = {j \in 1..(Len(m.fields) + 2) : \A h \in 3..(j - 1) : Types(m)[h] # "string"}
      BY GuardedOf
    <3>2. i \in 1..(Len(m.fields) + 2) /\ ~(5 \in 3..(i - 1))
      BY <1>3, <3>1
    <3> QED
      BY <1>3, <3>2
  <2> QED
    BY <2>1
<1>6. ASSUME NEW p \in 0..0 PROVE StepFits(m, p)
  <2>1. /\ Taken(m, p) = p + 2 /\ Taken(m, p + 1) = p + 3
        /\ R[p + 1] = Field(Types(m)[p + 3])
    BY <1>1, <1>2, <1>3
  <2>2. Covered(m, p)
    <3>1. 2 \in (p + 2)..Len(R) /\ R[2] = Need(24) /\ \A i \in 1..2 : R[i] # RowIds
      BY <1>1 DEF Field, Need, RowIds
    <3>2. Least(Types(m)[p + 3]) <= 24
      BY <1>3 DEF Least, Width
    <3> QED
      BY <2>1, <3>1, <3>2, TestedLater
  <2> QED
    BY <2>1, <2>2, FieldFits
<1>7. StepFits(m, 1)
  <2>1. Off(m, 3) + 24 <= Len(Encode(m))
    BY <1>4
  <2>2. R[1 + 1] = Need(24) /\ Taken(m, 1) = 3 /\ Taken(m, 1 + 1) = 3
    BY <1>1, <1>2
  <2> QED
    BY <2>1, <2>2 DEF StepFits, Need
<1>8. ASSUME NEW p \in 2..3 PROVE StepFits(m, p)
  <2>1. /\ Taken(m, p) = p + 1 /\ Taken(m, p + 1) = p + 2
        /\ R[p + 1] = Field(Types(m)[p + 2])
    BY <1>1, <1>2, <1>3
  <2>2. Covered(m, p)
    <3>1. Off(m, p + 1) + Least(Types(m)[p + 2]) <= Off(m, 3) + 24
      <4>1. Off(m, p + 1) \in Nat /\ Off(m, p + 1) <= Off(m, 3) + 8
        BY <1>4
      <4>2. Least(Types(m)[p + 2]) \in Nat /\ Least(Types(m)[p + 2]) <= 8
        BY <1>3 DEF Least, Width
      <4>3. Off(m, 3) \in Nat
        BY <1>4
      <4> QED
        BY <4>1, <4>2, <4>3
    <3>2. 2 \in 1..p /\ R[2] = Need(24) /\ Taken(m, 2) = 3
      BY <1>1, <1>2
    <3> QED
      BY <2>1, <3>1, <3>2, TestedBefore
  <2> QED
    BY <2>1, <2>2, FieldFits
<1>9. ASSUME NEW p \in 4..4 PROVE StepFits(m, p)
  <2>1. /\ Taken(m, p) = p + 1 /\ Taken(m, p + 1) = p + 2
        /\ R[p + 1] = Field(Types(m)[p + 2])
    BY <1>1, <1>2, <1>3
  <2>2. Covered(m, p)
    <3>1. Guarded(m) \subseteq 1..(p + 1)
      BY <1>5
    <3> QED
      BY <2>1, <3>1 DEF Covered
  <2> QED
    BY <2>1, <2>2, FieldFits
<1>10. \A p \in 0..4 : StepFits(m, p)
  BY <1>6, <1>7, <1>8, <1>9
<1>11. \A p \in 0..5 : Taken(m, p) \in 2..(Len(m.fields) + 2)
  BY <1>2, <1>3
<1> QED
  BY <1>1, <1>2, <1>3, <1>10, <1>11 DEF ReaderFits

\* Every reader fits the messages it reads.
LEMMA AllFit ==
    ASSUME NEW m \in Bodies
    PROVE  ReaderFits(m)
<1>1. m.id \in Ids
  BY BodiesAssumption
<1> QED
  BY <1>1, UpdateJobFits, ByIdFits, RunningFits, WhatFits, JobSaveFits, IdListFits, StatusSaveFits, BundleFits DEF Ids

-----------------------------------------------------------------------------
(* The steps of a reader                                                   *)

\* What remains of a reader
LEMMA RestOf ==
    ASSUME NEW R \in Seq(Steps), NEW p \in 0..Len(R), NEW s, s = SubSeq(R, p + 1, Len(R))
    PROVE  /\ s \in Seq(Steps) /\ Len(s) = Len(R) - p
           /\ \A i \in 1..Len(s) : s[i] = R[p + i]
           /\ s = <<>> => p = Len(R)
           /\ s # <<>> => /\ p + 1 \in 1..Len(R) /\ Head(s) = R[p + 1]
                          /\ Tail(s) = SubSeq(R, (p + 1) + 1, Len(R))
<1>1. s \in Seq(Steps) /\ Len(s) = Len(R) - p /\ \A i \in 1..Len(s) : s[i] = R[p + i]
  OBVIOUS
<1>2. s = <<>> => p = Len(R)
  <2>1. s = <<>> => Len(s) = 0
    OBVIOUS
  <2>2. Len(R) \in Nat
    OBVIOUS
  <2>3. \A a, b \in Nat : a - b = 0 => b = a
    OBVIOUS
  <2> QED
    BY <1>1, <2>1, <2>2, <2>3
<1>3. ASSUME s # <<>>
      PROVE  p + 1 \in 1..Len(R) /\ Head(s) = R[p + 1] /\ Tail(s) = SubSeq(R, (p + 1) + 1, Len(R))
  <2>1. Len(s) > 0
    BY <1>1, <1>3
  <2>2. p + 1 \in 1..Len(R) /\ Head(s) = R[p + 1]
    BY <1>1, <1>3, <2>1
  <2> DEFINE t == SubSeq(R, (p + 1) + 1, Len(R))
  <2>3. t \in Seq(Steps) /\ Len(t) = Len(R) - (p + 1) /\ \A i \in 1..Len(t) : t[i] = R[(p + 1) + i]
    BY <2>2
  <2>4. Tail(s) \in Seq(Steps) /\ Len(Tail(s)) = Len(s) - 1 /\ \A i \in 1..Len(Tail(s)) : Tail(s)[i] = s[i + 1]
    BY <1>1, <1>3
  <2> HIDE DEF t
  <2>5. Len(Tail(s)) = Len(t)
    BY <1>1, <2>3, <2>4
  <2>6. ASSUME NEW i \in 1..Len(t) PROVE Tail(s)[i] = t[i]
    <3>1. i + 1 \in 1..Len(s) /\ p + (i + 1) = (p + 1) + i
      BY <1>1, <2>3
    <3> QED
      BY <1>1, <2>3, <2>4, <2>5, <3>1
  <2>7. Tail(s) = t
    BY <2>3, <2>4, <2>5, <2>6, SeqEqual
  <2> QED
    BY <2>2, <2>7 DEF t
<1> QED
  BY <1>1, <1>2, <1>3

\* The step taken, and the steps left
LEMMA TailSteps ==
    ASSUME NEW s \in Seq(Steps), s # <<>>
    PROVE  /\ Len(s) \in Nat /\ Len(s) >= 1 /\ Head(s) = s[1] /\ Head(s) \in Steps
           /\ Tail(s) \in Seq(Steps) /\ Len(Tail(s)) = Len(s) - 1
           /\ \A i \in 1..Len(Tail(s)) : Tail(s)[i] = s[i + 1]
OBVIOUS

\* A value added to what has been read
LEMMA AppendRead ==
    ASSUME NEW s \in Seq(Datum), NEW v \in Datum
    PROVE  /\ Append(s, v) \in Seq(Datum) /\ Len(Append(s, v)) = Len(s) + 1 /\ Len(s) \in Nat
           /\ \A i \in 1..Len(s) : Append(s, v)[i] = s[i]
           /\ Append(s, v)[Len(s) + 1] = v
OBVIOUS

\* from_le_bytes gives a number.
LEMMA FromLeNat ==
    ASSUME NEW bs \in Seq(Nat)
    PROVE  FromLeBytes(bs) \in Nat
<1> DEFINE byte(i) == IF i <= Len(bs) THEN bs[i] ELSE 0
<1>1. byte(1) \in Nat /\ byte(2) \in Nat /\ byte(3) \in Nat
  OBVIOUS
<1>2. FromLeBytes(bs) = IF \E i \in 4..Len(bs) : bs[i] # 0 THEN Large
                        ELSE byte(1) + 256 * byte(2) + 256 * 256 * byte(3)
  BY DEF FromLeBytes
<1> HIDE DEF byte
<1>3. Large \in Nat /\ byte(1) + 256 * byte(2) + 256 * 256 * byte(3) \in Nat
  BY <1>1 DEF Large
<1> QED
  BY <1>2, <1>3

\* pop_le gives a number and goes no further than the end.
LEMMA PopLeIs ==
    ASSUME data \in Seq(Nat), index \in Nat, index <= Len(data), NEW w \in {1, 4, 8}
    PROVE  /\ PopLe(w).value \in Nat /\ PopLe(w).index \in Nat
           /\ index <= PopLe(w).index /\ PopLe(w).index <= Len(data)
           /\ Remaining < w => PopLe(w).value = 0 /\ PopLe(w).index = index
           /\ Remaining \in Nat
<1>1. Remaining \in Nat /\ w \in Nat
  BY DEF Remaining
<1>2. CASE Remaining < w
  BY <1>1, <1>2 DEF PopLe
<1>3. CASE ~(Remaining < w)
  <2>1. index + w <= Len(data) /\ Len(data) \in Nat /\ index + w \in Nat
    BY <1>1, <1>3 DEF Remaining
  <2>2. SubSeq(data, index + 1, index + w) \in Seq(Nat)
    BY <1>1, <2>1
  <2>3. FromLeBytes(SubSeq(data, index + 1, index + w)) \in Nat
    BY <2>2, FromLeNat
  <2> QED
    BY <1>1, <1>3, <2>1, <2>3 DEF PopLe
<1> QED
  BY <1>2, <1>3

\* So does pop_string.
LEMMA PopStringIs ==
    ASSUME data \in Seq(Nat), index \in Nat, index <= Len(data)
    PROVE  /\ PopString.value \in Seq(Nat) /\ PopString.index \in Nat
           /\ index <= PopString.index /\ PopString.index <= Len(data)
           /\ Remaining < 8 => /\ ~Overruns /\ PopString.value = <<>> /\ PopString.index = index
<1>1. /\ Prefix.value \in Nat /\ Prefix.index \in Nat
      /\ index <= Prefix.index /\ Prefix.index <= Len(data)
      /\ Remaining < 8 => Prefix.value = 0 /\ Prefix.index = index
  BY PopLeIs DEF Prefix
<1>2. <<>> \in Seq(Nat)
  OBVIOUS
<1>3. CASE Overruns
  <2>1. ~(Remaining < 8)
    BY <1>1, <1>3 DEF Overruns
  <2> QED
    BY <1>1, <1>2, <1>3, <2>1 DEF PopString
<1>4. CASE ~Overruns
  <2>1. Prefix.index + Prefix.value <= Len(data) /\ Prefix.index + Prefix.value \in Nat
    BY <1>1, <1>4 DEF Overruns
  <2>2. Payload \in Seq(Nat) /\ (Prefix.value = 0 => Payload = <<>>)
    <3>1. \A a, v \in Nat : a + v <= Len(data) =>
             SubSeq(data, a + 1, a + v) \in Seq(Nat) /\ Len(SubSeq(data, a + 1, a + v)) = v
      OBVIOUS
    <3>2. Payload \in Seq(Nat) /\ Len(Payload) = Prefix.value
      BY <1>1, <2>1, <3>1 DEF Payload
    <3> QED
      BY <3>2, EmptySeq
  <2>3. FromUtf8(Payload) \in Seq(Nat) /\ (Prefix.value = 0 => FromUtf8(Payload) = <<>>)
    BY <1>2, <2>2 DEF FromUtf8
  <2>4. PopString = [value |-> FromUtf8(Payload), index |-> Prefix.index + Prefix.value]
    BY <1>4 DEF PopString
  <2> QED
    BY <1>1, <1>4, <2>1, <2>3, <2>4
<1> QED
  BY <1>3, <1>4

-----------------------------------------------------------------------------
(* Each action keeps the invariant                                         *)

\* What InStep says of the message, the cursor and the next step
LEMMA InStepFacts ==
    ASSUME Came, NEW p \in Nat, InStep(p)
    PROVE  LET R == Reader(sent.id)
               k == Taken(sent, p)
           IN
           /\ sent \in Bodies /\ Len(sent.fields) \in Nat /\ R \in Seq(Steps)
           /\ k \in 2..(Len(sent.fields) + 2) /\ Off(sent, k) \in Nat
           /\ pc = <<>> => p = Len(R)
           /\ pc # <<>> => /\ p + 1 \in 1..Len(R) /\ Head(pc) = R[p + 1]
                           /\ Tail(pc) = SubSeq(R, (p + 1) + 1, Len(R))
                           /\ StepFits(sent, p)
<1> DEFINE R == Reader(sent.id)
           k == Taken(sent, p)
<1>1. sent \in Bodies
  BY DEF Came
<1>2. ReaderFits(sent) /\ Len(sent.fields) \in Nat
  BY <1>1, AllFit, BodyFields
<1>3. R \in Seq(Steps) /\ p \in 0..Len(R) /\ pc = SubSeq(R, p + 1, Len(R))
  BY <1>2 DEF ReaderFits, InStep
<1>4. k \in 2..(Len(sent.fields) + 2)
  BY <1>2, <1>3 DEF ReaderFits
<1>5. Off(sent, k) \in Nat
  <2>1. k \in 0..(Len(sent.fields) + 2)
    BY <1>2, <1>4
  <2> QED
    BY <1>1, <2>1, EncodeParts
<1>6. /\ pc = <<>> => p = Len(R)
      /\ pc # <<>> => /\ p + 1 \in 1..Len(R) /\ Head(pc) = R[p + 1]
                      /\ Tail(pc) = SubSeq(R, (p + 1) + 1, Len(R))
  BY <1>3, RestOf
<1>7. ASSUME pc # <<>> PROVE StepFits(sent, p)
  <2>1. p \in 0..(Len(R) - 1)
    BY <1>3, <1>6, <1>7
  <2> QED
    BY <1>2, <2>1 DEF ReaderFits
<1> QED
  BY <1>1, <1>2, <1>3, <1>4, <1>5, <1>6, <1>7

\* The next step of the reader, when the cursor is in step
LEMMA NextInStep ==
    ASSUME Came, NEW p \in Nat, InStep(p), pc # <<>>,
           sent' = sent, data' = data, pc' = Tail(pc),
           Len(read') = Taken(sent, p + 1), index' = Off(sent, Taken(sent, p + 1)),
           \A i \in 1..Len(read') : read'[i] = Values(sent)[i],
           Head(pc).do = "need" => Off(sent, Taken(sent, p + 1)) + Head(pc).n <= Len(data)
    PROVE  InStep(p + 1)'
<1> DEFINE R == Reader(sent.id)
<1>1. /\ p + 1 \in 1..Len(R) /\ Head(pc) = R[p + 1] /\ Len(R) \in Nat
      /\ Tail(pc) = SubSeq(R, (p + 1) + 1, Len(R))
  <2>1. R \in Seq(Steps)
    BY InStepFacts
  <2>2. Len(R) \in Nat
    BY <2>1
  <2>3. /\ p + 1 \in 1..Len(R) /\ Head(pc) = R[p + 1]
        /\ Tail(pc) = SubSeq(R, (p + 1) + 1, Len(R))
    BY InStepFacts, Zenon
  <2> QED
    BY <2>2, <2>3
<1>2. \A q \in 1..p : R[q].do = "need" => Off(sent, Taken(sent, q)) + R[q].n <= Len(data)
  BY DEF InStep
<1>3. \A q \in 1..(p + 1) : R[q].do = "need" => Off(sent, Taken(sent, q)) + R[q].n <= Len(data)
  <2>1. \A q \in 1..(p + 1) : q \in 1..p \/ q = p + 1
    OBVIOUS
  <2> QED
    BY <1>1, <1>2, <2>1, Zenon
<1>4. p + 1 \in 0..Len(R)
  BY <1>1
<1> QED
  BY <1>1, <1>3, <1>4, Zenon DEF InStep

\* A message that is doomed stays so until the test drops it.
LEMMA StillDoomed ==
    ASSUME Doomed, pc \in Seq(Steps), pc # <<>>, data \in Seq(Nat), index \in Nat,
           data' = data, pc' = Tail(pc), index' \in Nat, index <= index',
           Head(pc).do = "need" => Remaining >= Head(pc).n
    PROVE  Doomed'
<1>1. PICK q \in 1..Len(pc) : /\ pc[q].do = "need" /\ Remaining < pc[q].n
                              /\ \A i \in 1..q : pc[i] # RowIds
  BY DEF Doomed
<1>2. /\ Len(pc) \in Nat /\ Head(pc) = pc[1] /\ Len(Tail(pc)) = Len(pc) - 1
      /\ \A i \in 1..Len(Tail(pc)) : Tail(pc)[i] = pc[i + 1]
  BY TailSteps
<1>3. pc[q].n \in Nat /\ Remaining \in Int /\ Remaining' \in Int /\ Remaining' <= Remaining
  <2>1. pc[q] \in Steps
    OBVIOUS
  <2>2. pc[q].n \in Nat
    BY <1>1, <2>1 DEF Steps, Need, Field, RowIds, IsStatus
  <2> QED
    BY <2>2 DEF Remaining
<1>4. q # 1
  BY <1>1, <1>2, <1>3
<1>5. q - 1 \in 1..Len(pc') /\ (q - 1) + 1 = q
  BY <1>2, <1>4
<1>6. pc'[q - 1] = pc[q]
  BY <1>2, <1>5
<1>7. Remaining' < pc[q].n
  BY <1>1, <1>3
<1>8. ASSUME NEW i \in 1..(q - 1) PROVE pc'[i] # RowIds
  <2>1. i \in 1..Len(pc') /\ i + 1 \in 1..q
    BY <1>2, <1>5
  <2> QED
    BY <1>1, <1>2, <2>1
<1> QED
  BY <1>1, <1>5, <1>6, <1>7, <1>8 DEF Doomed

\* What has been settled stays so.
LEMMA StillSettled ==
    ASSUME sent \in Bodies, Settled, pc \in Seq(Steps), pc # <<>>, read \in Seq(Datum),
           sent' = sent, pc' = Tail(pc),
           read' = read \/ \E v \in Datum : read' = Append(read, v)
    PROVE  Settled'
<1>1. /\ Len(pc) \in Nat /\ Len(Tail(pc)) = Len(pc) - 1
      /\ \A i \in 1..Len(Tail(pc)) : Tail(pc)[i] = pc[i + 1]
  BY TailSteps
<1>2. Len(read) \in Nat /\ Len(read') \in Nat /\ Len(read) <= Len(read')
      /\ \A i \in 1..Len(read) : read'[i] = read[i]
  BY AppendRead
<1>3. ASSUME NEW i \in 1..Len(pc') PROVE pc'[i] # RowIds
  <2>1. i + 1 \in 1..Len(pc)
    BY <1>1
  <2> QED
    BY <1>1, <2>1 DEF Settled
<1>4. ASSUME NEW i \in Guarded(sent) PROVE i <= Len(read') /\ read'[i] = Values(sent)[i]
  <2>1. i <= Len(read) /\ read[i] = Values(sent)[i]
    BY DEF Settled
  <2>2. i \in Nat /\ i >= 1
    <3>1. i \in 1..(Len(sent.fields) + 2)
      BY GuardedOf
    <3> QED
      BY <3>1, BodyFields
  <2>3. i \in 1..Len(read) /\ i <= Len(read')
    BY <1>2, <2>1, <2>2
  <2> QED
    BY <1>2, <2>1, <2>3
<1> QED
  BY <1>3, <1>4 DEF Settled

\* A step that does not end the reading keeps the invariant if it keeps the
\* reader underway.
LEMMA StillReading ==
    ASSUME WireInv, sent' = sent, data' = data, verdict' = "reading",
           index' \in Nat, index' <= Len(data), read' \in Seq(Datum), Underway'
    PROVE  WireInv'
BY DEF WireInv, Came, ReadAsSent

\* A step that drops a message that was cut keeps the invariant.
LEMMA ThenDropped ==
    ASSUME WireInv, sent' = sent, data' = data, verdict' = "dropped", Cut,
           index' \in Nat, index' <= Len(data), read' \in Seq(Datum)
    PROVE  WireInv'
<1>1. Cut' /\ data' # Encode(sent') /\ Came' /\ verdict' # "accepted" /\ verdict' # "reading"
  BY DEF WireInv, Came, Cut
<1>2. ReadAsSent'
  BY <1>1 DEF ReadAsSent
<1> QED
  BY <1>1, <1>2 DEF WireInv

\* A reader that has passed the header is underway.
LEMMA PastHeader ==
    ASSUME WireInv, verdict = "reading", pc # <<>>, Head(pc) # Header
    PROVE  Underway
BY DEF WireInv, AtHeader

\* Only a list of rows has a step that reads row ids.
LEMMA NoRowIds ==
    ASSUME NEW m \in Bodies, m.id # DB_JOBSTATUS_DELETE_BY_ID_LIST,
           NEW i \in 1..Len(Reader(m.id))
    PROVE  Reader(m.id)[i] # RowIds
<1>1. ReaderFits(m) /\ Len(Reader(m.id)) \in Nat
  BY AllFit DEF ReaderFits
<1>2. i - 1 \in 0..(Len(Reader(m.id)) - 1) /\ (i - 1) + 1 = i
  BY <1>1
<1>3. Reader(m.id)[i].do # "ids"
  BY <1>1, <1>2 DEF ReaderFits, StepFits
<1> QED
  BY <1>3 DEF RowIds

\* The numbers of a test
LEMMA NeedAt ==
    ASSUME NEW m \in Bodies, NEW q \in 1..Len(Reader(m.id)), Reader(m.id)[q].do = "need"
    PROVE  Reader(m.id)[q].n \in Nat /\ Off(m, Taken(m, q)) \in Nat
<1>1. ReaderFits(m) /\ Reader(m.id) \in Seq(Steps) /\ Len(m.fields) \in Nat
  BY AllFit, BodyFields DEF ReaderFits
<1>2. Reader(m.id)[q] \in Steps /\ q \in 0..Len(Reader(m.id))
  BY <1>1
<1>3. Reader(m.id)[q].n \in Nat
  <2>1. \A s \in Steps : s.do = "need" => s.n \in Nat
    BY DEF Steps, Need, Field, RowIds, IsStatus
  <2> QED
    BY <1>2, <2>1, Zenon
<1>4. Taken(m, q) \in 0..(Len(m.fields) + 2)
  BY <1>1, <1>2 DEF ReaderFits
<1> QED
  BY <1>3, <1>4, EncodeParts

\* The value a field gives: the one that was sent, or the cursor stays where
\* it is because not even the least of such fields fits.
Reads(popped, k) ==
    \/ /\ popped.value = Values(sent)[k] /\ popped.index = Off(sent, k)
    \/ Remaining < Least(Types(sent)[k]) /\ popped.index = index

\* A field read while in step
LEMMA FieldInStep ==
    ASSUME WireInv, NEW p \in Nat, InStep(p), pc # <<>>, pc \in Seq(Steps),
           Head(pc).do = "field", sent' = sent, data' = data,
           NEW popped, popped.value \in Datum, Keep(popped),
           Taken(sent, p) + 1 \in 1..(Len(sent.fields) + 2) =>
              Reads(popped, Taken(sent, p) + 1)
    PROVE  (\E q \in Nat : InStep(q)') \/ (Cut' /\ (Doomed' \/ Settled'))
<1> DEFINE R == Reader(sent.id)
           k == Taken(sent, p)
           t == Types(sent)[k + 1]
<1>0. Came /\ read \in Seq(Datum) /\ data \in Seq(Nat) /\ index \in Nat /\ index <= Len(data)
  BY DEF WireInv, Came
<1>1. /\ sent \in Bodies /\ Len(sent.fields) \in Nat /\ k \in 2..(Len(sent.fields) + 2)
      /\ p + 1 \in 1..Len(R) /\ Head(pc) = R[p + 1] /\ R \in Seq(Steps)
      /\ Tail(pc) = SubSeq(R, (p + 1) + 1, Len(R)) /\ StepFits(sent, p)
      /\ Off(sent, k) \in Nat
  BY <1>0, InStepFacts, Zenon
<1>2. Taken(sent, p + 1) = k + 1 /\ t = R[p + 1].type /\ Covered(sent, p)
  BY <1>1 DEF StepFits
<1>3. k + 1 \in 1..(Len(sent.fields) + 2)
  <2>1. ReaderFits(sent) /\ p + 1 \in 0..Len(R)
    BY <1>1, AllFit
  <2>2. Taken(sent, p + 1) \in 2..(Len(sent.fields) + 2)
    BY <2>1 DEF ReaderFits
  <2> QED
    BY <1>1, <1>2, <2>2
<1>4. /\ index = Off(sent, k) /\ Len(read) = k
      /\ \A i \in 1..Len(read) : read[i] = Values(sent)[i]
      /\ \A q \in 1..p : R[q].do = "need" => Off(sent, Taken(sent, q)) + R[q].n <= Len(data)
  BY DEF InStep
<1>5. /\ read' = Append(read, popped.value) /\ index' = popped.index /\ pc' = Tail(pc)
      /\ Len(read') = k + 1 /\ \A i \in 1..k : read'[i] = Values(sent)[i]
      /\ read'[k + 1] = popped.value
  <2>1. read' = Append(read, popped.value) /\ index' = popped.index /\ pc' = Tail(pc)
    BY DEF Keep
  <2>2. /\ Len(read') = Len(read) + 1 /\ \A i \in 1..Len(read) : read'[i] = read[i]
        /\ read'[Len(read) + 1] = popped.value
    BY <1>0, <2>1, AppendRead
  <2> QED
    BY <1>4, <2>1, <2>2, Zenon
<1>8. pc' \in Seq(Steps) /\ Len(pc') = Len(R) - (p + 1) /\ \A i \in 1..Len(pc') : pc'[i] = R[(p + 1) + i]
  <2>1. p + 1 \in 0..Len(R) /\ pc' = SubSeq(R, (p + 1) + 1, Len(R))
    BY <1>1, <1>5
  <2> HIDE DEF R
  <2>2. PICK s : s = pc' /\ s = SubSeq(R, (p + 1) + 1, Len(R))
    BY <2>1
  <2>3. s \in Seq(Steps) /\ Len(s) = Len(R) - (p + 1) /\ \A i \in 1..Len(s) : s[i] = R[(p + 1) + i]
    BY <1>1, <2>1, <2>2, RestOf
  <2> QED
    BY <2>2, <2>3, Zenon
<1>6. CASE popped.value = Values(sent)[k + 1] /\ popped.index = Off(sent, k + 1)
  <2>1. ASSUME NEW i \in 1..Len(read') PROVE read'[i] = Values(sent)[i]
    <3>1. i \in 1..k \/ i = k + 1
      BY <1>1, <1>5
    <3> QED
      BY <1>5, <1>6, <3>1, Zenon
  <2>2. Head(pc).do # "need"
    OBVIOUS
  <2>3. Len(read') = Taken(sent, p + 1) /\ index' = Off(sent, Taken(sent, p + 1))
    BY <1>2, <1>5, <1>6
  <2>4. InStep(p + 1)'
    BY <1>0, <1>5, <2>1, <2>2, <2>3, NextInStep
  <2> QED
    BY <2>4
<1>7. CASE Remaining < Least(t) /\ popped.index = index
  <2>1. Least(t) \in Nat /\ Off(sent, k) + Least(t) <= Len(Encode(sent)) /\ Len(Encode(sent)) \in Nat
    <3>1. FieldEnds(sent, k + 1) /\ t \in FieldTypes /\ (k + 1) - 1 = k
      <4>1. FieldEnds(sent, k + 1)
        BY <1>1, <1>3, SizeAt, Zenon
      <4>2. t \in FieldTypes
        BY <1>1, <1>3, BodyFields, Zenon
      <4> QED
        BY <1>1, <4>1, <4>2
    <3> QED
      BY <3>1 DEF FieldEnds, Least, Width, FieldTypes
  <2>2. Len(data) < Off(sent, k) + Least(t) /\ Len(data) \in Nat
    <3>1. Len(data) - Off(sent, k) < Least(t) /\ Len(data) \in Nat
      BY <1>0, <1>4, <1>7 DEF Remaining
    <3> QED
      BY <1>1, <2>1, <3>1
  <2>3. Cut /\ Cut'
    BY <1>1, <2>1, <2>2 DEF Cut
  <2>4. CASE Guarded(sent) \subseteq 1..k
    <3>1. ASSUME NEW i \in Guarded(sent) PROVE i <= Len(read') /\ read'[i] = Values(sent)[i]
      <4>1. i \in 1..k /\ Len(read') = k + 1 /\ k \in Nat
        BY <1>1, <1>5, <2>4
      <4>2. i <= Len(read')
        BY <4>1
      <4> QED
        BY <1>5, <4>1, <4>2, Zenon
    <3>2. ASSUME NEW i \in 1..Len(pc') PROVE pc'[i] # RowIds
      <4>1. sent.id # DB_JOBSTATUS_DELETE_BY_ID_LIST
        <5>1. k + 1 \in 1..(Len(sent.fields) + 2) /\ k + 1 \notin 1..k
          BY <1>1, <1>3
        <5> QED
          BY <1>1, <2>4, <5>1, GuardedOf
      <4>2. (p + 1) + i \in 1..Len(R) /\ pc'[i] = R[(p + 1) + i]
        <5>1. Len(pc') = Len(R) - (p + 1) /\ Len(R) \in Nat
          BY <1>1, <1>8
        <5>2. (p + 1) + i \in 1..Len(R)
          BY <5>1
        <5> QED
          BY <1>8, <5>2, Zenon
      <4> QED
        BY <1>1, <4>1, <4>2, NoRowIds
    <3> QED
      BY <2>3, <3>1, <3>2 DEF Settled
  <2>5. CASE \E q \in 1..p : /\ R[q].do = "need"
                             /\ Off(sent, k) + Least(t) <= Off(sent, Taken(sent, q)) + R[q].n
    <3>1. PICK q \in 1..p : /\ R[q].do = "need"
                            /\ Off(sent, k) + Least(t) <= Off(sent, Taken(sent, q)) + R[q].n
      BY <2>5
    <3>2. Off(sent, Taken(sent, q)) + R[q].n <= Len(data)
      BY <1>4, <3>1
    <3>3. R[q].n \in Nat /\ Off(sent, Taken(sent, q)) \in Nat
      <4>1. q \in 1..Len(R)
        BY <1>1
      <4> QED
        BY <1>1, <3>1, <4>1, NeedAt
    <3>4. \A a, b, c \in Nat : a <= b /\ b <= c => ~(c < a)
      OBVIOUS
    <3>5. Off(sent, k) + Least(t) \in Nat /\ Off(sent, Taken(sent, q)) + R[q].n \in Nat
      BY <1>1, <2>1, <3>3, PlusNat, Zenon
    <3> QED
      BY <2>2, <3>1, <3>2, <3>4, <3>5, Zenon
  <2>6. CASE \E q \in (p + 2)..Len(R) : /\ R[q].do = "need" /\ Least(t) <= R[q].n
                                        /\ \A i \in 1..q : R[i] # RowIds
    <3>1. PICK q \in (p + 2)..Len(R) : /\ R[q].do = "need" /\ Least(t) <= R[q].n
                                       /\ \A i \in 1..q : R[i] # RowIds
      BY <2>6
    <3> DEFINE j == q - (p + 1)
    <3>2. q \in 1..Len(R) /\ j \in 1..Len(pc') /\ (p + 1) + j = q /\ R[q].n \in Nat
      <4>1. q \in 1..Len(R)
        BY <1>1
      <4> QED
        BY <1>1, <1>8, <3>1, <4>1, NeedAt
    <3>3. pc'[j] = R[q]
      BY <1>8, <3>2
    <3>4. Remaining' < R[q].n
      <4>1. Remaining' = Remaining /\ Remaining \in Int
        BY <1>0, <1>5, <1>7 DEF Remaining
      <4> QED
        BY <1>7, <2>1, <3>1, <3>2, <4>1
    <3>5. ASSUME NEW i \in 1..j PROVE pc'[i] # RowIds
      <4>1. i \in 1..Len(pc') /\ (p + 1) + i \in 1..q
        BY <1>1, <1>8, <3>2
      <4> QED
        BY <1>8, <3>1, <4>1
    <3>6. Doomed'
      BY <3>1, <3>2, <3>3, <3>4, <3>5 DEF Doomed
    <3> QED
      BY <2>3, <3>6
  <2> QED
    BY <1>2, <2>4, <2>5, <2>6 DEF Covered
<1> QED
  BY <1>3, <1>6, <1>7 DEF Reads

\* A field read, in step or not
LEMMA KeepUnderway ==
    ASSUME WireInv, Underway, pc # <<>>, Head(pc).do = "field",
           sent' = sent, data' = data,
           NEW popped, popped.value \in Datum, popped.index \in Nat, index <= popped.index,
           Keep(popped),
           \A p \in Nat : InStep(p) /\ Taken(sent, p) + 1 \in 1..(Len(sent.fields) + 2) =>
                             Reads(popped, Taken(sent, p) + 1)
    PROVE  Underway'
<1>1. /\ pc \in Seq(Steps) /\ pc' = Tail(pc) /\ index' = popped.index
      /\ read' = Append(read, popped.value)
  BY DEF Underway, Keep
<1>2. pc' \in Seq(Steps)
  <2>1. Tail(pc) \in Seq(Steps)
    BY <1>1, TailSteps
  <2> QED
    BY <1>1, <2>1
<1>3. CASE \E p \in Nat : InStep(p)
  <2>1. PICK p \in Nat : InStep(p)
    BY <1>3
  <2>2. Taken(sent, p) + 1 \in 1..(Len(sent.fields) + 2) => Reads(popped, Taken(sent, p) + 1)
    BY <2>1
  <2>3. (\E q \in Nat : InStep(q)') \/ (Cut' /\ (Doomed' \/ Settled'))
    BY <1>1, <2>1, <2>2, FieldInStep
  <2> QED
    BY <1>2, <2>3, Zenon DEF Underway
<1>4. CASE Cut /\ (Doomed \/ Settled \/ Listed)
  <2>1. Cut'
    BY <1>4 DEF Cut
  <2>2. /\ sent \in Bodies /\ data \in Seq(Nat) /\ index \in Nat /\ read \in Seq(Datum)
        /\ index' \in Nat /\ index <= index' /\ Head(pc).do # "need"
    BY <1>1 DEF WireInv, Came
  <2>3. CASE Doomed
    <3>1. Doomed'
      BY <1>1, <2>2, <2>3, StillDoomed
    <3> QED
      BY <1>2, <2>1, <3>1, Zenon DEF Underway
  <2>4. CASE Settled
    <3>1. Settled'
      BY <1>1, <2>2, <2>4, StillSettled
    <3> QED
      BY <1>2, <2>1, <3>1, Zenon DEF Underway
  <2>5. ~Listed
    BY DEF Listed
  <2> QED
    BY <1>4, <2>3, <2>4, <2>5
<1> QED
  BY <1>3, <1>4 DEF Underway

\* The field that a step reads while in step
LEMMA FieldAt ==
    ASSUME Came, NEW p \in Nat, InStep(p), pc # <<>>, Head(pc).do = "field",
           NEW k, k = Taken(sent, p) + 1, k \in 1..(Len(sent.fields) + 2)
    PROVE  /\ sent \in Bodies /\ Types(sent)[k] = Head(pc).type /\ index = Off(sent, k - 1)
           /\ Types(sent)[k] \in FieldTypes /\ HasType(Values(sent)[k], Types(sent)[k])
           /\ FieldEnds(sent, k)
<1>1. /\ sent \in Bodies /\ Len(sent.fields) \in Nat
      /\ Taken(sent, p) \in 2..(Len(sent.fields) + 2)
      /\ Head(pc) = Reader(sent.id)[p + 1] /\ StepFits(sent, p)
  BY InStepFacts, Zenon
<1>2. Types(sent)[k] = Head(pc).type
  BY <1>1 DEF StepFits
<1>3. k - 1 = Taken(sent, p)
  BY <1>1
<1>4. index = Off(sent, k - 1)
  BY <1>3 DEF InStep
<1>5. /\ Types(sent)[k] \in FieldTypes /\ HasType(Values(sent)[k], Types(sent)[k])
      /\ FieldEnds(sent, k)
  BY <1>1, BodyFields, SizeAt, Zenon
<1> QED
  BY <1>1, <1>2, <1>4, <1>5, Zenon

\* pop_uint, pop_ulong and pop_bool
LEMMA ReadNumberKeeps ==
    ASSUME WireInv, ReadNumber
    PROVE  WireInv'
<1> DEFINE t == Head(pc).type
           got == PopLe(Width[t])
           popped == IF t = "bool" THEN [got EXCEPT !.value = IF @ = 1 THEN 1 ELSE 0] ELSE got
<1>1. /\ verdict = "reading" /\ pc # <<>> /\ Head(pc).do = "field" /\ t # "string"
      /\ Keep(popped) /\ sent' = sent /\ data' = data /\ verdict' = "reading"
  BY DEF ReadNumber, Step
<1>2. Came /\ data \in Seq(Nat) /\ index \in Nat /\ index <= Len(data) /\ read \in Seq(Datum)
  BY DEF WireInv, Came
<1>3. Underway /\ pc \in Seq(Steps)
  <2>1. Head(pc) # Header
    BY <1>1 DEF Header
  <2>2. Underway
    BY <1>1, <2>1, PastHeader
  <2> QED
    BY <2>2 DEF Underway
<1>4. t \in FieldTypes /\ Width[t] \in {1, 4, 8}
  <2>1. Head(pc) \in Steps
    BY <1>1, <1>3, TailSteps
  <2>2. t \in FieldTypes
    BY <1>1, <2>1 DEF Steps, Need, Field, RowIds, IsStatus
  <2> QED
    BY <1>1, <2>2 DEF FieldTypes, Width
<1>5. /\ got.value \in Nat /\ got.index \in Nat /\ index <= got.index /\ got.index <= Len(data)
      /\ Remaining < Width[t] => got.index = index
  <2>1. \A w \in {1, 4, 8} : /\ PopLe(w).value \in Nat /\ PopLe(w).index \in Nat
                             /\ index <= PopLe(w).index /\ PopLe(w).index <= Len(data)
                             /\ Remaining < w => PopLe(w).index = index
    BY <1>2, PopLeIs
  <2> QED
    BY <1>4, <2>1, Zenon
<1>6. /\ popped.index = got.index /\ popped.value \in Nat
      /\ popped.value = IF t = "bool" THEN (IF got.value = 1 THEN 1 ELSE 0) ELSE got.value
  <2>1. \E v, i : got = [value |-> v, index |-> i]
    BY Zenon DEF PopLe
  <2> HIDE DEF got
  <2>2. PICK v, i : got = [value |-> v, index |-> i]
    BY <2>1
  <2>3. got.value = v /\ got.index = i
    BY <2>2
  <2> QED
    BY <1>5, <2>2, <2>3
<1> HIDE DEF popped
<1>7. ASSUME NEW p \in Nat, InStep(p), Taken(sent, p) + 1 \in 1..(Len(sent.fields) + 2)
      PROVE  Reads(popped, Taken(sent, p) + 1)
  <2>1. PICK k \in 1..(Len(sent.fields) + 2) : k = Taken(sent, p) + 1
    BY <1>7
  <2>2. /\ sent \in Bodies /\ Types(sent)[k] = t /\ index = Off(sent, k - 1)
        /\ HasType(Values(sent)[k], t) /\ FieldEnds(sent, k)
    BY <1>1, <1>2, <1>7, <2>1, FieldAt
  <2>3. Width[t] \in Nat /\ Off(sent, k) = index + Width[t] /\ Least(t) = Width[t]
    BY <1>1, <1>4, <2>2 DEF FieldEnds, FieldTypes, Width, Least
  <2>4. CASE Off(sent, k) <= Len(data)
    <3>1. got.value = Values(sent)[k] /\ got.index = Off(sent, k)
      <4>1. Types(sent)[k] # "string"
        BY <1>1, <2>2
      <4>2. /\ PopLe(Width[Types(sent)[k]]).value = Values(sent)[k]
            /\ PopLe(Width[Types(sent)[k]]).index = Off(sent, k)
        BY <1>2, <2>2, <2>4, <4>1, NumberCame
      <4> QED
        BY <2>2, <4>2
    <3>2. t = "bool" => Values(sent)[k] \in {0, 1}
      BY <2>2 DEF HasType
    <3>3. popped.value = Values(sent)[k] /\ popped.index = Off(sent, k)
      BY <1>6, <3>1, <3>2
    <3> QED
      BY <2>1, <3>3 DEF Reads
  <2>5. CASE ~(Off(sent, k) <= Len(data))
    <3>1. Remaining < Width[t]
      BY <1>2, <2>3, <2>5 DEF Remaining
    <3>2. popped.index = index
      BY <1>5, <1>6, <3>1
    <3> QED
      BY <2>1, <2>2, <2>3, <3>1, <3>2 DEF Reads
  <2> QED
    BY <2>4, <2>5
<1>8. popped.value \in Datum /\ popped.index \in Nat /\ index <= popped.index /\ popped.index <= Len(data)
  BY <1>5, <1>6 DEF Datum
<1>9. Underway'
  BY <1>1, <1>3, <1>7, <1>8, KeepUnderway
<1>10. index' \in Nat /\ index' <= Len(data) /\ read' \in Seq(Datum)
  <2>1. index' = popped.index /\ read' = Append(read, popped.value)
    BY <1>1 DEF Keep
  <2> QED
    BY <1>2, <1>8, <2>1, AppendRead
<1> QED
  BY <1>1, <1>9, <1>10, StillReading

\* try_pop_string
LEMMA ReadStringKeeps ==
    ASSUME WireInv, ReadString
    PROVE  WireInv'
<1>1. /\ verdict = "reading" /\ pc # <<>> /\ Head(pc).do = "field" /\ Head(pc).type = "string"
      /\ sent' = sent /\ data' = data
      /\ Overruns => verdict' = "dropped" /\ read' = read /\ index' = index
      /\ ~Overruns => Keep(PopString) /\ verdict' = "reading"
  BY DEF ReadString, Step
<1>2. Came /\ data \in Seq(Nat) /\ index \in Nat /\ index <= Len(data) /\ read \in Seq(Datum)
  BY DEF WireInv, Came
<1>3. Underway
  <2>1. Head(pc) # Header
    BY <1>1 DEF Header
  <2> QED
    BY <1>1, <2>1, PastHeader
<1>4. /\ PopString.value \in Seq(Nat) /\ PopString.index \in Nat
      /\ index <= PopString.index /\ PopString.index <= Len(data)
      /\ Remaining < 8 => ~Overruns /\ PopString.index = index
  BY <1>2, PopStringIs
<1>5. ASSUME NEW p \in Nat, InStep(p), NEW k \in 1..(Len(sent.fields) + 2),
             k = Taken(sent, p) + 1
      PROVE  /\ Overruns => Cut
             /\ ~Overruns => Reads(PopString, k)
  <2>1. /\ sent \in Bodies /\ Types(sent)[k] = "string" /\ index = Off(sent, k - 1)
        /\ FieldEnds(sent, k)
    BY <1>1, <1>2, <1>5, FieldAt
  <2>2. CASE Remaining < 8
    <3>1. Least(Types(sent)[k]) = 8
      BY <2>1 DEF Least
    <3> QED
      BY <1>4, <2>2, <3>1 DEF Reads
  <2>3. CASE ~(Remaining < 8)
    <3>1. index + 8 <= Len(data)
      BY <1>2, <2>3 DEF Remaining
    <3>2. /\ Overruns <=> Len(data) < Off(sent, k)
          /\ ~Overruns => PopString = [value |-> Values(sent)[k], index |-> Off(sent, k)]
      BY <1>2, <2>1, <3>1, StringCame
    <3>3. Len(data) < Off(sent, k) => Cut
      <4>1. Off(sent, k) \in Nat /\ Len(Encode(sent)) \in Nat /\ Off(sent, k) <= Len(Encode(sent)) /\ Len(data) \in Nat
        BY <1>2, <2>1 DEF FieldEnds
      <4> QED
        BY <4>1 DEF Cut
    <3>4. ~Overruns => Reads(PopString, k)
      BY <3>2 DEF Reads
    <3> QED
      BY <3>2, <3>3, <3>4
  <2> QED
    BY <2>2, <2>3
<1>6. CASE Overruns
  <2>1. Cut
    <3>1. CASE \E p \in Nat : InStep(p)
      <4>1. PICK p \in Nat : InStep(p)
        BY <3>1
      <4>2. Taken(sent, p) + 1 \in 1..(Len(sent.fields) + 2)
        <5>1. /\ sent \in Bodies /\ Len(sent.fields) \in Nat
              /\ Taken(sent, p) \in 2..(Len(sent.fields) + 2)
              /\ Head(pc) = Reader(sent.id)[p + 1] /\ StepFits(sent, p)
              /\ p + 1 \in 1..Len(Reader(sent.id)) /\ Reader(sent.id) \in Seq(Steps)
          BY <1>1, <1>2, <4>1, InStepFacts, Zenon
        <5>2. Taken(sent, p + 1) = Taken(sent, p) + 1
          BY <1>1, <5>1 DEF StepFits
        <5>3. ReaderFits(sent) /\ p + 1 \in 0..Len(Reader(sent.id))
          BY <5>1, AllFit
        <5>4. Taken(sent, p + 1) \in 2..(Len(sent.fields) + 2)
          BY <5>3 DEF ReaderFits
        <5> QED
          BY <5>1, <5>2, <5>4
      <4> QED
        BY <1>5, <1>6, <4>1, <4>2
    <3> QED
      BY <1>3, <3>1 DEF Underway
  <2> QED
    BY <1>1, <1>2, <1>6, <2>1, ThenDropped
<1>7. CASE ~Overruns
  <2>1. \A p \in Nat : InStep(p) /\ Taken(sent, p) + 1 \in 1..(Len(sent.fields) + 2) =>
                          Reads(PopString, Taken(sent, p) + 1)
    BY <1>5, <1>7
  <2>2. PopString.value \in Datum
    BY <1>4 DEF Datum
  <2>3. Underway'
    BY <1>1, <1>3, <1>4, <1>7, <2>1, <2>2, KeepUnderway
  <2>4. index' \in Nat /\ index' <= Len(data) /\ read' \in Seq(Datum)
    <3>1. index' = PopString.index /\ read' = Append(read, PopString.value)
      BY <1>1, <1>7 DEF Keep
    <3> QED
      BY <1>2, <1>4, <2>2, <3>1, AppendRead
  <2> QED
    BY <1>1, <1>7, <2>3, <2>4, StillReading
<1> QED
  BY <1>6, <1>7

\* The tests of the handlers
LEMMA TestRemainingKeeps ==
    ASSUME WireInv, TestRemaining
    PROVE  WireInv'
<1> DEFINE holds == IF Head(pc).do = "need" THEN Remaining >= Head(pc).n
                                            ELSE read[Len(read) - 1] \in Statuses
<1>1. /\ verdict = "reading" /\ pc # <<>> /\ Head(pc).do \in {"need", "status"}
      /\ sent' = sent /\ data' = data /\ read' = read /\ index' = index /\ pc' = Tail(pc)
      /\ verdict' = IF holds THEN "reading" ELSE "dropped"
  BY DEF TestRemaining, Step
<1>2. Came /\ data \in Seq(Nat) /\ index \in Nat /\ index <= Len(data) /\ read \in Seq(Datum)
  BY DEF WireInv, Came
<1>3. Underway /\ pc \in Seq(Steps)
  <2>1. Head(pc) # Header
    BY <1>1 DEF Header
  <2>2. Underway
    BY <1>1, <2>1, PastHeader
  <2> QED
    BY <2>2 DEF Underway
<1>4. ASSUME NEW p \in Nat, InStep(p)
      PROVE  (holds => InStep(p + 1)') /\ (~holds => Cut)
  <2> DEFINE k == Taken(sent, p)
             s == Head(pc)
  <2>1. /\ sent \in Bodies /\ Len(sent.fields) \in Nat /\ k \in 2..(Len(sent.fields) + 2)
        /\ s = Reader(sent.id)[p + 1] /\ StepFits(sent, p) /\ Off(sent, k) \in Nat
    BY <1>1, <1>2, <1>4, InStepFacts, Zenon
  <2>2. /\ Taken(sent, p + 1) = k
        /\ s.do = "need" => Off(sent, k) + s.n <= Len(Encode(sent))
        /\ s.do = "status" => Values(sent)[k - 1] \in Statuses
    BY <1>1, <2>1 DEF StepFits
  <2>3. /\ index = Off(sent, k) /\ Len(read) = k
        /\ \A i \in 1..Len(read) : read[i] = Values(sent)[i]
    BY <1>4 DEF InStep
  <2>4. s.do = "need" => s.n \in Nat
    <3>1. s \in Steps
      BY <1>1, <1>3, TailSteps
    <3> QED
      BY <3>1 DEF Steps, Need, Field, RowIds, IsStatus
  <2>5. Len(data) \in Nat /\ Len(Encode(sent)) \in Nat
    BY <1>2, <2>1, EncodeParts
  <2> HIDE DEF k, s
  <2>6. s.do = "need" => (holds <=> Off(sent, k) + s.n <= Len(data))
    BY <2>1, <2>3, <2>4, <2>5 DEF Remaining, s
  <2>7. s.do = "status" => holds
    <3>1. k - 1 \in 1..Len(read)
      BY <2>1, <2>3
    <3>2. read[Len(read) - 1] = Values(sent)[k - 1]
      BY <2>3, <3>1
    <3> QED
      BY <2>2, <3>2 DEF s
  <2>8. ASSUME holds PROVE InStep(p + 1)'
    <3>1. /\ Len(read') = Taken(sent, p + 1) /\ index' = Off(sent, Taken(sent, p + 1))
          /\ \A i \in 1..Len(read') : read'[i] = Values(sent)[i]
      BY <1>1, <2>2, <2>3
    <3>2. Head(pc).do = "need" => Off(sent, Taken(sent, p + 1)) + Head(pc).n <= Len(data)
      BY <2>2, <2>6, <2>8 DEF s
    <3> QED
      BY <1>1, <1>2, <1>4, <3>1, <3>2, NextInStep
  <2>9. ASSUME ~holds PROVE Cut
    <3>1. s.do = "need" /\ ~(Off(sent, k) + s.n <= Len(data))
      BY <1>1, <2>6, <2>7, <2>9 DEF s
    <3>2. Len(data) < Len(Encode(sent))
      BY <2>1, <2>2, <2>4, <2>5, <3>1
    <3> QED
      BY <3>2 DEF Cut
  <2> QED
    BY <2>8, <2>9
<1> HIDE DEF holds
<1>5. pc' \in Seq(Steps)
  <2>1. Tail(pc) \in Seq(Steps)
    BY <1>1, <1>3, TailSteps
  <2> QED
    BY <1>1, <2>1
<1>6. index' \in Nat /\ index' <= Len(data) /\ read' \in Seq(Datum)
  BY <1>1, <1>2
<1>7. CASE holds
  <2>1. Underway'
    <3>1. CASE \E p \in Nat : InStep(p)
      <4>1. PICK p \in Nat : InStep(p)
        BY <3>1
      <4>2. InStep(p + 1)' /\ p + 1 \in Nat
        BY <1>4, <1>7, <4>1
      <4> QED
        BY <1>5, <4>2, Zenon DEF Underway
    <3>2. CASE Cut /\ Doomed
      <4>1. Cut'
        BY <1>1, <3>2 DEF Cut
      <4>2. Head(pc).do = "need" => Remaining >= Head(pc).n
        BY <1>7 DEF holds
      <4>3. index' \in Nat /\ index <= index'
        BY <1>1, <1>2
      <4>4. Doomed'
        BY <1>1, <1>2, <1>3, <3>2, <4>2, <4>3, StillDoomed
      <4> QED
        BY <1>5, <4>1, <4>4, Zenon DEF Underway
    <3>3. CASE Cut /\ Settled
      <4>1. Cut' /\ sent \in Bodies
        BY <1>1, <1>2, <3>3 DEF Cut, Came
      <4>2. Settled'
        BY <1>1, <1>2, <1>3, <3>3, <4>1, StillSettled
      <4> QED
        BY <1>5, <4>1, <4>2, Zenon DEF Underway
    <3>4. ~Listed
      BY <1>1 DEF Listed
    <3> QED
      BY <1>3, <3>1, <3>2, <3>3, <3>4 DEF Underway
  <2> QED
    BY <1>1, <1>6, <1>7, <2>1, StillReading
<1>8. CASE ~holds
  <2>1. Cut
    BY <1>3, <1>4, <1>8 DEF Underway
  <2> QED
    BY <1>1, <1>6, <1>8, <2>1, ThenDropped
<1> QED
  BY <1>7, <1>8

\* The values of a message are numbers and strings.
LEMMA ValuesSeq ==
    ASSUME NEW m \in Bodies
    PROVE  Values(m) \in Seq(Datum)
<1> DEFINE n == Len(m.fields)
<1>1. n \in Nat /\ \A k \in 1..(n + 2) : Types(m)[k] \in FieldTypes /\ HasType(Values(m)[k], Types(m)[k])
  BY BodyFields
<1>2. ASSUME NEW k \in 1..(n + 2) PROVE Values(m)[k] \in Datum
  <2>1. Types(m)[k] \in FieldTypes /\ HasType(Values(m)[k], Types(m)[k])
    BY <1>1
  <2>2. CASE Types(m)[k] = "string"
    <3>1. IsText(Values(m)[k])
      BY <2>1, <2>2 DEF HasType
    <3> QED
      BY <3>1, TextSeq DEF Datum
  <2>3. CASE Types(m)[k] # "string"
    <3>1. Values(m)[k] \in Nat
      BY <2>1, <2>3 DEF HasType, IsNumber
    <3> QED
      BY <3>1 DEF Datum
  <2> QED
    BY <2>2, <2>3
<1>3. ASSUME NEW i \in 1..n PROVE m.fields[i] \in Datum
  <2>1. i + 2 \in 1..(n + 2)
    BY <1>1
  <2>2. Values(m)[i + 2] = m.fields[i]
    BY BodyFields
  <2> QED
    BY <1>2, <2>1, <2>2
<1>4. m.fields \in Seq(Datum)
  <2>1. m.fields = [i \in 1..n |-> m.fields[i]]
    BY BodiesAssumption
  <2>2. m.fields \in [1..n -> Datum]
    BY <1>3, <2>1
  <2> QED
    BY <1>1, <2>2
<1>5. m.source \in Datum /\ m.id \in Datum
  <2>1. 1 \in 1..(n + 2) /\ 2 \in 1..(n + 2)
    BY <1>1
  <2>2. Values(m)[1] = m.source /\ Values(m)[2] = m.id
    BY BodyFields
  <2> QED
    BY <1>2, <2>1, <2>2
<1>6. <<m.source, m.id>> \in Seq(Datum)
  BY <1>5
<1> QED
  BY <1>4, <1>6 DEF Values

\* The handler goes on.
LEMMA AcceptKeeps ==
    ASSUME WireInv, Accept
    PROVE  WireInv'
<1>1. /\ verdict = "reading" /\ pc = <<>> /\ verdict' = "accepted"
      /\ sent' = sent /\ data' = data /\ read' = read /\ index' = index /\ pc' = pc
  BY DEF Accept
<1>2. /\ Came /\ data \in Seq(Nat) /\ index \in Nat /\ index <= Len(data) /\ read \in Seq(Datum)
      /\ sent \in Bodies /\ Len(data) <= Len(Encode(sent))
  BY DEF WireInv, Came
<1>3. Underway
  <2>1. <<Header>> # <<>>
    OBVIOUS
  <2> QED
    BY <1>1, <2>1 DEF WireInv, AtHeader
<1>4. Guarded(sent) \subseteq 1..(Len(sent.fields) + 2) /\ Len(sent.fields) \in Nat
  BY <1>2, GuardedOf, BodyFields
<1>5. CASE \E p \in Nat : InStep(p)
  <2>1. PICK p \in Nat : InStep(p)
    BY <1>5
  <2>2. p = Len(Reader(sent.id))
    BY <1>1, <1>2, <2>1, InStepFacts, Zenon
  <2>3. Taken(sent, p) = Len(sent.fields) + 2
    BY <1>2, <2>2, AllFit DEF ReaderFits
  <2>4. /\ index = Off(sent, Len(sent.fields) + 2) /\ Len(read) = Len(sent.fields) + 2
        /\ \A i \in 1..Len(read) : read[i] = Values(sent)[i]
    BY <2>1, <2>3 DEF InStep
  <2>5. index = Len(Encode(sent)) /\ Len(Encode(sent)) \in Nat
    BY <1>2, <2>4, EncodeParts
  <2>6. Remaining = 0
    BY <1>2, <2>5 DEF Remaining
  <2>7. read = Values(sent)
    <3>1. Values(sent) \in Seq(Datum) /\ Len(Values(sent)) = Len(read)
      BY <1>2, <2>4, ValuesSeq, BodyFields
    <3> QED
      BY <1>2, <2>4, <3>1, SeqEqual
  <2>8. ReadAsSent'
    <3>1. Remaining' = 0 /\ read' = Values(sent')
      BY <1>1, <2>6, <2>7 DEF Remaining
    <3> QED
      BY <1>1, <3>1 DEF ReadAsSent
  <2> QED
    BY <1>1, <1>2, <2>8 DEF WireInv, Came
<1>6. CASE Cut /\ (Doomed \/ Settled \/ Listed)
  <2>1. data # Encode(sent)
    BY <1>2, <1>6, EncodeParts DEF Cut
  <2>2. ~Doomed
    BY <1>1 DEF Doomed
  <2>3. ASSUME NEW i \in Guarded(sent)
        PROVE  \/ sent.id = DB_JOBSTATUS_DELETE_BY_ID_LIST /\ i > Len(read)
               \/ read[i] = Values(sent)[i]
    <3>1. CASE Settled
      BY <3>1 DEF Settled
    <3>2. CASE Listed
      <4>1. i \in Nat /\ i >= 1 /\ Len(read) \in Nat
        BY <1>2, <1>4
      <4>2. i \in 1..Len(read) \/ i > Len(read)
        BY <4>1
      <4> QED
        BY <3>2, <4>2 DEF Listed
    <3> QED
      BY <1>6, <2>2, <3>1, <3>2
  <2>4. ReadAsSent'
    BY <1>1, <2>1, <2>3 DEF ReadAsSent
  <2> QED
    BY <1>1, <1>2, <2>4 DEF WireInv, Came
<1> QED
  BY <1>3, <1>5, <1>6 DEF Underway

\* A message comes, whole or cut.
LEMMA WireInitHolds ==
    ASSUME WireInit
    PROVE  WireInv
<1>1. /\ sent \in Bodies /\ index = 0 /\ pc = <<Header>> /\ read = <<>> /\ verdict = "reading"
  BY DEF WireInit
<1>2. PICK n \in 0..Len(Encode(sent)) : data = SubSeq(Encode(sent), 1, n)
  BY DEF WireInit
<1>3. Encode(sent) \in Seq(Nat)
  BY <1>1, EncodeParts
<1>4. /\ data \in Seq(Nat) /\ Len(data) = n /\ n <= Len(Encode(sent))
      /\ \A i \in 1..Len(data) : data[i] = Encode(sent)[i]
  BY <1>2, <1>3
<1>5. read \in Seq(Datum) /\ index \in Nat /\ index <= Len(data)
  BY <1>1, <1>4
<1>6. ReadAsSent
  BY <1>1 DEF ReadAsSent
<1> QED
  BY <1>1, <1>4, <1>5, <1>6 DEF WireInv, Came, AtHeader

\* Whatever id is read, the reader tests for four bytes before it lists rows.
Tests(r) ==
    /\ r \in Seq(Steps)
    /\ \E q \in 1..Len(r) : /\ r[q].do = "need" /\ r[q].n \in Nat /\ r[q].n >= 4
                            /\ \A i \in 1..q : r[i] # RowIds

\* Every reader does.
LEMMA ReaderTests ==
    ASSUME NEW id \in Ids
    PROVE  Tests(Reader(id))
<1>1. Tests(ReadUpdateJob)
  <2>1. 3 \in 1..Len(ReadUpdateJob) /\ \A i \in 1..3 : ReadUpdateJob[i] # RowIds
    BY UpdateJobStepList DEF Need, Field, RowIds
  <2> QED
    BY <2>1, UpdateJobStepList DEF Tests, Need
<1>2. Tests(ReadById)
  <2>1. 1 \in 1..Len(ReadById) /\ \A i \in 1..1 : ReadById[i] # RowIds
    BY ByIdStepList DEF Need, RowIds
  <2> QED
    BY <2>1, ByIdStepList DEF Tests, Need
<1>3. Tests(ReadRunning)
  <2>1. 1 \in 1..Len(ReadRunning) /\ \A i \in 1..1 : ReadRunning[i] # RowIds
    BY RunningStepList DEF Need, RowIds
  <2> QED
    BY <2>1, RunningStepList DEF Tests, Need
<1>4. Tests(ReadWhat)
  <2>1. 1 \in 1..Len(ReadWhat) /\ \A i \in 1..1 : ReadWhat[i] # RowIds
    BY WhatStepList DEF Need, RowIds
  <2> QED
    BY <2>1, WhatStepList DEF Tests, Need
<1>5. Tests(ReadJobSave)
  <2>1. 2 \in 1..Len(ReadJobSave) /\ \A i \in 1..2 : ReadJobSave[i] # RowIds
    BY JobSaveStepList DEF Need, Field, RowIds
  <2> QED
    BY <2>1, JobSaveStepList DEF Tests, Need
<1>6. Tests(ReadIdList)
  <2>1. 1 \in 1..Len(ReadIdList) /\ \A i \in 1..1 : ReadIdList[i] # RowIds
    BY IdListStepList DEF Need, RowIds
  <2> QED
    BY <2>1, IdListStepList DEF Tests, Need
<1>7. Tests(ReadStatusSave)
  <2>1. 2 \in 1..Len(ReadStatusSave) /\ \A i \in 1..2 : ReadStatusSave[i] # RowIds
    BY StatusSaveStepList DEF Need, Field, RowIds
  <2> QED
    BY <2>1, StatusSaveStepList DEF Tests, Need
<1>8. Tests(ReadBundle)
  <2>1. 2 \in 1..Len(ReadBundle) /\ \A i \in 1..2 : ReadBundle[i] # RowIds
    BY BundleStepList DEF Need, Field, RowIds
  <2> QED
    BY <2>1, BundleStepList DEF Tests, Need
<1> QED
  BY <1>1, <1>2, <1>3, <1>4, <1>5, <1>6, <1>7, <1>8, ReaderOf DEF Ids

\* The ids are neither zero nor Large.
LEMMA IdsBounded == \A id \in Ids : id # 0 /\ id # Large
BY DEF Ids, Large, ById, UPDATE_JOB, DB_JOB_GET_BY_JOB_ID, DB_JOB_GET_BY_ID,
   DB_JOB_GET_RUNNING_JOBS, DB_JOB_DELETE, DB_JOB_SAVE,
   DB_JOBSTATUS_GET_BY_JOB_ID_AND_WHAT, DB_JOBSTATUS_GET_BY_JOB_ID,
   DB_JOBSTATUS_DELETE_BY_ID_LIST, DB_JOBSTATUS_SAVE,
   DB_BUNDLE_CREATE_OR_UPDATE_JOB, DB_BUNDLE_GET_JOB_BY_ID, DB_BUNDLE_DELETE_JOB

\* Four bytes of a source in the place of the id are no id.
LEMMA TextIsNoId ==
    ASSUME Came, index = 0, 8 <= Len(data), Len(data) < Off(sent, 1), 12 <= Len(data)
    PROVE  FromLeBytes(SubSeq(data, 8 + 1, 8 + 4)) \notin Ids
<1> DEFINE v == sent.source
           bs == SubSeq(data, 8 + 1, 8 + 4)
<1>1. /\ sent \in Bodies /\ data \in Seq(Nat) /\ Len(data) \in Nat
      /\ \A i \in 1..Len(data) : data[i] = Encode(sent)[i]
  BY DEF Came
<1>2. 1 \in 1..(Len(sent.fields) + 2)
  BY <1>1, BodyFields
<1>3. Values(sent)[1] = v /\ Types(sent)[1] = "string"
  BY <1>1, BodyFields
<1>4. /\ IsText(v) /\ \A i \in 1..Len(v) : v[i] # 0
  BY <1>1, BodiesAssumption
<1>5. /\ v \in Seq(Nat) /\ Bytes(sent, 1) = ToLeBytes(Len(v), 8) \o v
      /\ ToLeBytes(Len(v), 8) \in Seq(Nat) /\ Len(ToLeBytes(Len(v), 8)) = 8
  <2>1. "string" \in FieldTypes /\ HasType(v, "string")
    BY <1>4 DEF FieldTypes, HasType
  <2>2. /\ v \in Seq(Nat) /\ Push("string", v) = ToLeBytes(Len(v), 8) \o v
        /\ ToLeBytes(Len(v), 8) \in Seq(Nat) /\ Len(ToLeBytes(Len(v), 8)) = 8
    BY <2>1, PushedField, Zenon
  <2>3. Bytes(sent, 1) = Push("string", v)
    BY <1>3 DEF Bytes
  <2> QED
    BY <2>2, <2>3, Zenon
<1>6. Len(Bytes(sent, 1)) = 8 + Len(v) /\ Len(v) \in Nat /\ \A i \in 1..Len(v) : Bytes(sent, 1)[8 + i] = v[i]
  <2>1. Follows(Bytes(sent, 1), ToLeBytes(Len(v), 8), v)
    BY <1>5, ConcatBytes
  <2> QED
    BY <1>5, <2>1, Zenon DEF Follows
<1>7. /\ Off(sent, 0) = 0 /\ Off(sent, 1) = Off(sent, 1 - 1) + Len(Bytes(sent, 1))
      /\ \A i \in 1..Len(Bytes(sent, 1)) : Encode(sent)[Off(sent, 1 - 1) + i] = Bytes(sent, 1)[i]
  BY <1>1, <1>2, EncodeParts
<1>8. 4 \in 1..Len(v) /\ 12 \in 1..Len(Bytes(sent, 1)) /\ 12 \in 1..Len(data)
  BY <1>1, <1>6, <1>7
<1>9. data[12] # 0
  <2>1. Encode(sent)[0 + 12] = Bytes(sent, 1)[12]
    <3>1. Off(sent, 1 - 1) = 0
      BY <1>7
    <3> QED
      BY <1>7, <1>8, <3>1
  <2>2. data[12] = Bytes(sent, 1)[8 + 4]
    BY <1>1, <1>8, <2>1
  <2>3. data[12] = v[4]
    BY <1>6, <1>8, <2>2
  <2> QED
    BY <1>4, <1>8, <2>3
<1>10. bs \in Seq(Nat) /\ Len(bs) = 4 /\ bs[4] = data[12]
  BY <1>1
<1> HIDE DEF bs
<1>11. FromLeBytes(bs) = Large
  <2>1. \E i \in 4..Len(bs) : bs[i] # 0
    BY <1>9, <1>10
  <2> QED
    BY <2>1 DEF FromLeBytes
<1> QED
  BY <1>11, IdsBounded DEF bs

\* The id of a message that has come, after its source
LEMMA IdCame ==
    ASSUME Came, Off(sent, 1) + 4 <= Len(data)
    PROVE  FromLeBytes(SubSeq(data, Off(sent, 1) + 1, Off(sent, 1) + 4)) = sent.id
<1> DEFINE b == Bytes(sent, 2)
<1>1. sent \in Bodies /\ data \in Seq(Nat)
  BY DEF Came
<1>2. 2 \in 1..(Len(sent.fields) + 2) /\ 1 \in 0..(Len(sent.fields) + 2) /\ 2 - 1 = 1
  BY <1>1, BodyFields
<1>3. Values(sent)[2] = sent.id /\ Types(sent)[2] = "uint" /\ HasType(Values(sent)[2], Types(sent)[2])
  BY <1>1, <1>2, BodyFields
<1>4. b \in Seq(Nat) /\ Len(b) = 4 /\ FromLeBytes(b) = sent.id
  <2>1. "uint" \in FieldTypes /\ HasType(sent.id, "uint") /\ "uint" # "string" /\ Width["uint"] = 4
    BY <1>3 DEF FieldTypes, Width
  <2>2. /\ Push("uint", sent.id) \in Seq(Nat) /\ Len(Push("uint", sent.id)) = 4
        /\ FromLeBytes(Push("uint", sent.id)) = sent.id
    BY <2>1, PushedField
  <2>3. b = Push("uint", sent.id)
    BY <1>3 DEF Bytes
  <2> QED
    BY <2>2, <2>3, Zenon
<1>5. Off(sent, 1) \in Nat
  BY <1>1, <1>2, EncodeParts
<1> HIDE DEF b
<1>6. SubSeq(data, Off(sent, 1) + 1, Off(sent, 1) + Len(b)) = b
  <2>1. /\ 0 \in Nat /\ Off(sent, 2 - 1) + 0 = Off(sent, 1) /\ 0 + Len(b) <= Len(Bytes(sent, 2))
        /\ Off(sent, 1) + Len(b) <= Len(data)
    <3>1. Off(sent, 2 - 1) = Off(sent, 1) /\ Len(Bytes(sent, 2)) = 4
      BY <1>2, <1>4 DEF b
    <3>2. Off(sent, 2 - 1) + 0 = Off(sent, 1)
      BY <1>5, <3>1
    <3>3. 0 + Len(b) <= Len(Bytes(sent, 2))
      <4>1. \A x, y : x = 4 /\ y = 4 => 0 + x <= y
        OBVIOUS
      <4> QED
        BY <1>4, <3>1, <4>1, Zenon
    <3>4. Off(sent, 1) + Len(b) <= Len(data)
      BY <1>4
    <3> QED
      BY <3>2, <3>3, <3>4
  <2>2. \A i \in 1..Len(b) : Bytes(sent, 2)[0 + i] = b[i]
    BY <1>4 DEF b
  <2> QED
    BY <1>2, <1>4, <1>5, <2>1, <2>2, FieldCame
<1> QED
  BY <1>4, <1>6

\* from_bytes, and the dispatch on the id
LEMMA ReadHeaderKeeps ==
    ASSUME WireInv, ReadHeader
    PROVE  WireInv'
<1> DEFINE at == PopString.index
           id == IF Len(data) - at < 4 THEN 0 ELSE FromLeBytes(SubSeq(data, at + 1, at + 4))
<1>1. /\ verdict = "reading" /\ pc # <<>> /\ Head(pc) = Header
      /\ read' = <<PopString.value, id>>
      /\ index' = at + (IF Len(data) - at < 4 THEN 0 ELSE 4)
      /\ pc' = IF id \in Ids THEN Reader(id) ELSE <<>>
      /\ verdict' = IF id \in Ids THEN "reading" ELSE "dropped"
      /\ sent' = sent /\ data' = data
  BY DEF ReadHeader, Step
<1>2. /\ Came /\ sent \in Bodies /\ data \in Seq(Nat) /\ index \in Nat /\ index <= Len(data)
      /\ Len(data) \in Nat
  BY DEF WireInv, Came
<1>3. index = 0
  <2>1. ~Underway
    <3>1. Header \notin Steps
      BY DEF Header, Steps, Need, Field, RowIds, IsStatus
    <3>2. pc \in Seq(Steps) => Head(pc) \in Steps
      BY <1>1, TailSteps
    <3> QED
      BY <1>1, <3>1, <3>2 DEF Underway
  <2> QED
    BY <1>1, <2>1 DEF WireInv, AtHeader
<1>4. /\ PopString.value \in Seq(Nat) /\ at \in Nat /\ at <= Len(data)
      /\ Remaining < 8 => at = 0
  BY <1>2, <1>3, PopStringIs
<1>5. id \in Nat
  <2>1. CASE Len(data) - at < 4
    BY <2>1
  <2>2. CASE ~(Len(data) - at < 4)
    <3>1. SubSeq(data, at + 1, at + 4) \in Seq(Nat)
      <4>1. \A a \in Nat : ~(Len(data) - a < 4) => SubSeq(data, a + 1, a + 4) \in Seq(Nat)
        BY <1>2
      <4> QED
        BY <1>4, <2>2, <4>1, Zenon
    <3>2. FromLeBytes(SubSeq(data, at + 1, at + 4)) \in Nat
      BY <3>1, FromLeNat
    <3> QED
      BY <2>2, <3>2
  <2> QED
    BY <2>1, <2>2
<1>6. index' \in Nat /\ index' <= Len(data) /\ read' \in Seq(Datum)
  <2>1. index' \in Nat /\ index' <= Len(data)
    <3>1. \A a, n \in Nat : a <= n => LET j == a + (IF n - a < 4 THEN 0 ELSE 4) IN j \in Nat /\ j <= n
      OBVIOUS
    <3> HIDE DEF id
    <3> QED
      BY <1>1, <1>2, <1>4, <3>1, Zenon
  <2>2. PopString.value \in Datum /\ id \in Datum
    BY <1>4, <1>5 DEF Datum
  <2> HIDE DEF id
  <2>3. \A v, i \in Datum : <<v, i>> \in Seq(Datum)
    OBVIOUS
  <2> QED
    BY <1>1, <2>1, <2>2, <2>3, Zenon
<1>7. /\ FieldEnds(sent, 1) /\ FieldEnds(sent, 2) /\ Off(sent, 0) = 0
      /\ Types(sent)[1] = "string" /\ Types(sent)[2] = "uint" /\ Len(sent.fields) \in Nat
      /\ Values(sent)[1] = sent.source /\ Values(sent)[2] = sent.id /\ sent.id \in Ids
  <2>1. 1 \in 1..(Len(sent.fields) + 2) /\ 2 \in 1..(Len(sent.fields) + 2)
    BY <1>2, BodyFields
  <2> QED
    BY <1>2, <2>1, SizeAt, BodyFields, EncodeParts, BodiesAssumption, Zenon
<1>8. /\ Off(sent, 1) \in Nat /\ Off(sent, 2) \in Nat /\ Off(sent, 1) >= 8
      /\ Off(sent, 2) = Off(sent, 1) + 4 /\ Off(sent, 2) <= Len(Encode(sent))
      /\ Len(Encode(sent)) \in Nat
  <2>1. 1 - 1 = 0 /\ 2 - 1 = 1
    OBVIOUS
  <2>2. /\ Off(sent, 1) \in Nat /\ Off(sent, 2) \in Nat /\ Off(sent, 1) >= Off(sent, 1 - 1) + 8
        /\ Off(sent, 2) = Off(sent, 2 - 1) + 4 /\ Off(sent, 2) <= Len(Encode(sent))
        /\ Len(Encode(sent)) \in Nat
    BY <1>7, Zenon DEF FieldEnds
  <2> QED
    BY <1>7, <2>1, <2>2
<1>9. Len(data) < Off(sent, 2) => Cut
  BY <1>2, <1>8 DEF Cut
<1>10. ASSUME id \notin Ids, Len(data) < Off(sent, 2) PROVE WireInv'
  BY <1>1, <1>6, <1>9, <1>10, ThenDropped
<1>11. CASE Len(data) < 8
  <2>1. at = 0 /\ Len(data) < Off(sent, 2)
    <3>1. Remaining < 8
      BY <1>2, <1>3, <1>11 DEF Remaining
    <3> QED
      BY <1>2, <1>4, <1>8, <1>11, <3>1
  <2>2. CASE id \in Ids
    <3>1. ~(Len(data) - at < 4)
      <4>1. id # 0
        BY <2>2, IdsBounded
      <4> QED
        BY <4>1
    <3> HIDE DEF id
    <3>2. pc' = Reader(id) /\ verdict' = "reading" /\ index' = 4
      BY <1>1, <2>1, <2>2, <3>1
    <3>3. Tests(Reader(id))
      BY <2>2, ReaderTests
    <3>4. pc' \in Seq(Steps)
      BY <3>2, <3>3 DEF Tests
    <3>5. Doomed'
      <4>1. PICK q \in 1..Len(Reader(id)) :
               /\ Reader(id)[q].do = "need" /\ Reader(id)[q].n \in Nat /\ Reader(id)[q].n >= 4
               /\ \A i \in 1..q : Reader(id)[i] # RowIds
        BY <3>3 DEF Tests
      <4>2. Remaining' < Reader(id)[q].n
        <5>1. Remaining' = Len(data) - 4
          BY <1>1, <3>2 DEF Remaining
        <5> QED
          BY <1>2, <1>11, <4>1, <5>1
      <4> QED
        BY <3>2, <4>1, <4>2 DEF Doomed
    <3>6. Underway'
      <4>1. Cut'
        BY <1>1, <1>9, <2>1 DEF Cut
      <4> QED
        BY <3>4, <3>5, <4>1, Zenon DEF Underway
    <3> QED
      BY <1>1, <1>6, <3>2, <3>6, StillReading
  <2> QED
    BY <1>10, <2>1, <2>2
<1>12. CASE 8 <= Len(data)
  <2>1. /\ Overruns <=> Len(data) < Off(sent, 1)
        /\ ~Overruns => PopString = [value |-> sent.source, index |-> Off(sent, 1)]
    <3>1. 1 \in 1..(Len(sent.fields) + 2) /\ index = Off(sent, 1 - 1) /\ index + 8 <= Len(data)
      BY <1>2, <1>3, <1>7, <1>12
    <3> QED
      BY <1>2, <1>7, <3>1, StringCame
  <2>2. CASE Overruns
    <3>1. at = 8
      <4>1. 1 \in 1..(Len(sent.fields) + 2) /\ index = Off(sent, 1 - 1) /\ index + 8 <= Len(data)
        BY <1>2, <1>3, <1>7, <1>12
      <4>2. Prefix.index = index + 8
        BY <1>2, <1>7, <4>1, PrefixCame
      <4>3. at = Prefix.index
        BY <2>2 DEF PopString
      <4> QED
        BY <1>3, <4>2, <4>3
    <3>2. Len(data) < Off(sent, 1) /\ Len(data) < Off(sent, 2)
      BY <1>2, <1>8, <2>1, <2>2
    <3>3. id \notin Ids
      <4>1. CASE Len(data) - at < 4
        BY <4>1, IdsBounded
      <4>2. CASE ~(Len(data) - at < 4)
        <5>1. 12 <= Len(data)
          BY <1>2, <3>1, <4>2
        <5>2. FromLeBytes(SubSeq(data, 8 + 1, 8 + 4)) \notin Ids
          BY <1>2, <1>3, <1>12, <3>2, <5>1, TextIsNoId
        <5> QED
          BY <3>1, <4>2, <5>2
      <4> QED
        BY <4>1, <4>2
    <3> QED
      BY <1>10, <3>2, <3>3
  <2>3. CASE ~Overruns
    <3>1. at = Off(sent, 1) /\ PopString.value = sent.source /\ ~(Len(data) < Off(sent, 1))
      BY <2>1, <2>3
    <3>2. CASE Len(data) - at < 4
      <4>1. id \notin Ids
        BY <3>2, IdsBounded
      <4>2. Len(data) < Off(sent, 2)
        BY <1>2, <1>8, <3>1, <3>2
      <4> QED
        BY <1>10, <4>1, <4>2
    <3>3. CASE ~(Len(data) - at < 4)
      <4>1. Off(sent, 1) + 4 <= Len(data)
        BY <1>2, <1>8, <3>1, <3>3
      <4>2. id = sent.id
        BY <1>2, <3>1, <3>3, <4>1, IdCame
      <4> HIDE DEF id
      <4> DEFINE R == Reader(sent.id)
      <4>3. /\ pc' = R /\ verdict' = "reading" /\ index' = Off(sent, 2)
            /\ read' = <<sent.source, sent.id>>
        BY <1>1, <1>7, <1>8, <3>1, <3>3, <4>2
      <4>4. R \in Seq(Steps) /\ Taken(sent, 0) = 2
        BY <1>2, AllFit DEF ReaderFits
      <4>5. InStep(0)'
        <5>1. 0 \in 0..Len(R) /\ pc' = SubSeq(R, 0 + 1, Len(R))
          <6> HIDE DEF R
          <6> QED
            BY <4>3, <4>4
        <5>2. /\ index' = Off(sent, Taken(sent, 0)) /\ Len(read') = Taken(sent, 0)
              /\ \A i \in 1..Len(read') : read'[i] = Values(sent)[i]
          BY <1>7, <4>3, <4>4
        <5>3. \A q \in 1..0 : FALSE
          OBVIOUS
        <5> QED
          BY <1>1, <5>1, <5>2, <5>3, Zenon DEF InStep
      <4>6. Underway'
        <5>1. 0 \in Nat /\ pc' \in Seq(Steps)
          BY <4>3, <4>4
        <5> QED
          BY <4>5, <5>1, Zenon DEF Underway
      <4> QED
        BY <1>1, <1>6, <4>3, <4>6, StillReading
    <3> QED
      BY <3>2, <3>3
  <2> QED
    BY <2>2, <2>3
<1> QED
  BY <1>2, <1>11, <1>12

\* The row ids of a list are eight bytes each.
LEMMA RowAt ==
    ASSUME NEW m \in Bodies, m.id = DB_JOBSTATUS_DELETE_BY_ID_LIST,
           NEW i \in Nat, i <= Len(m.fields) - 2
    PROVE  Off(m, 4 + i) = Off(m, 4) + 8 * i /\ Off(m, 4) \in Nat
<1> DEFINE c == Len(m.fields) - 2
           S == {n \in Nat : n <= c => Off(m, 4 + n) = Off(m, 4) + 8 * n}
<1>1. c \in Nat /\ Len(m.fields) \in Nat /\ Len(m.fields) = c + 2
  BY BodyShape
<1>2. Off(m, 4) \in Nat
  <2>1. 4 \in 0..(Len(m.fields) + 2)
    BY <1>1
  <2> QED
    BY <2>1, EncodeParts
<1>3. 0 \in S
  <2>1. 4 + 0 = 4
    OBVIOUS
  <2> QED
    BY <1>2, <2>1
<1>4. ASSUME NEW n \in Nat, n \in S PROVE n + 1 \in S
  <2>1. SUFFICES ASSUME n + 1 <= c PROVE Off(m, 4 + (n + 1)) = Off(m, 4) + 8 * (n + 1)
    OBVIOUS
  <2>2. Off(m, 4 + n) = Off(m, 4) + 8 * n
    BY <1>1, <1>4, <2>1
  <2>3. /\ n + 3 \in 1..Len(m.fields) /\ 4 + (n + 1) = (n + 3) + 2 /\ ~(n + 3 <= 2)
        /\ 4 + (n + 1) \in 1..(Len(m.fields) + 2) /\ (4 + (n + 1)) - 1 = 4 + n
    BY <1>1, <2>1
  <2>4. Types(m)[4 + (n + 1)] = "ulong"
    <3>1. Len(Layout(m.id)) = 2
      BY LayoutOf
    <3>2. Types(m)[(n + 3) + 2] = IF n + 3 <= Len(Layout(m.id)) THEN Layout(m.id)[n + 3] ELSE "ulong"
      BY <2>3, BodyFields, Zenon
    <3> QED
      BY <2>3, <3>1, <3>2
  <2>5. FieldEnds(m, 4 + (n + 1))
    BY <2>3, SizeAt, Zenon
  <2>6. Off(m, 4 + (n + 1)) = Off(m, 4 + n) + 8
    BY <2>3, <2>4, <2>5 DEF FieldEnds
  <2> QED
    BY <1>2, <2>2, <2>6
<1>5. Nat \subseteq S
  <2> HIDE DEF S
  <2> QED
    BY <1>3, <1>4, SetInduction
<1> QED
  BY <1>2, <1>5

\* A row id that has come
LEMMA RowCame ==
    ASSUME Came, sent.id = DB_JOBSTATUS_DELETE_BY_ID_LIST,
           NEW i \in Nat, 1 <= i, i <= Len(sent.fields) - 2, Off(sent, 4) + 8 * i <= Len(data)
    PROVE  FromLeBytes(SubSeq(data, Off(sent, 4) + 8 * i - 7, Off(sent, 4) + 8 * i))
              = Values(sent)[4 + i]
<1> DEFINE k == 4 + i
           b == Bytes(sent, k)
           a == Off(sent, 4) + 8 * i - 8
<1>1. sent \in Bodies /\ data \in Seq(Nat) /\ Len(data) \in Nat
  BY DEF Came
<1>2. Len(sent.fields) \in Nat /\ Len(sent.fields) >= 2
  BY <1>1, BodyShape
<1>3. /\ k \in 1..(Len(sent.fields) + 2) /\ i - 1 \in Nat /\ i - 1 <= Len(sent.fields) - 2
      /\ k - 1 = 4 + (i - 1) /\ i + 2 \in 1..Len(sent.fields) /\ ~(i + 2 <= 2) /\ k = (i + 2) + 2
  BY <1>2
<1>4. Off(sent, k - 1) = a /\ a \in Nat
  <2>1. Off(sent, 4 + (i - 1)) = Off(sent, 4) + 8 * (i - 1) /\ Off(sent, 4) \in Nat
    BY <1>1, <1>3, RowAt
  <2> QED
    BY <1>3, <2>1
<1>5. Types(sent)[k] = "ulong" /\ HasType(Values(sent)[k], "ulong")
  <2>1. Len(Layout(sent.id)) = 2
    BY <1>1, LayoutOf
  <2>2. Types(sent)[(i + 2) + 2] = IF i + 2 <= Len(Layout(sent.id)) THEN Layout(sent.id)[i + 2] ELSE "ulong"
    BY <1>1, <1>3, BodyFields, Zenon
  <2>3. Types(sent)[k] = "ulong"
    BY <1>3, <2>1, <2>2
  <2>4. HasType(Values(sent)[k], Types(sent)[k])
    BY <1>1, <1>3, BodyFields, Zenon
  <2> QED
    BY <2>3, <2>4
<1> HIDE DEF k
<1>6. b \in Seq(Nat) /\ Len(b) = 8 /\ FromLeBytes(b) = Values(sent)[k]
  <2>1. "ulong" \in FieldTypes /\ "ulong" # "string" /\ Width["ulong"] = 8
    BY DEF FieldTypes, Width
  <2>2. /\ Push("ulong", Values(sent)[k]) \in Seq(Nat) /\ Len(Push("ulong", Values(sent)[k])) = 8
        /\ FromLeBytes(Push("ulong", Values(sent)[k])) = Values(sent)[k]
    BY <1>5, <2>1, PushedField
  <2>3. b = Push("ulong", Values(sent)[k])
    BY <1>5 DEF Bytes
  <2> QED
    BY <2>2, <2>3, Zenon
<1>7. a + 8 = Off(sent, 4) + 8 * i /\ a + 1 = Off(sent, 4) + 8 * i - 7 /\ a + 8 <= Len(data)
  <2>1. Off(sent, 4) \in Nat
    <3>1. 4 \in 0..(Len(sent.fields) + 2)
      BY <1>2
    <3> QED
      BY <1>1, <3>1, EncodeParts
  <2> QED
    BY <1>1, <2>1
<1> HIDE DEF a, b
<1>8. SubSeq(data, a + 1, a + Len(b)) = b
  <2>1. 0 \in Nat /\ Off(sent, k - 1) + 0 = a
    BY <1>4
  <2>2. 0 + Len(b) <= Len(Bytes(sent, k)) /\ a + Len(b) <= Len(data)
    <3>1. \A x, y : x = 8 /\ y = x => 0 + x <= y
      OBVIOUS
    <3>2. Len(Bytes(sent, k)) = Len(b)
      BY DEF b
    <3> QED
      BY <1>6, <1>7, <3>1, <3>2, Zenon
  <2>3. \A j \in 1..Len(b) : Bytes(sent, k)[0 + j] = b[j]
    BY <1>6 DEF b
  <2> QED
    BY <1>3, <1>4, <1>6, <2>1, <2>2, <2>3, FieldCame
<1>9. FromLeBytes(SubSeq(data, a + 1, a + 8)) = Values(sent)[k]
  BY <1>6, <1>8
<1> QED
  BY <1>7, <1>9, Zenon DEF k

\* What has been read, with the rows
LEMMA WithRows ==
    ASSUME NEW s \in Seq(Datum), NEW n \in Nat, NEW r \in [1..n -> Datum]
    PROVE  /\ s \o r \in Seq(Datum) /\ Len(s \o r) = Len(s) + n /\ Len(s) \in Nat
           /\ \A i \in 1..Len(s) : (s \o r)[i] = s[i]
           /\ \A i \in 1..n : (s \o r)[Len(s) + i] = r[i]
<1>1. r \in Seq(Datum) /\ Len(r) = n
  OBVIOUS
<1> QED
  BY <1>1

\* handle_jobstatus_delete_by_id_list
LEMMA ReadIdsKeeps ==
    ASSUME WireInv, ReadIds
    PROVE  WireInv'
<1> DEFINE count == read[Len(read)]
           d == Remaining \div 8
           n == IF count < d THEN count ELSE d
           row == [i \in 1..n |-> FromLeBytes(SubSeq(data, index + 8 * i - 7, index + 8 * i))]
           c == Len(sent.fields) - 2
           R == Reader(sent.id)
<1>1. /\ verdict = "reading" /\ pc # <<>> /\ Head(pc) = RowIds /\ verdict' = "reading"
      /\ read' = read \o row /\ index' = index + 8 * n /\ pc' = Tail(pc)
      /\ sent' = sent /\ data' = data
  BY DEF ReadIds, Step
<1>2. /\ Came /\ sent \in Bodies /\ data \in Seq(Nat) /\ index \in Nat /\ index <= Len(data)
      /\ Len(data) \in Nat /\ read \in Seq(Datum)
  BY DEF WireInv, Came
<1>3. Underway /\ pc \in Seq(Steps)
  <2>1. Head(pc) # Header
    BY <1>1 DEF Header, RowIds
  <2>2. Underway
    BY <1>1, <2>1, PastHeader
  <2> QED
    BY <2>2 DEF Underway
<1>4. PICK p \in Nat : InStep(p)
  <2>1. Len(pc) \in Nat /\ Len(pc) >= 1 /\ pc[1] = RowIds
    BY <1>1, <1>3, TailSteps
  <2>2. ~Doomed
    <3>1. \A q \in 1..Len(pc) : 1 \in 1..q
      OBVIOUS
    <3> QED
      BY <2>1, <3>1, Zenon DEF Doomed
  <2>3. ~Settled
    BY <2>1 DEF Settled
  <2>4. ~Listed
    BY <1>1 DEF Listed
  <2> QED
    BY <1>3, <2>2, <2>3, <2>4 DEF Underway
<1>5. /\ Len(sent.fields) \in Nat /\ R \in Seq(Steps) /\ p + 1 \in 1..Len(R) /\ RowIds = R[p + 1]
      /\ StepFits(sent, p)
  BY <1>1, <1>2, <1>4, InStepFacts, Zenon
<1>6. /\ sent.id = DB_JOBSTATUS_DELETE_BY_ID_LIST /\ Taken(sent, p) = 4
      /\ Taken(sent, p + 1) = Len(sent.fields) + 2
  <2>1. R[p + 1].do = "ids"
    BY <1>5 DEF RowIds
  <2> QED
    BY <1>5, <2>1 DEF StepFits
<1>7. index = Off(sent, 4) /\ Len(read) = 4 /\ \A i \in 1..Len(read) : read[i] = Values(sent)[i]
  BY <1>4, <1>6 DEF InStep
<1>8. count = c /\ c \in Nat /\ Len(sent.fields) + 2 = 4 + c
  <2>1. Values(sent)[4] = c /\ Len(sent.fields) >= 2
    BY <1>2, <1>6, BodyShape
  <2>2. read[4] = Values(sent)[4]
    BY <1>7
  <2>3. c \in Nat /\ Len(sent.fields) + 2 = 4 + c
    BY <1>5, <2>1
  <2> QED
    BY <1>7, <2>1, <2>2, <2>3
<1>9. /\ d \in Nat /\ index + 8 * d <= Len(data) /\ Len(data) < index + 8 * d + 8
  BY <1>2 DEF Remaining
<1>10. n \in Nat /\ n <= c /\ index + 8 * n <= Len(data) /\ (n # c => n = d)
  <2> HIDE DEF d, count, c
  <2>1. \A x, y, a, l \in Nat : a + 8 * y <= l =>
           LET m == IF x < y THEN x ELSE y IN
           m \in Nat /\ m <= x /\ a + 8 * m <= l /\ (m # x => m = y)
    OBVIOUS
  <2> QED
    BY <1>2, <1>8, <1>9, <2>1
<1>11. ASSUME NEW i \in 1..n PROVE row[i] = Values(sent)[4 + i] /\ row[i] \in Datum
  <2>1. i \in Nat /\ 1 <= i /\ i <= c /\ index + 8 * i <= Len(data) /\ 4 + i \in 1..(4 + c)
    <3> HIDE DEF n, c
    <3> QED
      BY <1>2, <1>8, <1>10
  <2>2. FromLeBytes(SubSeq(data, Off(sent, 4) + 8 * i - 7, Off(sent, 4) + 8 * i)) = Values(sent)[4 + i]
    <3>1. Off(sent, 4) + 8 * i <= Len(data)
      BY <1>7, <2>1
    <3> QED
      BY <1>2, <1>6, <2>1, <3>1, RowCame
  <2>3. row[i] = FromLeBytes(SubSeq(data, index + 8 * i - 7, index + 8 * i))
    <3> HIDE DEF n
    <3> QED
      OBVIOUS
  <2>4. Values(sent)[4 + i] \in Datum
    <3>1. Values(sent) \in Seq(Datum) /\ Len(Values(sent)) = 4 + c
      <4>1. Len(Values(sent)) = Len(sent.fields) + 2
        BY <1>2, BodyFields
      <4> QED
        BY <1>2, <1>8, <4>1, ValuesSeq
    <3> HIDE DEF c
    <3> QED
      BY <2>1, <3>1
  <2> QED
    BY <1>7, <2>2, <2>3, <2>4
<1>12. /\ read' \in Seq(Datum) /\ Len(read') = 4 + n
       /\ \A i \in 1..Len(read') : read'[i] = Values(sent)[i]
  <2>1. row \in [1..n -> Datum]
    <3> HIDE DEF n
    <3> QED
      BY <1>11
  <2> HIDE DEF row, n
  <2>2. /\ read \o row \in Seq(Datum) /\ Len(read \o row) = Len(read) + n
        /\ \A i \in 1..Len(read) : (read \o row)[i] = read[i]
        /\ \A i \in 1..n : (read \o row)[Len(read) + i] = row[i]
    <3>1. n \in Nat
      BY <1>10
    <3> QED
      BY <1>2, <2>1, <3>1, WithRows
  <2>3. /\ read' \in Seq(Datum) /\ Len(read') = 4 + n
        /\ \A i \in 1..4 : read'[i] = Values(sent)[i]
        /\ \A i \in 1..n : read'[4 + i] = Values(sent)[4 + i]
    BY <1>1, <1>7, <1>11, <2>2, Zenon
  <2>4. ASSUME NEW i \in 1..Len(read') PROVE read'[i] = Values(sent)[i]
    <3>1. i \in 1..4 \/ (i - 4 \in 1..n /\ 4 + (i - 4) = i)
      <4>1. \A x \in 1..(4 + n) : x \in 1..4 \/ (x - 4 \in 1..n /\ 4 + (x - 4) = x)
        BY <1>10
      <4> QED
        BY <2>3, <4>1, Zenon
    <3> QED
      BY <2>3, <3>1
  <2> QED
    BY <2>3, <2>4
<1> HIDE DEF row
<1>13. index' = Off(sent, 4 + n) /\ index' \in Nat /\ index' <= Len(data)
  <2> HIDE DEF n
  <2>1. Off(sent, 4 + n) = Off(sent, 4) + 8 * n
    BY <1>2, <1>6, <1>10, RowAt
  <2> QED
    BY <1>1, <1>2, <1>7, <1>10, <2>1
<1>14. pc' \in Seq(Steps)
  <2>1. Tail(pc) \in Seq(Steps)
    BY <1>1, <1>3, TailSteps
  <2> QED
    BY <1>1, <2>1
<1> HIDE DEF n
<1>15. CASE n = c
  <2>1. Len(read') = Taken(sent, p + 1) /\ index' = Off(sent, Taken(sent, p + 1))
    BY <1>6, <1>8, <1>12, <1>13, <1>15
  <2>2. Head(pc).do # "need"
    BY <1>1 DEF RowIds
  <2>3. InStep(p + 1)'
    BY <1>1, <1>2, <1>4, <1>12, <2>1, <2>2, NextInStep
  <2>4. Underway'
    <3>1. p + 1 \in Nat
      OBVIOUS
    <3> QED
      BY <1>14, <2>3, <3>1, Zenon DEF Underway
  <2> QED
    BY <1>1, <1>12, <1>13, <2>4, StillReading
<1>16. CASE n # c
  <2>1. n = d /\ n + 1 <= c
    <3> HIDE DEF d, c
    <3> QED
      BY <1>8, <1>10, <1>16
  <2>2. Cut'
    <3>1. Off(sent, 4 + c) = Off(sent, 4) + 8 * c
      <4>1. c <= Len(sent.fields) - 2
        BY <1>8
      <4> HIDE DEF c
      <4> QED
        BY <1>2, <1>6, <1>8, <4>1, RowAt
    <3>2. Off(sent, 4 + c) = Len(Encode(sent))
      BY <1>2, <1>8, EncodeParts
    <3> HIDE DEF d, c
    <3>3. Len(data) < Len(Encode(sent))
      BY <1>2, <1>7, <1>8, <1>9, <1>10, <2>1, <3>1, <3>2
    <3> QED
      BY <1>1, <3>3 DEF Cut
  <2>3. Listed'
    <3>1. pc' = <<>>
      <4>1. R = ReadIdList
        BY <1>6, ReaderOf
      <4>2. p + 1 = 4 /\ Len(R) = 4
        BY <1>5, <4>1, IdListStepList DEF Need, Field, RowIds
      <4>3. p \in 0..Len(R) /\ pc = SubSeq(R, p + 1, Len(R))
        BY <1>4 DEF InStep
      <4>4. Len(pc) = 1
        <5> HIDE DEF R
        <5>1. PICK s : s = pc /\ s = SubSeq(R, p + 1, Len(R))
          BY <4>3
        <5>2. Len(s) = Len(R) - p
          BY <1>5, <4>3, <5>1, RestOf
        <5> QED
          BY <4>2, <5>1, <5>2
      <4>5. Len(Tail(pc)) = 0
        BY <1>1, <1>3, <4>4, TailSteps
      <4> QED
        BY <1>1, <1>14, <4>5, EmptySeq
    <3> QED
      BY <1>1, <1>6, <1>12, <3>1 DEF Listed
  <2>4. Underway'
    BY <1>14, <2>2, <2>3, Zenon DEF Underway
  <2> QED
    BY <1>1, <1>12, <1>13, <2>4, StillReading
<1> QED
  BY <1>15, <1>16

-----------------------------------------------------------------------------
(* The theorems about reading                                              *)

\* No step of the reader breaks the invariant.
LEMMA WireNextKeeps == WireInv /\ [WireNext]_messageVars => WireInv'
<1>1. SUFFICES ASSUME WireInv, [WireNext]_messageVars PROVE WireInv'
  OBVIOUS
<1>2. CASE ReadHeader
  BY <1>1, <1>2, ReadHeaderKeeps
<1>3. CASE ReadNumber
  BY <1>1, <1>3, ReadNumberKeeps
<1>4. CASE ReadString
  BY <1>1, <1>4, ReadStringKeeps
<1>5. CASE TestRemaining
  BY <1>1, <1>5, TestRemainingKeeps
<1>6. CASE ReadIds
  BY <1>1, <1>6, ReadIdsKeeps
<1>7. CASE Accept
  BY <1>1, <1>7, AcceptKeeps
<1>8. CASE UNCHANGED messageVars
  <2>1. /\ sent' = sent /\ data' = data /\ index' = index /\ pc' = pc /\ read' = read
        /\ verdict' = verdict
    BY <1>8 DEF messageVars
  <2> QED
    BY <1>1, <2>1 DEF WireInv, Came, Cut, AtHeader, Underway, InStep, Doomed, Settled, Listed,
                     ReadAsSent, Remaining
<1> QED
  BY <1>1, <1>2, <1>3, <1>4, <1>5, <1>6, <1>7, <1>8 DEF WireNext

\* Wherever a message is cut, its reader is in step with the sender, or has
\* a test before it that will drop the message, or has read all that counts.
THEOREM WireInductive == WireSpec => []WireInv
<1>1. WireInit => WireInv
  BY WireInitHolds
<1>2. WireInv /\ [WireNext]_messageVars => WireInv'
  BY WireNextKeeps
<1> QED
  BY <1>1, <1>2, PTL DEF WireSpec

\* A message that has come whole is read as it was sent, and one that was cut
\* is dropped or acted on with the keys that were sent.
THEOREM ReadAsSentHolds == WireSpec => []ReadAsSent
<1>1. WireInv => ReadAsSent
  BY DEF WireInv
<1> QED
  BY <1>1, WireInductive, PTL

=============================================================================
