----------------------------- MODULE WireFormat -----------------------------
(***************************************************************************)
(* The binary messages of the cluster protocol, and how the server reads   *)
(* one (src/src/src/protocol/message.rs).  A frame that ends too early is  *)
(* no error of the reader: a number that does not fit reads as zero and    *)
(* leaves the cursor where it is, so that the handlers have to find out    *)
(* that a message was cut (src/src/src/db/cluster_db.rs, models.rs, and    *)
(* handle_update_job of src/src/src/cluster/cluster.rs).                   *)
(*                                                                         *)
(* One message is read, field by field.  The remote cluster has sent all   *)
(* its fields; `cut` is how many of its bytes have come.                   *)
(***************************************************************************)
EXTENDS Integers, Sequences

CONSTANTS
    Bodies   \* what may be sent: [source, id, fields], strings as sequences
             \* of bytes and row ids, where there are any, at the end

VARIABLES
    sent,    \* the message as it was sent
    data,    \* the bytes that have come
    index,   \* the read cursor
    pc,      \* the next step of the reader
    read,    \* the fields read so far
    verdict  \* reading, accepted or dropped

messageVars == <<sent, data, index, pc, read, verdict>>

-----------------------------------------------------------------------------
(* Message                                                                 *)

\* push_uint and push_ulong: little-endian, for numbers below Large.
Large == 256 * 256 * 256

ToLeBytes(v, w) ==
    [i \in 1..w |-> CASE i = 1 -> v % 256
                      [] i = 2 -> (v \div 256) % 256
                      [] i = 3 -> (v \div (256 * 256)) % 256
                      [] OTHER -> 0]

\* from_le_bytes.  A number that does not fit below Large is only ever
\* compared with a length or an id, and counts as Large.
FromLeBytes(bs) ==
    LET byte(i) == IF i <= Len(bs) THEN bs[i] ELSE 0 IN
    IF \E i \in 4..Len(bs) : bs[i] # 0 THEN Large
    ELSE byte(1) + 256 * byte(2) + 256 * 256 * byte(3)

Width == [bool |-> 1, uint |-> 4, ulong |-> 8]

\* The bytes of a field: a string follows its length.
Push(type, v) ==
    IF type = "string" THEN ToLeBytes(Len(v), 8) \o v ELSE ToLeBytes(v, Width[type])

Remaining == Len(data) - index

\* pop_le: a number that is cut reads as zero and is not passed over.
PopLe(w) ==
    IF Remaining < w THEN [value |-> 0, index |-> index]
    ELSE [value |-> FromLeBytes(SubSeq(data, index + 1, index + w)),
          index |-> index + w]

\* String::from_utf8(..).unwrap_or_default(), for strings of ASCII
FromUtf8(bs) == IF \E i \in 1..Len(bs) : bs[i] >= 128 THEN <<>> ELSE bs

\* What the length prefix at the cursor says, and where it ends
Prefix == PopLe(8)
Overruns == Len(data) - Prefix.index < Prefix.value
Payload == SubSeq(data, Prefix.index + 1, Prefix.index + Prefix.value)

\* pop_string, of the header: a cut string is empty, its prefix is passed.
PopString ==
    IF Overruns THEN [value |-> <<>>, index |-> Prefix.index]
    ELSE [value |-> FromUtf8(Payload), index |-> Prefix.index + Prefix.value]

-----------------------------------------------------------------------------
(* The messages: their fields, and how the handlers read them              *)

UPDATE_JOB == 2001
DB_JOB_GET_BY_JOB_ID == 5000
DB_JOB_GET_BY_ID == 5001
DB_JOB_GET_RUNNING_JOBS == 5002
DB_JOB_DELETE == 5003
DB_JOB_SAVE == 5004
DB_JOBSTATUS_GET_BY_JOB_ID_AND_WHAT == 6000
DB_JOBSTATUS_GET_BY_JOB_ID == 6001
DB_JOBSTATUS_DELETE_BY_ID_LIST == 6002
DB_JOBSTATUS_SAVE == 6003
DB_BUNDLE_CREATE_OR_UPDATE_JOB == 8000
DB_BUNDLE_GET_JOB_BY_ID == 8001
DB_BUNDLE_DELETE_JOB == 8002

ById == {DB_JOB_GET_BY_JOB_ID, DB_JOB_GET_BY_ID, DB_JOB_DELETE,
         DB_JOBSTATUS_GET_BY_JOB_ID, DB_BUNDLE_GET_JOB_BY_ID, DB_BUNDLE_DELETE_JOB}

Ids == ById \cup {UPDATE_JOB, DB_JOB_GET_RUNNING_JOBS, DB_JOB_SAVE,
                  DB_JOBSTATUS_GET_BY_JOB_ID_AND_WHAT,
                  DB_JOBSTATUS_DELETE_BY_ID_LIST, DB_JOBSTATUS_SAVE,
                  DB_BUNDLE_CREATE_OR_UPDATE_JOB}

\* JobStatus::try_from
Statuses == {10, 20, 30, 40, 50, 60, 70, 80, 90, 400, 401, 402, 500}

\* A step of a reader: a test of what remains, or of a status, or a field
Need(n)   == [do |-> "need", n |-> n]
Field(t)  == [do |-> "field", type |-> t]
RowIds    == [do |-> "ids"]
IsStatus  == [do |-> "status"]
Header    == [do |-> "header"]

\* ClusterJob::from_message, ClusterJobStatus::from_message and
\* BundleJob::from_message
ClusterJob       == <<Field("ulong"), Field("ulong"), Field("ulong"), Field("bool"),
                      Field("uint"), Field("string"), Field("string"),
                      Field("bool"), Field("bool"), Field("bool")>>
ClusterJobStatus == <<Field("ulong"), Field("ulong"), Field("string"), Field("uint")>>
BundleJob        == <<Field("ulong"), Field("string")>>

\* handle_update_job, up to the row of the history
ReadUpdateJob == <<Field("uint"), Field("string"), Need(4), Field("uint"),
                   Field("string"), IsStatus>>

\* handle_get_by_id_impl, handle_delete_by_id, handle_job_get_by_job_id and
\* handle_jobstatus_get_by_job_id_impl
ReadById == <<Need(12), Field("uint"), Field("ulong")>>

ReadRunning == <<Need(4), Field("uint")>>

ReadWhat == ReadById \o <<Need(8), Field("string")>>

\* Mutant of ReadJobSave: the test for the payload is left out.
ReadJobSaveUnguarded == <<Field("uint")>> \o ClusterJob

ReadJobSave == <<Field("uint"), Need(48)>> \o ClusterJob

ReadIdList == <<Need(8), Field("uint"), Field("uint"), RowIds>>

ReadStatusSave == <<Field("uint"), Need(28)>> \o ClusterJobStatus

ReadBundle == <<Field("uint"), Need(24)>> \o BundleJob \o <<Field("string")>>

\* handle_message and maybe_handle_cluster_db_message
Reader(id) ==
    CASE id = UPDATE_JOB -> ReadUpdateJob
      [] id \in ById -> ReadById
      [] id = DB_JOB_GET_RUNNING_JOBS -> ReadRunning
      [] id = DB_JOBSTATUS_GET_BY_JOB_ID_AND_WHAT -> ReadWhat
      [] id = DB_JOB_SAVE -> ReadJobSave
      [] id = DB_JOBSTATUS_DELETE_BY_ID_LIST -> ReadIdList
      [] id = DB_JOBSTATUS_SAVE -> ReadStatusSave
      [] OTHER -> ReadBundle

\* The fields the remote cluster pushes; row ids to delete follow theirs.
Layout(id) ==
    CASE id = UPDATE_JOB -> <<"uint", "string", "uint", "string">>
      [] id \in ById -> <<"uint", "ulong">>
      [] id = DB_JOB_GET_RUNNING_JOBS -> <<"uint">>
      [] id = DB_JOBSTATUS_GET_BY_JOB_ID_AND_WHAT -> <<"uint", "ulong", "string">>
      [] id = DB_JOB_SAVE -> <<"uint", "ulong", "ulong", "ulong", "bool", "uint",
                               "string", "string", "bool", "bool", "bool">>
      [] id = DB_JOBSTATUS_DELETE_BY_ID_LIST -> <<"uint", "uint">>
      [] id = DB_JOBSTATUS_SAVE -> <<"uint", "ulong", "ulong", "string", "uint">>
      [] OTHER -> <<"uint", "ulong", "string", "string">>

\* The types and the values of the fields of a message, header first
Types(m) ==
    <<"string", "uint">>
    \o [i \in 1..Len(m.fields) |->
          IF i <= Len(Layout(m.id)) THEN Layout(m.id)[i] ELSE "ulong"]

Values(m) == <<m.source, m.id>> \o m.fields

\* Message::new and the pushes of the sender: the bytes of the first fields
Pushed(m) ==
    LET bytes[i \in 0..Len(Values(m))] ==
          IF i = 0 THEN <<>> ELSE bytes[i - 1] \o Push(Types(m)[i], Values(m)[i])
    IN  bytes

Encode(m) == Pushed(m)[Len(Values(m))]

\* What the remote cluster sends: ASCII strings, a source without NUL,
\* numbers below Large, and as many row ids as it says.
IsNumber(v) == v \in Nat /\ v < Large

IsText(s) == /\ IsNumber(Len(s)) /\ s = [i \in 1..Len(s) |-> s[i]]
             /\ \A i \in 1..Len(s) : s[i] \in Nat /\ s[i] < 128

HasType(v, type) == CASE type = "string" -> IsText(v)
                      [] type = "bool" -> v \in {0, 1}
                      [] OTHER -> IsNumber(v)

ASSUME BodiesAssumption ==
    \A m \in Bodies :
       /\ m.id \in Ids
       /\ IsText(m.source) /\ \A i \in 1..Len(m.source) : m.source[i] # 0
       /\ m.fields = [i \in 1..Len(m.fields) |-> m.fields[i]]
       /\ \A i \in 1..Len(m.fields) : HasType(m.fields[i], Types(m)[i + 2])
       /\ IF m.id = DB_JOBSTATUS_DELETE_BY_ID_LIST
            THEN Len(m.fields) \in Nat \ {0, 1} /\ m.fields[2] = Len(m.fields) - 2
            ELSE Len(m.fields) = Len(Layout(m.id))
       /\ m.id = UPDATE_JOB => m.fields[3] \in Statuses

-----------------------------------------------------------------------------
(* Reading a message                                                       *)

WireInit ==
    /\ sent \in Bodies
    /\ \E n \in 0..Len(Encode(sent)) : data = SubSeq(Encode(sent), 1, n)
    /\ index = 0 /\ pc = <<Header>> /\ read = <<>> /\ verdict = "reading"

\* No message is being read.
WireIdle ==
    /\ sent = (CHOOSE m \in Bodies : TRUE) /\ data = <<>>
    /\ index = 0 /\ pc = <<>> /\ read = <<>> /\ verdict = "dropped"

Step == Head(pc)

Keep(popped) ==
    /\ read' = Append(read, popped.value)
    /\ index' = popped.index
    /\ pc' = Tail(pc)

\* from_bytes, and the dispatch on the id; an unknown id is only logged
ReadHeader ==
    LET id == LET at == PopString.index IN
              IF Len(data) - at < 4 THEN 0
              ELSE FromLeBytes(SubSeq(data, at + 1, at + 4))
    IN
    /\ verdict = "reading" /\ pc # <<>> /\ Step = Header
    /\ read' = <<PopString.value, id>>
    /\ index' = PopString.index
                + IF Len(data) - PopString.index < 4 THEN 0 ELSE 4
    /\ pc' = IF id \in Ids THEN Reader(id) ELSE <<>>
    /\ verdict' = IF id \in Ids THEN "reading" ELSE "dropped"
    /\ UNCHANGED <<sent, data>>

\* pop_uint, pop_ulong, pop_bool
ReadNumber ==
    /\ verdict = "reading" /\ pc # <<>>
    /\ Step.do = "field" /\ Step.type # "string"
    /\ LET popped == PopLe(Width[Step.type]) IN
       Keep(IF Step.type = "bool"
              THEN [popped EXCEPT !.value = IF @ = 1 THEN 1 ELSE 0] ELSE popped)
    /\ UNCHANGED <<sent, data, verdict>>

\* try_pop_string: a string that overruns the message puts the cursor back,
\* and the handler drops the message.
ReadString ==
    /\ verdict = "reading" /\ pc # <<>>
    /\ Step.do = "field" /\ Step.type = "string"
    /\ IF Overruns
         THEN verdict' = "dropped" /\ UNCHANGED <<read, index, pc>>
         ELSE Keep(PopString) /\ UNCHANGED verdict
    /\ UNCHANGED <<sent, data>>

\* The tests of the handlers
TestRemaining ==
    /\ verdict = "reading" /\ pc # <<>> /\ Step.do \in {"need", "status"}
    /\ LET holds == IF Step.do = "need" THEN Remaining >= Step.n
                                        ELSE read[Len(read) - 1] \in Statuses
       IN verdict' = IF holds THEN "reading" ELSE "dropped"
    /\ pc' = Tail(pc)
    /\ UNCHANGED <<sent, data, read, index>>

\* handle_jobstatus_delete_by_id_list reads no more row ids than have come.
ReadIds ==
    LET count == read[Len(read)]
        n == IF count < Remaining \div 8 THEN count ELSE Remaining \div 8
    IN
    /\ verdict = "reading" /\ pc # <<>> /\ Step = RowIds
    /\ read' = read \o [i \in 1..n |-> FromLeBytes(SubSeq(data, index + 8 * i - 7,
                                                               index + 8 * i))]
    /\ index' = index + 8 * n
    /\ pc' = Tail(pc)
    /\ UNCHANGED <<sent, data, verdict>>

\* The handler goes on to the database with what it has read.
Accept ==
    /\ verdict = "reading" /\ pc = <<>>
    /\ verdict' = "accepted"
    /\ UNCHANGED <<sent, data, index, pc, read>>

WireNext == ReadHeader \/ ReadNumber \/ ReadString \/ TestRemaining \/ ReadIds
            \/ Accept

WireSpec == WireInit /\ [][WireNext]_messageVars

-----------------------------------------------------------------------------
(* Properties                                                              *)

\* The fields of a message that its tests protect: all of them, but for
\* what follows the first string of a row to be saved, and the first number
\* of a report.
Guarded(m) ==
    CASE m.id \in {DB_JOB_SAVE, DB_JOBSTATUS_SAVE, DB_BUNDLE_CREATE_OR_UPDATE_JOB} ->
           {i \in 1..Len(Values(m)) : \A j \in 3..(i - 1) : Types(m)[j] # "string"}
      [] m.id = UPDATE_JOB -> 1..3
      [] OTHER -> 1..Len(Values(m))

\* A message that has come whole is read as it was sent, to the last byte,
\* and wherever it was cut, a message that is acted on has the request id,
\* the row ids and the keys that were sent, so that no response goes to the
\* wrong request and no row but those named is touched.  A list of rows to
\* delete may lose its end.
ReadAsSent ==
    /\ data = Encode(sent) /\ verdict # "reading" =>
          verdict = "accepted" /\ read = Values(sent) /\ Remaining = 0
    /\ verdict = "accepted" =>
          \A i \in Guarded(sent) :
             \/ sent.id = DB_JOBSTATUS_DELETE_BY_ID_LIST /\ i > Len(read)
             \/ read[i] = Values(sent)[i]

\* cluster_db.rs:397-401, of DB_JOB_SAVE: "If fewer remain, the message is
\* truncated; drop it rather than recording a corrupted row with defaulted
\* string fields"; likewise of DB_BUNDLE_CREATE_OR_UPDATE_JOB and UPDATE_JOB.
NoDefaultedString ==
    verdict = "accepted" =>
       \A i \in 3..Len(Types(sent)) :
          Types(sent)[i] = "string" /\ Values(sent)[i] # <<>> => read[i] # <<>>

=============================================================================
