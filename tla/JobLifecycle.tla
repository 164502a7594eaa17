----------------------------- MODULE JobLifecycle -----------------------------
(***************************************************************************)
(* The life of a job between the HTTP API, the database, the outbound      *)
(* queue and the remote cluster: create_job, cancel_job and delete_job of  *)
(* src/src/src/http/job.rs, and handle_update_job and run_resend of        *)
(* src/src/src/cluster/cluster.rs, for the jobs of one master cluster.     *)
(*                                                                         *)
(* A step is one database access, one message queued or one check of       *)
(* is_online.  HTTP requests may be dropped at any await, messages may be  *)
(* lost, inserts may fail, and the controller may crash: the database is   *)
(* all that survives.                                                      *)
(*                                                                         *)
(* The statuses of JobStatus that every test in the code treats alike are  *)
(* one: "Active" stands for Submitted, Queued and Running, and "Finished"  *)
(* for Completed, Error, WallTimeExceeded and OutOfMemory.                 *)
(***************************************************************************)
EXTENDS Naturals, Sequences, FiniteSets

CONSTANTS
    Jobs,       \* ids of the jobs of the cluster
    WideJobs,   \* those that exceed the u32 of the wire
    Requests,   \* concurrent HTTP requests to cancel or to delete
    NoJob,      \* a request that is not being served
    Updater,    \* the read loop that runs handle_update_job
    MaxQueue,   \* bound: messages of a job in the queue
    MaxReports, \* bound: reports of a job under way
    MaxFaults   \* bound: connections lost and crashes of the controller

ASSUME WideAssumption == WideJobs \subseteq Jobs
ASSUME WriterAssumption ==
    /\ NoJob \notin Jobs
    /\ Updater \notin Jobs \cup Requests
    /\ Jobs \cap Requests = {}
ASSUME BoundAssumption ==
    MaxQueue \in Nat /\ MaxReports \in Nat /\ MaxFaults \in Nat

VARIABLES
    latest,  \* the state of the latest history row of each job
    stamped, \* who has taken a time stamp, for rows newer than the latest
    cpc,     \* where create_job is, for each job
    rpc,     \* where each request is
    rjob,    \* the job it is about
    rrow,    \* the state it is going to record
    rsend,   \* whether it found the cluster online
    pass,    \* the message the resend task is looking for
    todo,    \* the jobs it has yet to resend, or NoScan
    wire,    \* messages on their way to the cluster, in two queues per job
    up,      \* reports on their way back
    upd,     \* the report handle_update_job is recording
    online,  \* is_online
    remote,  \* the job at the cluster
    queued,  \* history: the jobs whose submission was ever queued
    heard,   \* history: those that came to the cluster
    faults   \* connections lost and crashes so far

rowVars     == <<latest, stamped>>
requestVars == <<rpc, rjob, rrow, rsend>>
resendVars  == <<pass, todo>>
remoteVars  == <<remote, heard>>
queueVars   == <<wire, queued>>

vars == <<rowVars, cpc, requestVars, resendVars, queueVars, up, upd, online,
          remoteVars, faults>>

JobStates == {"Pending", "Submitting", "Active", "Cancelling", "Cancelled",
              "Deleting", "Deleted", "Finished"}
NoRow     == "none"
Malformed == "malformed"   \* a report that is truncated or has no JobStatus
\* What a cluster reports of a job that it knows.  handle_update_job would also
\* take the four states that only the controller gives a job.
Reports   == {"Active", "Cancelled", "Deleted", "Finished"}
Messages  == {"SUBMIT", "CANCEL", "DELETE"}
Writers   == Jobs \cup Requests \cup {Updater}

\* create_job and the requests queue under the source of the job.  The resend
\* task does not: send_message_internal queues under the empty source.
Lanes == {"job", "resend"}

\* The resend task has not looked at the database yet.
NoScan == {NoJob}

-----------------------------------------------------------------------------
(* Types and the initial state                                             *)

TypeOK ==
    /\ latest \in [Jobs -> JobStates \cup {NoRow}]
    /\ stamped \in [Jobs -> Seq(Writers)]
    /\ cpc \in [Jobs -> {"idle", "created", "send", "stamp", "insert", "done"}]
    /\ rpc \in [Requests -> {"idle", "loaded", "insert", "send"}]
    /\ rjob \in [Requests -> Jobs \cup {NoJob}]
    /\ rrow \in [Requests -> {"Cancelled", "Cancelling", "Deleted", "Deleting", NoRow}]
    /\ rsend \in [Requests -> BOOLEAN]
    /\ \A r \in Requests : rpc[r] # "idle" => rjob[r] # NoJob /\ rrow[r] # NoRow
    /\ pass \in Messages
    /\ todo = NoScan \/ todo \subseteq Jobs
    /\ wire \in [Jobs -> [Lanes -> Seq(Messages)]]
    /\ up \in [Jobs -> Seq(Reports \cup {Malformed})]
    /\ upd \in (Jobs \X Reports) \cup {<<>>}
    /\ online \in BOOLEAN
    /\ remote \in [Jobs -> {"unknown", "live", "ended", "gone"}]
    /\ queued \subseteq Jobs
    /\ heard \in [Jobs -> SUBSET Messages]
    /\ faults \in 0..MaxFaults

Init ==
    /\ latest = [j \in Jobs |-> NoRow]
    /\ stamped = [j \in Jobs |-> <<>>]
    /\ cpc = [j \in Jobs |-> "idle"]
    /\ rpc = [r \in Requests |-> "idle"]
    /\ rjob = [r \in Requests |-> NoJob]
    /\ rrow = [r \in Requests |-> NoRow]
    /\ rsend = [r \in Requests |-> FALSE]
    /\ pass = "SUBMIT" /\ todo = NoScan
    /\ wire = [j \in Jobs |-> [l \in Lanes |-> <<>>]]
    /\ up = [j \in Jobs |-> <<>>]
    /\ upd = <<>>
    /\ online = FALSE
    /\ remote = [j \in Jobs |-> "unknown"]
    /\ queued = {}
    /\ heard = [j \in Jobs |-> {}]
    /\ faults = 0

-----------------------------------------------------------------------------
(* Rows and messages                                                       *)

IsStamped(j, w) == \E i \in DOMAIN stamped[j] : stamped[j][i] = w

Position(j, w) == CHOOSE i \in DOMAIN stamped[j] : stamped[j][i] = w

OlderThan(j, w) == SubSeq(stamped[j], 1, Position(j, w) - 1)
NewerThan(j, w) == SubSeq(stamped[j], Position(j, w) + 1, Len(stamped[j]))

\* Utc::now, for the row w is about to insert
Stamp(j, w) == stamped' = [stamped EXCEPT ![j] = Append(@, w)]

\* The insertion.  The row is the latest one unless a row with a newer stamp
\* was inserted before; equal stamps are ordered by id, as distinct ones are.
InsertRow(j, w, s) ==
    IF IsStamped(j, w)
      THEN /\ latest' = [latest EXCEPT ![j] = s]
           /\ stamped' = [stamped EXCEPT ![j] = NewerThan(j, w)]
      ELSE UNCHANGED rowVars

\* The writer has gone, or its insertion has failed.
NoInsert(w) ==
    /\ stamped' = [j \in Jobs |-> IF IsStamped(j, w)
                                   THEN OlderThan(j, w) \o NewerThan(j, w)
                                   ELSE stamped[j]]
    /\ UNCHANGED latest

\* queue_message, under one of the sources
Queue(j, l, m) ==
    /\ Len(wire[j]["job"]) + Len(wire[j]["resend"]) < MaxQueue
    /\ wire' = [wire EXCEPT ![j][l] = Append(@, m)]
    /\ queued' = IF m = "SUBMIT" THEN queued \cup {j} ELSE queued

-----------------------------------------------------------------------------
(* create_job                                                              *)

CreateGoto(j, s) == cpc' = [cpc EXCEPT ![j] = s]

\* One transaction inserts the job and its first row.
CreateJob(j) ==
    /\ cpc[j] = "idle"
    /\ CreateGoto(j, "created")
    /\ latest' = [latest EXCEPT ![j] = "Pending"]
    /\ UNCHANGED <<stamped, requestVars, resendVars, queueVars, up, upd, online,
                   remoteVars, faults>>

\* The cluster is offline, or the id does not fit and the rows are deleted
\* (an error is ignored), or the submission is sent.
CreateCheck(j) ==
    /\ cpc[j] = "created"
    /\ \/ ~online /\ CreateGoto(j, "done") /\ UNCHANGED latest
       \/ /\ online /\ j \in WideJobs
          /\ CreateGoto(j, "done")
          /\ latest' = [latest EXCEPT ![j] = NoRow] \/ UNCHANGED latest
       \/ /\ online /\ j \notin WideJobs
          /\ CreateGoto(j, "send") /\ UNCHANGED latest
    /\ UNCHANGED <<stamped, requestVars, resendVars, queueVars, up, upd, online,
                   remoteVars, faults>>

\* Mutant of CreateSend: the row goes first and the message is forgotten.
CreateSendNot(j) ==
    /\ cpc[j] = "send"
    /\ CreateGoto(j, "stamp")
    /\ UNCHANGED <<rowVars, requestVars, resendVars, queueVars, up, upd, online,
                   remoteVars, faults>>

CreateSend(j) ==
    /\ cpc[j] = "send"
    /\ CreateGoto(j, "stamp")
    /\ Queue(j, "job", "SUBMIT")
    /\ UNCHANGED <<rowVars, requestVars, resendVars, up, upd, online, remoteVars,
                   faults>>

CreateStamp(j) ==
    /\ cpc[j] = "stamp"
    /\ CreateGoto(j, "insert")
    /\ Stamp(j, j)
    /\ UNCHANGED <<latest, requestVars, resendVars, queueVars, up, upd, online,
                   remoteVars, faults>>

\* Mutant of CreateInsert: what was queued counts as submitted.
CreateInsertActive(j) ==
    /\ cpc[j] = "insert"
    /\ CreateGoto(j, "done")
    /\ InsertRow(j, j, "Active") \/ NoInsert(j)
    /\ UNCHANGED <<requestVars, resendVars, queueVars, up, upd, online, remoteVars,
                   faults>>

\* The row "Submitting"; an error is only logged.
CreateInsert(j) ==
    /\ cpc[j] = "insert"
    /\ CreateGoto(j, "done")
    /\ InsertRow(j, j, "Submitting") \/ NoInsert(j)
    /\ UNCHANGED <<requestVars, resendVars, queueVars, up, upd, online, remoteVars,
                   faults>>

\* The client leaves and the handler is dropped.
CreateDropped(j) ==
    /\ cpc[j] \in {"created", "send", "stamp", "insert"}
    /\ CreateGoto(j, "done")
    /\ NoInsert(j)
    /\ UNCHANGED <<requestVars, resendVars, queueVars, up, upd, online, remoteVars,
                   faults>>

CreateStep(j) ==
    CreateCheck(j) \/ CreateSend(j) \/ CreateStamp(j) \/ CreateInsert(j)

-----------------------------------------------------------------------------
(* cancel_job and delete_job                                               *)

InvalidStates(m) ==
    IF m = "CANCEL"
      THEN {"Cancelling", "Cancelled", "Deleting", "Deleted", "Finished"}
      ELSE {"Submitting", "Active", "Cancelling", "Deleting", "Deleted"}

\* The row of a request that has read state s: a job that is still Pending is
\* cancelled or deleted at once.
NewState(m, s) ==
    IF m = "CANCEL"
      THEN IF s = "Pending" THEN "Cancelled" ELSE "Cancelling"
      ELSE IF s = "Pending" THEN "Deleted" ELSE "Deleting"

\* The message that goes with an intermediate state
WireMessage(s) == IF s = "Cancelling" THEN "CANCEL" ELSE "DELETE"

RequestIdle(r) ==
    /\ rpc' = [rpc EXCEPT ![r] = "idle"]
    /\ rjob' = [rjob EXCEPT ![r] = NoJob]
    /\ rrow' = [rrow EXCEPT ![r] = NoRow]
    /\ rsend' = [rsend EXCEPT ![r] = FALSE]

\* load_job_for_transition; any other request is rejected.
RequestLoad(r) ==
    /\ rpc[r] = "idle"
    /\ \E j \in Jobs \ WideJobs, m \in {"CANCEL", "DELETE"} :
         /\ latest[j] # NoRow /\ latest[j] \notin InvalidStates(m)
         /\ rpc' = [rpc EXCEPT ![r] = "loaded"]
         /\ rjob' = [rjob EXCEPT ![r] = j]
         /\ rrow' = [rrow EXCEPT ![r] = NewState(m, latest[j])]
    /\ UNCHANGED <<rowVars, cpc, rsend, resendVars, queueVars, up, upd, online,
                   remoteVars, faults>>

\* record_job_transition decides whether to send, and stamps its row.
RequestDecide(r) ==
    /\ rpc[r] = "loaded"
    /\ rpc' = [rpc EXCEPT ![r] = "insert"]
    /\ rsend' = [rsend EXCEPT ![r] = rrow[r] \in {"Cancelling", "Deleting"} /\ online]
    /\ Stamp(rjob[r], r)
    /\ UNCHANGED <<latest, cpc, rjob, rrow, resendVars, queueVars, up, upd,
                   online, remoteVars, faults>>

\* The row is inserted, or the request fails.
RequestInsert(r) ==
    /\ rpc[r] = "insert"
    /\ \/ /\ InsertRow(rjob[r], r, rrow[r])
          /\ rpc' = [rpc EXCEPT ![r] = "send"]
          /\ UNCHANGED <<rjob, rrow, rsend>>
       \/ NoInsert(r) /\ RequestIdle(r)
    /\ UNCHANGED <<cpc, resendVars, queueVars, up, upd, online, remoteVars, faults>>

\* The message follows its row.
RequestSend(r) ==
    /\ rpc[r] = "send"
    /\ RequestIdle(r)
    /\ IF rsend[r] THEN Queue(rjob[r], "job", WireMessage(rrow[r]))
                    ELSE UNCHANGED queueVars
    /\ UNCHANGED <<rowVars, cpc, resendVars, up, upd, online, remoteVars,
                   faults>>

\* The client leaves and the handler is dropped.
RequestDropped(r) ==
    /\ rpc[r] # "idle"
    /\ RequestIdle(r)
    /\ NoInsert(r)
    /\ UNCHANGED <<cpc, resendVars, queueVars, up, upd, online, remoteVars, faults>>

RequestStep(r) == RequestDecide(r) \/ RequestInsert(r) \/ RequestSend(r)

-----------------------------------------------------------------------------
(* run_resend                                                              *)

ResendStates(m) ==
    CASE m = "SUBMIT" -> {"Pending", "Submitting"}
      [] m = "CANCEL" -> {"Cancelling"}
      [] m = "DELETE" -> {"Deleting"}

NextPass == CASE pass = "SUBMIT" -> "CANCEL"
              [] pass = "CANCEL" -> "DELETE"
              [] pass = "DELETE" -> "SUBMIT"

\* check_resend_jobs has a list; with an empty one the pass is over and the next
\* one begins, after the interval if it is the first.
Resend(list) ==
    IF list = {} THEN pass' = NextPass /\ todo' = NoScan
                 ELSE todo' = list /\ UNCHANGED pass

\* Mutant of ResendScan: jobs that are not Submitting yet are left out.
ResendScanLate ==
    /\ todo = NoScan
    /\ \/ ~online /\ Resend({})
       \/ online /\ \E old \in SUBSET Jobs :
            Resend({j \in old : latest[j] \in ResendStates(pass) \ {"Pending"}})
    /\ UNCHANGED <<rowVars, cpc, requestVars, queueVars, up, upd, online,
                   remoteVars, faults>>

\* The latest rows are read: those in the states of the pass that are older
\* than the cutoff, whichever these are by now, or none if the query fails.
ResendScan ==
    /\ todo = NoScan
    /\ \/ ~online /\ Resend({})
       \/ online /\ \E old \in SUBSET Jobs :
            Resend({j \in old : latest[j] \in ResendStates(pass)})
    /\ UNCHANGED <<rowVars, cpc, requestVars, queueVars, up, upd, online,
                   remoteVars, faults>>

\* What was read is sent, whatever has changed since.
ResendSend(j) ==
    /\ todo # NoScan /\ j \in todo
    /\ Resend(todo \ {j})
    /\ IF j \in WideJobs THEN UNCHANGED queueVars ELSE Queue(j, "resend", pass)
    /\ UNCHANGED <<rowVars, cpc, requestVars, up, upd, online, remoteVars, faults>>

ResendStep == ResendScan \/ \E j \in Jobs : ResendSend(j)

-----------------------------------------------------------------------------
(* handle_update_job                                                       *)

\* A report comes in and its row is stamped.
UpdateStamp(j) ==
    /\ upd = <<>> /\ up[j] # <<>> /\ online
    /\ Head(up[j]) # Malformed
    /\ upd' = <<j, Head(up[j])>>
    /\ up' = [up EXCEPT ![j] = Tail(@)]
    /\ Stamp(j, Updater)
    /\ UNCHANGED <<latest, cpc, requestVars, resendVars, queueVars, online,
                   remoteVars, faults>>

\* A malformed report is dropped.
UpdateReject(j) ==
    /\ upd = <<>> /\ up[j] # <<>> /\ online
    /\ Head(up[j]) = Malformed
    /\ up' = [up EXCEPT ![j] = Tail(@)]
    /\ UNCHANGED <<rowVars, cpc, requestVars, resendVars, queueVars, upd, online,
                   remoteVars, faults>>

\* The row is inserted; an error is only logged.
UpdateInsert ==
    /\ upd # <<>>
    /\ upd' = <<>>
    /\ InsertRow(upd[1], Updater, upd[2]) \/ NoInsert(Updater)
    /\ UNCHANGED <<cpc, requestVars, resendVars, queueVars, up, online, remoteVars,
                   faults>>

-----------------------------------------------------------------------------
(* The connection and the remote cluster                                   *)

ClusterConnects ==
    /\ ~online /\ online' = TRUE
    /\ UNCHANGED <<rowVars, cpc, requestVars, resendVars, queueVars, up, upd,
                   remoteVars, faults>>

ConnectionLost ==
    /\ online /\ faults < MaxFaults
    /\ online' = FALSE /\ faults' = faults + 1
    /\ UNCHANGED <<rowVars, cpc, requestVars, resendVars, queueVars, up, upd,
                   remoteVars>>

\* The scheduler has no connection, or a dead one.
LoseMessage(j, l) ==
    /\ wire[j][l] # <<>>
    /\ wire' = [wire EXCEPT ![j][l] = Tail(@)]
    /\ UNCHANGED <<rowVars, cpc, requestVars, resendVars, queued, up, upd, online,
                   remoteVars, faults>>

\* The cluster reports s about j, or the report is lost.
Report(j, s) ==
    \/ UNCHANGED up
    \/ Len(up[j]) < MaxReports /\ up' = [up EXCEPT ![j] = Append(@, s)]

\* The cluster obeys, and answers a message about a job in any state.
Deliver(j, l) ==
    /\ wire[j][l] # <<>> /\ online
    /\ wire' = [wire EXCEPT ![j][l] = Tail(@)]
    /\ LET m == Head(wire[j][l]) IN
         /\ heard' = [heard EXCEPT ![j] = @ \cup {m}]
         /\ \/ /\ m = "SUBMIT" /\ remote[j] = "unknown"
               /\ remote' = [remote EXCEPT ![j] = "live"]
               /\ Report(j, "Active")
            \/ /\ m = "SUBMIT" /\ remote[j] # "unknown"
               /\ UNCHANGED <<remote, up>>
            \/ /\ m = "CANCEL"
               /\ remote' = [remote EXCEPT ![j] = IF @ = "live" THEN "ended" ELSE @]
               /\ Report(j, "Cancelled")
            \/ /\ m = "DELETE"
               /\ remote' = [remote EXCEPT ![j] = IF @ = "unknown" THEN @ ELSE "gone"]
               /\ Report(j, "Deleted")
    /\ UNCHANGED <<rowVars, cpc, requestVars, resendVars, queued, upd, online, faults>>

\* A job proceeds: the report of one of its steps, or of its end.
RemoteProceeds(j) ==
    /\ remote[j] = "live"
    /\ \/ \E s \in {"Active", "Finished", Malformed} : Report(j, s) /\ UNCHANGED remote
       \/ remote' = [remote EXCEPT ![j] = "ended"] /\ Report(j, "Finished")
    /\ UNCHANGED <<rowVars, cpc, requestVars, resendVars, queueVars, upd, online, heard,
                   faults>>

\* The process dies with all handlers, queues and connections, and starts again.
Crash ==
    /\ faults < MaxFaults
    /\ faults' = faults + 1
    /\ cpc' = [j \in Jobs |-> IF cpc[j] = "idle" THEN "idle" ELSE "done"]
    /\ rpc' = [r \in Requests |-> "idle"]
    /\ rjob' = [r \in Requests |-> NoJob]
    /\ rrow' = [r \in Requests |-> NoRow]
    /\ rsend' = [r \in Requests |-> FALSE]
    /\ stamped' = [j \in Jobs |-> <<>>]
    /\ pass' = "SUBMIT" /\ todo' = NoScan
    /\ wire' = [j \in Jobs |-> [l \in Lanes |-> <<>>]]
    /\ up' = [j \in Jobs |-> <<>>]
    /\ upd' = <<>> /\ online' = FALSE
    /\ UNCHANGED <<latest, queued, remoteVars>>

-----------------------------------------------------------------------------
(* The specification                                                       *)

Next ==
    \/ \E j \in Jobs :
         \/ CreateJob(j) \/ CreateStep(j) \/ CreateDropped(j)
         \/ UpdateStamp(j) \/ UpdateReject(j) \/ RemoteProceeds(j)
         \/ \E l \in Lanes : LoseMessage(j, l) \/ Deliver(j, l)
    \/ \E r \in Requests : RequestLoad(r) \/ RequestStep(r) \/ RequestDropped(r)
    \/ ResendStep \/ UpdateInsert \/ ClusterConnects \/ ConnectionLost \/ Crash

Spec == Init /\ [][Next]_vars

\* The scan of one pass, with a connection, a database that answers, and rows
\* that are old enough
ScanSucceeds(m) ==
    /\ pass = m /\ online /\ ResendScan
    /\ Resend({j \in Jobs : latest[j] \in ResendStates(m)})

Delivers(j, l, m) == wire[j][l] # <<>> /\ Head(wire[j][l]) = m /\ Deliver(j, l)

\* Tokio runs the tasks and time passes; the cluster reconnects, and stays
\* after the last of the faults.  The database does not refuse every scan for
\* a message, nor is the message itself lost every time.
Fairness ==
    /\ \A j \in Jobs : WF_vars(CreateStep(j))
    /\ \A j \in Jobs \ WideJobs, m \in Messages :
         SF_vars(\E l \in Lanes : Delivers(j, l, m))
    /\ \A r \in Requests : WF_vars(RequestStep(r))
    /\ WF_vars(ResendStep) /\ WF_vars(UpdateInsert)
    /\ WF_vars(ClusterConnects)
    /\ \A m \in Messages : SF_vars(ScanSucceeds(m))

FairSpec == Spec /\ Fairness

-----------------------------------------------------------------------------
(* Properties                                                              *)

\* Until the cluster has been told of a job, its history does not say that it
\* has: the job stays in a state that the resend task acts upon, or that a
\* user has put it in, through lost messages, dropped requests and faults.
NotForgotten ==
    \A j \in Jobs : latest[j] \in {"Active", "Finished"} => "SUBMIT" \in heard[j]

\* A cancellation goes only to a cluster to which the submission of the job has
\* gone: one that finds the job Pending stays with the controller.
CancelFollowsSubmit ==
    \A j \in Jobs \ queued :
        /\ "CANCEL" \notin heard[j]
        /\ \A l \in Lanes : \A i \in DOMAIN wire[j][l] : wire[j][l][i] # "CANCEL"

\* The job waits to be submitted, cancelled or deleted, and the cluster has
\* not been told.
Waiting(j) ==
    \E m \in Messages : latest[j] \in ResendStates(m) /\ m \notin heard[j]

\* No job waits for ever: whatever was lost, dropped or has crashed, the cluster
\* is told in the end, or the job no longer asks for it.
CarriedOut == \A j \in Jobs \ WideJobs : Waiting(j) ~> ~Waiting(j)

-----------------------------------------------------------------------------
(* Statements of the repository that the code does not meet                *)

\* types.rs:19 - Cancelled: "Job was cancelled before completion"
CancelledIsNotLive ==
    \A j \in Jobs : latest[j] = "Cancelled" => remote[j] # "live"

\* README.md:336 - "DELETE - Delete Job": "Job must not be in running state."
DeletingIsNotLive ==
    \A j \in Jobs : latest[j] = "Deleting" => remote[j] # "live"

\* job.rs:575 - cancel_job fails if "Job state does not allow cancellation":
\* the state its row replaces is one that allows it.
CancelWasAllowed ==
    [][\A j \in Jobs :
         latest'[j] # latest[j] /\ latest'[j] = "Cancelling"
             => latest[j] \notin InvalidStates("CANCEL")]_vars

\* job.rs:227 - rows of a job whose id exceeds the wire are removed, so that
\* there is "no never-submitted job left behind".
NoOrphan ==
    \A j \in WideJobs : cpc[j] = "done" => latest[j] = NoRow

\* cluster.rs:1134 - the resend takes the latest row "so a recent terminal state
\* (e.g. Completed) is not hidden by an older stale row".
FinishedIsNotHidden ==
    [][\A j \in Jobs : latest[j] = "Finished" => latest'[j] # "Submitting"]_vars

=============================================================================
