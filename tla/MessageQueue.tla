---------------------------- MODULE MessageQueue ----------------------------
(***************************************************************************)
(* The outbound queue of one cluster and its background tasks, `Cluster`   *)
(* of src/src/src/cluster/cluster.rs:                                      *)
(*                                                                         *)
(*   - producers call queue_message, at a priority and for a source;       *)
(*   - the scheduler sends round by round, one message per source, and     *)
(*     starts over when data of a higher priority has come in;             *)
(*   - the pruner removes the sources whose queue is empty;                *)
(*   - an upload waits in wait_for_queue_drain;                            *)
(*   - stop and terminate_download_tasks end the tasks.                    *)
(*                                                                         *)
(* A message is a number, in the order of the calls of queue_message, and  *)
(* counts as one unit of queued_message_size.  A priority is its rank: 0   *)
(* is Highest.  What happens under one hold of a level's RwLock is one     *)
(* step, except that the scheduler visits the sources of a round one by    *)
(* one: whatever a producer adds to the level in between could as well     *)
(* have been added before the round or after the visit.                    *)
(***************************************************************************)
EXTENDS Integers, Sequences, FiniteSets

CONSTANTS
    Sources,     \* message sources: "" and the session UUIDs
    Top,         \* the rank of Priority::Lowest
    MaxBuffer,   \* MAX_FILE_BUFFER_SIZE
    MinBuffer,   \* MIN_FILE_BUFFER_SIZE
    DrainCalls,  \* the arguments wait_for_queue_drain is called with: none but
                 \* for the cluster of an upload
    MaxMessages, \* bound: calls of queue_message in a behaviour
    MaxSwitches  \* bound: changes of the connection in a behaviour

ASSUME TopAssumption == Top \in Nat
ASSUME BufferAssumption ==
    MinBuffer \in Nat /\ MaxBuffer \in Nat /\ MinBuffer <= MaxBuffer
ASSUME DrainAssumption == DrainCalls \subseteq BOOLEAN
ASSUME BoundsAssumption == MaxMessages \in Nat /\ MaxSwitches \in Nat

VARIABLES
    queue,      \* the VecDeque of each level and source
    keys,       \* the sources that have an entry in the HashMap of a level
    size,       \* queued_message_size
    dataPermit, \* the stored permit of data_notify
    sizePermit, \* the stored permit of queue_size_notify
    running,    \* the AtomicBool
    conn,       \* the watched connection: none, open, or its receiver is gone
    pc,         \* where the scheduler is
    level,      \* the level it works on
    left,       \* the sources it has yet to visit in this round
    had,        \* had_data_this_round
    source,     \* the source it has last served
    held,       \* the message it has taken out
    peek,       \* the level has_higher_priority_data looks at next
    pruner,     \* where the pruner is
    pruneLevel, \* and the level it prunes next
    drain,      \* where the caller of wait_for_queue_drain is
    forEmpty,   \* its wait_for_empty
    mark,       \* history: the messages queued when it called
    switches,   \* history: the changes of the connection
    count,      \* history: the number of calls of queue_message
    delivered,  \* history: the messages handed to an open connection
    overtaken   \* history: how often a lower priority has gone first

queueVars == <<queue, keys, size, dataPermit, sizePermit>>
schedVars == <<pc, level, left, had, source, held, peek>>
pruneVars == <<pruner, pruneLevel>>
drainVars == <<drain, forEmpty, mark>>
histVars  == <<switches, count, delivered, overtaken>>

vars == <<queueVars, running, conn, schedVars, pruneVars, drainVars, histVars>>

Levels   == 0..Top
Messages == 1..MaxMessages

\* No message
None == 0

-----------------------------------------------------------------------------
(* Types and the initial state                                             *)

TypeOK ==
    /\ queue \in [Levels -> [Sources -> Seq(Messages)]]
    /\ keys \in [Levels -> SUBSET Sources]
    /\ size \in Int
    /\ dataPermit \in BOOLEAN /\ sizePermit \in BOOLEAN
    /\ running \in BOOLEAN
    /\ conn \in {"none", "open", "broken"}
    /\ pc \in {"check", "enter", "wait", "woken", "start", "round", "send", "peek",
               "exited"}
    /\ level \in Levels
    /\ left \subseteq Sources
    /\ had \in BOOLEAN
    /\ source \in Sources
    /\ held \in Messages \cup {None}
    /\ peek \in Levels
    /\ pruner \in {"asleep", "pruning", "exited"}
    /\ pruneLevel \in Levels
    /\ drain \in {"idle", "waiting", "woken", "timeout", "drained"}
    /\ forEmpty \in BOOLEAN
    /\ mark \in 0..MaxMessages
    /\ switches \in 0..MaxSwitches
    /\ count \in 0..MaxMessages
    /\ delivered \subseteq Messages
    /\ overtaken \in [Messages -> Nat]

\* new_with_role and start_tasks
Init ==
    /\ queue = [p \in Levels |-> [s \in Sources |-> <<>>]]
    /\ keys = [p \in Levels |-> {}]
    /\ size = 0 /\ dataPermit = FALSE /\ sizePermit = FALSE
    /\ running = TRUE /\ conn = "none"
    /\ pc = "check" /\ level = 0 /\ left = {} /\ had = FALSE
    /\ source \in Sources /\ held = None /\ peek = 0
    /\ pruner = "asleep" /\ pruneLevel = 0
    /\ drain = "idle" /\ forEmpty = FALSE /\ mark = 0
    /\ switches = 0 /\ count = 0 /\ delivered = {}
    /\ overtaken = [m \in Messages |-> 0]

-----------------------------------------------------------------------------
(* Producers and the connection                                            *)

HasData(p, s) == queue[p][s] # <<>>

\* Mutant of QueueMessage: the scheduler is woken only if it is waiting.
QueueMessageUnstored(p, s) ==
    /\ count < MaxMessages
    /\ count' = count + 1
    /\ queue' = [queue EXCEPT ![p][s] = Append(@, count + 1)]
    /\ keys' = [keys EXCEPT ![p] = @ \cup {s}]
    /\ size' = size + 1
    /\ dataPermit' = (dataPermit \/ pc = "wait")
    /\ UNCHANGED <<sizePermit, running, conn, schedVars, pruneVars, drainVars,
                   switches, delivered, overtaken>>

\* Mutant of QueueMessage: the message goes to the front of its queue.
QueueMessageFront(p, s) ==
    /\ count < MaxMessages
    /\ count' = count + 1
    /\ queue' = [queue EXCEPT ![p][s] = <<count + 1>> \o @]
    /\ keys' = [keys EXCEPT ![p] = @ \cup {s}]
    /\ size' = size + 1
    /\ dataPermit' = TRUE
    /\ UNCHANGED <<sizePermit, running, conn, schedVars, pruneVars, drainVars,
                   switches, delivered, overtaken>>

\* queue_message: append, account, notify_one.
QueueMessage(p, s) ==
    /\ count < MaxMessages
    /\ count' = count + 1
    /\ queue' = [queue EXCEPT ![p][s] = Append(@, count + 1)]
    /\ keys' = [keys EXCEPT ![p] = @ \cup {s}]
    /\ size' = size + 1
    /\ dataPermit' = TRUE
    /\ UNCHANGED <<sizePermit, running, conn, schedVars, pruneVars, drainVars,
                   switches, delivered, overtaken>>

\* set_connection and close install and clear the sender; the forwarder that
\* holds the receiving end may go away before that.
SetConnection ==
    /\ switches < MaxSwitches /\ switches' = switches + 1
    /\ \/ conn = "none" /\ conn' = "open"
       \/ conn = "open" /\ conn' \in {"none", "broken"}
       \/ conn = "broken" /\ conn' \in {"none", "open"}
    /\ UNCHANGED <<queueVars, running, schedVars, pruneVars, drainVars, count,
                   delivered, overtaken>>

-----------------------------------------------------------------------------
(* run_scheduler                                                           *)

\* The head of the outer loop
SchedCheck ==
    /\ pc = "check"
    /\ pc' = IF running THEN "enter" ELSE "exited"
    /\ UNCHANGED <<queueVars, running, conn, level, left, had, source, held, peek,
                   pruneVars, drainVars, histVars>>

\* data_notify.notified() registers the scheduler as a waiter.
SchedWait ==
    /\ pc = "enter"
    /\ pc' = "wait"
    /\ UNCHANGED <<queueVars, running, conn, level, left, had, source, held, peek,
                   pruneVars, drainVars, histVars>>

\* data_notify.notified() returns, and running is checked again.
SchedWake ==
    /\ \/ pc = "wait" /\ dataPermit /\ dataPermit' = FALSE
       \/ pc = "woken" /\ UNCHANGED dataPermit
    /\ pc' = IF running THEN "start" ELSE "exited"
    /\ level' = 0
    /\ UNCHANGED <<queue, keys, size, sizePermit, running, conn, left, had,
                   source, held, peek, pruneVars, drainVars, histVars>>

\* A round: the keys of the level, to be visited in the order of the HashMap.
StartRound ==
    /\ pc = "start"
    /\ pc' = "round" /\ left' = keys[level] /\ had' = FALSE
    /\ UNCHANGED <<queueVars, running, conn, level, source, held, peek, pruneVars,
                   drainVars, histVars>>

\* A source without data is passed over; it may have been pruned meanwhile.
SkipSource(s) ==
    /\ pc = "round" /\ s \in left /\ ~HasData(level, s)
    /\ left' = left \ {s}
    /\ UNCHANGED <<queueVars, running, conn, pc, level, had, source, held, peek,
                   pruneVars, drainVars, histVars>>

\* The history of overtaking: a message is taken from the current level
\* while others of higher levels are queued.
Queued(m, p, s) == \E i \in 1..Len(queue[p][s]) : queue[p][s][i] = m

OvertakesHigher(m) ==
    \E p \in Levels, s \in Sources : p < level /\ Queued(m, p, s)

\* Mutant of PopSource: waiters are told only while data remains.
PopSourceQuiet(s) ==
    /\ pc = "round" /\ s \in left /\ HasData(level, s)
    /\ pc' = "send" /\ left' = left \ {s} /\ had' = TRUE
    /\ source' = s /\ held' = Head(queue[level][s])
    /\ queue' = [queue EXCEPT ![level][s] = Tail(@)]
    /\ size' = size - 1
    /\ sizePermit' = (sizePermit \/ size > 1)
    /\ overtaken' = [m \in Messages |->
                       overtaken[m] + (IF OvertakesHigher(m) THEN 1 ELSE 0)]
    /\ UNCHANGED <<keys, dataPermit, running, conn, level, peek, pruneVars,
                   drainVars, switches, count, delivered>>

\* pop_front, account, notify_one on queue_size_notify.
PopSource(s) ==
    /\ pc = "round" /\ s \in left /\ HasData(level, s)
    /\ pc' = "send" /\ left' = left \ {s} /\ had' = TRUE
    /\ source' = s /\ held' = Head(queue[level][s])
    /\ queue' = [queue EXCEPT ![level][s] = Tail(@)]
    /\ size' = size - 1
    /\ sizePermit' = TRUE
    /\ overtaken' = [m \in Messages |->
                       overtaken[m] + (IF OvertakesHigher(m) THEN 1 ELSE 0)]
    /\ UNCHANGED <<keys, dataPermit, running, conn, level, peek, pruneVars,
                   drainVars, switches, count, delivered>>

\* The message goes to the forwarder, or is discarded with a warning.
SendHeld ==
    /\ pc = "send"
    /\ pc' = "peek" /\ peek' = 0 /\ held' = None
    /\ delivered' = IF conn = "open" THEN delivered \cup {held} ELSE delivered
    /\ UNCHANGED <<queueVars, running, conn, level, left, had, source, pruneVars,
                   drainVars, switches, count, overtaken>>

\* Mutant of PeekHigher: the level itself is the first one looked at.
PeekHigherSkip ==
    /\ pc = "peek"
    /\ pc' = "round"
    /\ UNCHANGED <<queueVars, running, conn, level, left, had, source, held, peek,
                   pruneVars, drainVars, histVars>>

\* has_higher_priority_data, one level at a time: data makes the scheduler
\* start over, without data the round goes on.
PeekHigher ==
    /\ pc = "peek"
    /\ \/ /\ peek >= level
          /\ pc' = "round" /\ UNCHANGED <<level, peek>>
       \/ /\ peek < level /\ \E s \in Sources : HasData(peek, s)
          /\ pc' = "start" /\ level' = 0 /\ UNCHANGED peek
       \/ /\ peek < level /\ \A s \in Sources : ~HasData(peek, s)
          /\ peek' = peek + 1 /\ UNCHANGED <<pc, level>>
    /\ UNCHANGED <<queueVars, running, conn, left, had, source, held, pruneVars,
                   drainVars, histVars>>

\* Mutant of EndRound: a level gets one round per pass.
EndRoundOnce ==
    /\ pc = "round" /\ left = {}
    /\ \/ level < Top /\ pc' = "start" /\ level' = level + 1
       \/ level = Top /\ pc' = "check" /\ UNCHANGED level
    /\ UNCHANGED <<queueVars, running, conn, left, had, source, held, peek, pruneVars,
                   drainVars, histVars>>

\* Mutant of EndRound: the level after the last one is tried as well.
EndRoundPast ==
    /\ pc = "round" /\ left = {}
    /\ \/ had /\ pc' = "start" /\ UNCHANGED level
       \/ ~had /\ pc' = "start" /\ level' = level + 1
    /\ UNCHANGED <<queueVars, running, conn, left, had, source, held, peek, pruneVars,
                   drainVars, histVars>>

\* Every source was visited: another round after data, else the next level.
EndRound ==
    /\ pc = "round" /\ left = {}
    /\ \/ had /\ pc' = "start" /\ UNCHANGED level
       \/ ~had /\ level < Top /\ pc' = "start" /\ level' = level + 1
       \/ ~had /\ level = Top /\ pc' = "check" /\ UNCHANGED level
    /\ UNCHANGED <<queueVars, running, conn, left, had, source, held, peek, pruneVars,
                   drainVars, histVars>>

SchedStep ==
    \/ SchedCheck \/ SchedWait \/ SchedWake \/ StartRound \/ SendHeld
    \/ PeekHigher \/ EndRound
    \/ \E s \in Sources : SkipSource(s) \/ PopSource(s)

-----------------------------------------------------------------------------
(* run_prune                                                               *)

\* The sleep is over.
PruneWake ==
    /\ pruner = "asleep"
    /\ pruner' = IF running THEN "pruning" ELSE "exited"
    /\ pruneLevel' = 0
    /\ UNCHANGED <<queueVars, running, conn, schedVars, drainVars, histVars>>

\* Mutant of PruneNext: a source goes with the messages it has.
PruneNextAll ==
    /\ pruner = "pruning"
    /\ keys' = [keys EXCEPT ![pruneLevel] = {}]
    /\ queue' = [queue EXCEPT ![pruneLevel] = [s \in Sources |-> <<>>]]
    /\ IF pruneLevel = Top THEN pruner' = "asleep" /\ UNCHANGED pruneLevel
                           ELSE pruneLevel' = pruneLevel + 1 /\ UNCHANGED pruner
    /\ UNCHANGED <<size, dataPermit, sizePermit, running, conn,
                   schedVars, drainVars, histVars>>

\* prune_once on one level; after the last one the pruner sleeps again.
PruneNext ==
    /\ pruner = "pruning"
    /\ keys' = [keys EXCEPT ![pruneLevel] = {s \in @ : HasData(pruneLevel, s)}]
    /\ IF pruneLevel = Top THEN pruner' = "asleep" /\ UNCHANGED pruneLevel
                           ELSE pruneLevel' = pruneLevel + 1 /\ UNCHANGED pruner
    /\ UNCHANGED <<queue, size, dataPermit, sizePermit, running, conn,
                   schedVars, drainVars, histVars>>

PruneStep == PruneWake \/ PruneNext

-----------------------------------------------------------------------------
(* wait_for_queue_drain, called by one upload at a time                     *)

\* drain_target
DrainTarget == IF forEmpty THEN 0 ELSE MinBuffer

\* The call: an early return, or the wait begins.
DrainCall(empty) ==
    /\ empty \in DrainCalls /\ drain \in {"idle", "timeout", "drained"}
    /\ forEmpty' = empty
    /\ mark' = count
    /\ drain' = IF size <= (IF empty THEN 0 ELSE MaxBuffer) THEN "drained"
                                                            ELSE "waiting"
    /\ UNCHANGED <<queueVars, running, conn, schedVars, pruneVars, histVars>>

\* queue_size_notify.notified() returns.
DrainWake ==
    /\ drain = "waiting" /\ sizePermit
    /\ drain' = "woken" /\ sizePermit' = FALSE
    /\ UNCHANGED <<queue, keys, size, dataPermit, running, conn, schedVars,
                   pruneVars, forEmpty, mark, histVars>>

\* Mutant of DrainCheck: the buffer threshold is good enough.
DrainCheckLoose ==
    /\ drain = "woken"
    /\ drain' = IF size <= MinBuffer THEN "drained" ELSE "waiting"
    /\ UNCHANGED <<queueVars, running, conn, schedVars, pruneVars, forEmpty,
                   mark, histVars>>

DrainCheck ==
    /\ drain = "woken"
    /\ drain' = IF size <= DrainTarget THEN "drained" ELSE "waiting"
    /\ UNCHANGED <<queueVars, running, conn, schedVars, pruneVars, forEmpty,
                   mark, histVars>>

\* CLIENT_TIMEOUT_SECONDS have passed.
DrainTimeout ==
    /\ drain = "waiting"
    /\ drain' = IF size <= DrainTarget THEN "drained" ELSE "timeout"
    /\ UNCHANGED <<queueVars, running, conn, schedVars, pruneVars, forEmpty,
                   mark, histVars>>

-----------------------------------------------------------------------------
(* Ending the tasks                                                        *)

\* stop: notify_waiters wakes those who wait now and stores no permit.
Stop ==
    /\ running
    /\ running' = FALSE
    /\ pc' = IF pc = "wait" THEN "woken" ELSE pc
    /\ drain' = IF drain = "waiting" THEN "woken" ELSE drain
    /\ UNCHANGED <<queueVars, conn, level, left, had, source, held, peek, pruneVars,
                   forEmpty, mark, histVars>>

\* Mutant of AbortTasks: only the last handle is aborted.
AbortTasksLast ==
    /\ ~running /\ pruner # "exited"
    /\ pruner' = "exited"
    /\ UNCHANGED <<queueVars, running, conn, schedVars, pruneLevel, drainVars,
                   histVars>>

\* terminate_download_tasks aborts both tasks after stop.  A task is dropped
\* at an await: never between taking a message out and sending it.
AbortTasks ==
    /\ ~running /\ pc # "send" /\ <<pc, pruner>> # <<"exited", "exited">>
    /\ pc' = "exited" /\ pruner' = "exited"
    /\ UNCHANGED <<queueVars, running, conn, level, left, had, source, held, peek,
                   pruneLevel, drainVars, histVars>>

-----------------------------------------------------------------------------
(* The specification                                                       *)

\* Everything but the abort
Work ==
    \/ \E p \in Levels, s \in Sources : QueueMessage(p, s)
    \/ SetConnection
    \/ SchedStep \/ PruneStep
    \/ \E empty \in BOOLEAN : DrainCall(empty)
    \/ DrainWake \/ DrainCheck \/ DrainTimeout
    \/ Stop

Next == Work \/ AbortTasks

Spec == Init /\ [][Next]_vars

\* Tokio polls a task that was woken, and fires its timers.  Nothing is
\* assumed of producers, of the connection or of whoever calls stop.
Fairness ==
    /\ WF_vars(SchedStep)
    /\ WF_vars(PruneStep)
    /\ WF_vars(DrainWake \/ DrainCheck \/ DrainTimeout)

FairSpec == Spec /\ Fairness /\ WF_vars(AbortTasks)

-----------------------------------------------------------------------------
(* Properties                                                              *)

\* No lost wakeup: while the scheduler sleeps and no permit is stored, there
\* is nothing to send, although queue_message notifies at any point of a pass
\* over the levels and permits do not add up.
SleepsOnlyWhenEmpty ==
    pc = "wait" /\ ~dataPermit =>
        \A p \in Levels, s \in Sources : ~HasData(p, s)

\* Preemption: of the messages of lower priority, at most one goes ahead of
\* a message that is already queued.
OvertakenOnce == \A m \in Messages : overtaken[m] <= 1

\* A message that is being sent was queued before everything that is still
\* queued at its level for its source: chunks keep their order.
SourceOrder ==
    pc = "send" =>
        \A i \in 1..Len(queue[level][source]) : queue[level][source][i] > held

\* A waiter in wait_for_queue_drain is not forgotten: without a permit, the
\* queue is still above its target.
DrainNotForgotten == drain = "waiting" /\ ~sizePermit => size > DrainTarget

\* The places of the queues that hold a message
Places ==
    UNION {{<<p, s, i>> : i \in 1..Len(queue[p][s])} : p \in Levels, s \in Sources}

\* queued_message_size is what is queued, whatever the scheduler and the
\* pruner have done: the accounting that wait_for_queue_drain relies on.
SizeIsQueued == size = Cardinality(Places)

\* What wait_for_queue_drain(true) promises for message ordering: nothing
\* that was queued before the call is still queued when it has succeeded.
DrainedIsEmpty ==
    drain = "drained" /\ forEmpty =>
        \A p \in Levels, s \in Sources, m \in 1..mark : ~Queued(m, p, s)

\* While the tasks run, every queued message is taken out in the end.
EverythingLeaves ==
    \A m \in Messages :
        (\E p \in Levels, s \in Sources : Queued(m, p, s)) ~>
            \/ \A p \in Levels, s \in Sources : ~Queued(m, p, s)
            \/ ~running

\* And while the connection stays open, it arrives.
OnlineDelivers ==
    \A m \in Messages :
        [](/\ \E p \in Levels, s \in Sources : Queued(m, p, s)
           /\ [](conn = "open" /\ running)
           => <>(m \in delivered))

\* After terminate_download_tasks both tasks are gone: stop may miss a scheduler
\* that is about to wait, and the abort that follows it may not.
TasksEnd == ~running ~> pc = "exited" /\ pruner = "exited"

=============================================================================
