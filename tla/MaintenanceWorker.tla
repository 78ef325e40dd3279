------------------------- MODULE MaintenanceWorker -------------------------
(***************************************************************************)
(* Kraken's maintenance thread (maintenance_worker.cpp) against the        *)
(* parties it talks to: RabbitMQ, which routes reload orders and realtime  *)
(* updates and may drop the connection; tyr, which writes a new nav file   *)
(* and orders a reload; chaos and kirin, which publish disruptions and     *)
(* trip updates; the chaos database read by a load, and kirin's answer to  *)
(* load_realtime.                                                          *)
(*                                                                         *)
(* The question asked here is which updates end up in the dataset in       *)
(* service.  How that dataset is built and published under the eyes of the *)
(* request threads is the subject of DataManager: here a batch is applied  *)
(* in one step, and a load takes two, because updates arrive between the   *)
(* reading of the disruptions and the publication.                         *)
(***************************************************************************)
EXTENDS Integers, Sequences

CONSTANTS
    ChaosIds, KirinIds,     \* entity ids of disruptions and of trip updates
    AutocompleteIds,        \* the KirinIds whose effect needs an autocomplete rebuild
    InitialDisk,            \* nav file present at startup: 0 none, 1 a first version
    RealtimeEnabled,        \* conf.is_realtime_enabled
    QueuesExpire,           \* can an outage outlast broker.queue_expire?
    ApplyMayThrow,          \* can an update raise a recoverable_exception?
    MaxUpdates,             \* bound: updates published
    MaxDisk,                \* bound: versions of the nav file
    MaxOutages,             \* bound: broker errors
    MaxFailures             \* bound: failed reads of an existing nav file

Ids == ChaosIds \cup KirinIds

ASSUME MaintenanceWorkerAssumption ==
    /\ ChaosIds \cap KirinIds = {}
    /\ AutocompleteIds \subseteq KirinIds
    /\ InitialDisk \in {0, 1}
    /\ {RealtimeEnabled, QueuesExpire, ApplyMayThrow} \subseteq BOOLEAN
    /\ {MaxUpdates, MaxDisk, MaxOutages, MaxFailures} \subseteq Nat

VARIABLES
    pc, loop, caller,       \* where run() is, in which of its loops, on whose behalf
    batch,                  \* envelopes retrieved and not handled yet
    fresh,                  \* the Data that DataManager::load is filling
    data,                   \* the Data in service
    channel_opened, task_queue_created, realtime_queue_created,
    retry_due,              \* now > next_try_realtime_loading
    taskq, rtq, rpc,        \* broker: task queue, realtime queue, load_realtime exchange
    disk,                   \* version of the nav file
    truth,                  \* truth[i]: latest version of i at chaos or kirin, 0 if none
    updates, outages, failures,
    last_load               \* outcome of the last load_data

flags  == <<channel_opened, task_queue_created, realtime_queue_created>>
broker == <<taskq, rtq, rpc>>
world  == <<disk, truth, updates, outages, failures>>
vars   == <<pc, loop, caller, batch, fresh, data, flags, retry_due, broker, world, last_load>>

-----------------------------------------------------------------------------
(* Datasets and feeds *)

\* A feed maps entity ids to versions; version 0 is is_deleted.
Version == 0 .. MaxUpdates
Feed    == UNION {[S -> Version] : S \in SUBSET Ids}

Nothing == [i \in Ids |-> 0]

\* "missed" is a ghost: the ids whose latest version never reached this dataset and is not
\* on its way to it.
NewData == [nav |-> 0, loaded |-> FALSE, last_load_succeeded |-> FALSE,
            is_realtime_loaded |-> FALSE, chaos_read |-> FALSE,
            applied |-> Nothing, indexed |-> Nothing, missed |-> {}]

IdsIn(feeds) == UNION {DOMAIN feeds[k] : k \in DOMAIN feeds}

\* Mutant of Skipped: the batch is gone through forwards.
SkippedForwards(feeds, k, i) == \E l \in DOMAIN feeds : l < k /\ i \in DOMAIN feeds[l]

\* handle_rt_in_batch goes through the batch backwards and skips the ids it has already
\* met: feeds[k][i] is applied iff no later feed of the batch is about i.
Skipped(feeds, k, i) == \E l \in DOMAIN feeds : l > k /\ i \in DOMAIN feeds[l]

AppliedIn(feeds) ==
    {e \in (DOMAIN feeds) \X IdsIn(feeds) :
        e[2] \in DOMAIN feeds[e[1]] /\ ~Skipped(feeds, e[1], e[2])}

ApplyBatch(applied, feeds) ==
    [i \in Ids |-> IF i \in IdsIn(feeds)
                   THEN LET e == CHOOSE e \in AppliedIn(feeds) : e[2] = i
                        IN  feeds[e[1]][i]
                   ELSE applied[i]]

\* autocomplete_rebuilding_activated is assigned, not accumulated, by each trip update: its
\* final value is that of one of those of the oldest feed that has any left to apply.
RebuildFlags(feeds) ==
    LET trips == {e \in AppliedIn(feeds) : e[2] \in KirinIds /\ feeds[e[1]][e[2]] # 0}
        last  == {e \in trips : \A f \in trips : e[1] <= f[1]}
    IN  IF trips = {} THEN {FALSE} ELSE {(e[2] \in AutocompleteIds) : e \in last}

\* The datasets handle_rt_in_batch may publish in place of d.
HandleRtInBatch(d, feeds) ==
    LET applied == ApplyBatch(d.applied, feeds)
    IN  {[d EXCEPT !.applied = applied,
                   !.indexed = IF rebuild THEN applied ELSE @] : rebuild \in RebuildFlags(feeds)}

-----------------------------------------------------------------------------
(* The environment: external parties, as the thread sees them *)

\* chaos or kirin commits a new version of i, or its deletion, and publishes it; without a
\* bound queue the message is not routed to this kraken.
Publish(i, deleted) ==
    LET v == IF deleted THEN 0 ELSE updates + 1
        heard(missed) == IF rtq.bound THEN missed \ {i} ELSE missed \cup {i}
    IN  /\ updates < MaxUpdates
        /\ deleted => truth[i] # 0
        /\ updates' = updates + 1
        /\ truth' = [truth EXCEPT ![i] = v]
        /\ rtq' = IF rtq.bound THEN [rtq EXCEPT !.msgs = Append(@, [j \in {i} |-> v])] ELSE rtq
        /\ data' = [data EXCEPT !.missed = heard(@)]
        /\ fresh' = IF pc = "set_data" THEN [fresh EXCEPT !.missed = heard(@)] ELSE fresh
        /\ rpc' = IF rpc.state = "answered" THEN [rpc EXCEPT !.missed = heard(@)] ELSE rpc
        /\ UNCHANGED <<pc, loop, caller, batch, flags, retry_due, taskq, disk, outages, failures, last_load>>

\* tyr writes a nav file and publishes RELOAD.
OrderReload ==
    /\ disk < MaxDisk
    /\ disk' = disk + 1
    /\ taskq' = IF taskq.bound THEN [taskq EXCEPT !.ready = @ + 1] ELSE taskq
    /\ UNCHANGED <<pc, loop, caller, batch, fresh, data, flags, retry_due, rtq, rpc, truth,
                   updates, outages, failures, last_load>>

\* The broker pushes tasks to its consumers in turn; the bounds stay below the prefetch count.
Deliver ==
    /\ taskq.ready > 0
    /\ taskq.consumers # <<>>
    /\ taskq' = [taskq EXCEPT !.ready = @ - 1,
                              !.held[Head(taskq.consumers)] = @ + 1,
                              !.consumers = Append(Tail(@), Head(@))]
    /\ UNCHANGED <<pc, loop, caller, batch, fresh, data, flags, retry_due, rtq, rpc, world, last_load>>

\* The acknowledgement of the oldest retrieved update reaches the broker.
BrokerAck ==
    /\ rtq.taken > 0
    /\ rtq' = [rtq EXCEPT !.msgs = Tail(@), !.taken = @ - 1]
    /\ UNCHANGED <<pc, loop, caller, batch, fresh, data, flags, retry_due, taskq, rpc, world, last_load>>

\* kirin answers with the trip updates in force, to a callback queue that still exists.
KirinAnswers ==
    /\ rpc.state = "asked"
    /\ rpc' = [state |-> "answered", missed |-> {},
               feed |-> [i \in {j \in KirinIds : truth[j] # 0} |-> truth[i]]]
    /\ UNCHANGED <<pc, loop, caller, batch, fresh, data, flags, retry_due, taskq, rtq, world, last_load>>

Tick ==
    /\ ~retry_due
    /\ retry_due' = TRUE
    /\ UNCHANGED <<pc, loop, caller, batch, fresh, data, flags, broker, world, last_load>>

NoTaskQueue == [bound |-> FALSE, ready |-> 0, consumers |-> <<>>, held |-> [t \in {"wait", "main"} |-> 0]]
NoRtQueue   == [bound |-> FALSE, msgs |-> <<>>, taken |-> 0]
NoRpc       == [state |-> "none", feed |-> <<>>, missed |-> {}]

\* x-expires: a queue without a consumer for that long is deleted, content included.
ExpireQueues ==
    /\ QueuesExpire
    /\ ~channel_opened
    /\ taskq.bound \/ rtq.bound
    /\ taskq' = NoTaskQueue
    /\ rtq' = NoRtQueue
    /\ data' = [data EXCEPT !.missed = @ \cup IdsIn(rtq.msgs)]
    /\ UNCHANGED <<pc, loop, caller, batch, fresh, flags, retry_due, rpc, world, last_load>>

-----------------------------------------------------------------------------
(* load_data *)

\* load_data_nav, then load_disruptions if there is a chaos database and it answers.
LoadNavAndDisruptions(chaos_read) ==
    /\ pc = "load"
    /\ disk > 0
    /\ fresh' = [NewData EXCEPT
                    !.nav = disk, !.loaded = TRUE, !.last_load_succeeded = TRUE,
                    !.chaos_read = chaos_read,
                    !.applied = [i \in Ids |-> IF chaos_read /\ i \in ChaosIds THEN truth[i] ELSE 0]]
    /\ pc' = "set_data"
    /\ UNCHANGED <<loop, caller, batch, data, flags, retry_due, broker, world, last_load>>

\* Where run() resumes after a load: the startup load decides which loop comes first, a
\* reload always goes on with load_realtime.
AfterLoad(d) ==
    /\ pc' = IF caller = "startup" THEN "open" ELSE "load_realtime"
    /\ loop' = IF caller = "startup" THEN IF d.loaded THEN "main" ELSE "wait" ELSE loop

\* Mutant of SetData: load_data does not reset is_realtime_loaded.
SetDataKeepsFlag ==
    /\ pc = "set_data"
    /\ data' = [fresh EXCEPT !.is_realtime_loaded = data.is_realtime_loaded]
    /\ fresh' = NewData
    /\ last_load' = "succeeded"
    /\ AfterLoad(data')
    /\ UNCHANGED <<caller, batch, flags, retry_due, broker, world>>

SetData ==
    /\ pc = "set_data"
    /\ data' = [fresh EXCEPT !.is_realtime_loaded = FALSE]
    /\ fresh' = NewData
    /\ last_load' = "succeeded"
    /\ AfterLoad(data')
    /\ UNCHANGED <<caller, batch, flags, retry_due, broker, world>>

\* No file, or an unreadable one: the current dataset stays in service.
LoadFails ==
    /\ pc = "load"
    /\ disk = 0 \/ failures < MaxFailures
    /\ failures' = IF disk = 0 THEN failures ELSE failures + 1
    /\ last_load' = "failed"
    /\ AfterLoad(data)
    /\ UNCHANGED <<caller, batch, fresh, data, flags, retry_due, broker, disk, truth, updates, outages>>

-----------------------------------------------------------------------------
(* The two loops of run(), up to the event loop *)

OpenChannel ==
    /\ pc = "open"
    /\ channel_opened' = TRUE
    /\ pc' = "create_task_queue"
    /\ UNCHANGED <<loop, caller, batch, fresh, data, task_queue_created, realtime_queue_created,
                   retry_due, broker, world, last_load>>

\* Delete, declare and bind, once in the life of the process.
CreateTaskQueue ==
    /\ pc = "create_task_queue"
    /\ taskq' = IF task_queue_created THEN taskq ELSE [NoTaskQueue EXCEPT !.bound = TRUE]
    /\ task_queue_created' = TRUE
    /\ pc' = IF loop = "wait" THEN "consume" ELSE "create_realtime_queue"
    /\ UNCHANGED <<loop, caller, batch, fresh, data, channel_opened, realtime_queue_created,
                   retry_due, rtq, rpc, world, last_load>>

CreateRealtimeQueue ==
    /\ pc = "create_realtime_queue"
    /\ rtq' = IF realtime_queue_created THEN rtq ELSE [NoRtQueue EXCEPT !.bound = TRUE]
    /\ realtime_queue_created' = TRUE
    /\ pc' = "consume"
    /\ UNCHANGED <<loop, caller, batch, fresh, data, channel_opened, task_queue_created,
                   retry_due, taskq, rpc, world, last_load>>

\* The next turn of the loop that listens, or the end of the "wait" loop once a dataset is
\* loaded.
NextTurn(d) ==
    IF loop = "main" THEN pc' = "event_loop" /\ loop' = loop
    ELSE IF d.loaded THEN pc' = "open" /\ loop' = "main"
                     ELSE pc' = "consume_task" /\ loop' = loop

\* BasicConsume on the queues the loop listens to, which must exist.  The tag the "wait"
\* loop has obtained is never cancelled.
CanConsume == channel_opened /\ taskq.bound /\ (loop = "main" => rtq.bound)

\* Mutant of BasicConsume: every subscription is made twice, one tag being forgotten.
BasicConsumeTwice ==
    /\ pc = "consume"
    /\ CanConsume
    /\ taskq' = [taskq EXCEPT !.consumers = @ \o <<"wait", loop>>]
    /\ NextTurn(data)
    /\ UNCHANGED <<caller, batch, fresh, data, flags, retry_due, rtq, rpc, world, last_load>>

BasicConsume ==
    /\ pc = "consume"
    /\ CanConsume
    /\ taskq' = [taskq EXCEPT !.consumers = Append(@, loop)]
    /\ NextTurn(data)
    /\ UNCHANGED <<caller, batch, fresh, data, flags, retry_due, rtq, rpc, world, last_load>>

\* Mutant of Reconnect: the loop resumes listening without reopening the channel.
ReconnectWithoutOpening ==
    /\ channel_opened' = FALSE
    /\ pc' = "consume"
    /\ taskq' = [taskq EXCEPT !.consumers = <<>>]
    /\ rpc' = NoRpc
    /\ UNCHANGED <<loop, caller, batch, fresh, task_queue_created, realtime_queue_created, retry_due>>

\* The catch of run(), with what the loss of the connection does at the broker: consumers
\* and the callback queue go, unacknowledged messages are put back.
Reconnect ==
    /\ channel_opened' = FALSE
    /\ pc' = "open"
    /\ taskq' = [taskq EXCEPT !.ready = @ + taskq.held["wait"] + taskq.held["main"],
                              !.held = [t \in {"wait", "main"} |-> 0],
                              !.consumers = <<>>]
    /\ rpc' = NoRpc
    /\ UNCHANGED <<loop, caller, batch, fresh, task_queue_created, realtime_queue_created, retry_due>>

BasicConsumeFails ==
    /\ pc = "consume"
    /\ ~CanConsume
    /\ Reconnect
    /\ rtq' = [rtq EXCEPT !.taken = 0]
    /\ UNCHANGED <<data, world, last_load>>

\* The steps that use the channel.
OnChannel == {"open", "create_task_queue", "create_realtime_queue", "consume", "load_realtime",
              "await_kirin", "consume_rt", "consume_task"}

BrokerError ==
    /\ pc \in OnChannel
    /\ outages < MaxOutages
    /\ outages' = outages + 1
    /\ Reconnect
    /\ \/ rtq' = [rtq EXCEPT !.taken = 0] /\ data' = data
       \/ \* In the middle of consume_in_batch: what was retrieved and acknowledged is gone.
          /\ pc = "consume_rt"
          /\ \E n \in rtq.taken + 1 .. Len(rtq.msgs) :
                /\ rtq' = [rtq EXCEPT !.msgs = SubSeq(@, n + 1, Len(@)), !.taken = 0]
                /\ data' = [data EXCEPT !.missed = @ \cup IdsIn(SubSeq(rtq.msgs, rtq.taken + 1, n))]
    /\ UNCHANGED <<disk, truth, updates, failures, last_load>>

-----------------------------------------------------------------------------
(* listen_rabbitmq and listen_to_task_queue_until_data_loaded *)

\* Top of the event loop: is it time to try load_realtime again?
EventLoop ==
    /\ pc = "event_loop"
    /\ pc' = IF retry_due THEN "load_realtime" ELSE "consume_rt"
    /\ caller' = "timer"
    /\ retry_due' = FALSE
    /\ UNCHANGED <<loop, batch, fresh, data, flags, broker, world, last_load>>

AfterLoadRealtime(d) ==
    IF caller = "timer" THEN pc' = "consume_rt" /\ loop' = loop ELSE NextTurn(d)

SkipLoadRealtime ==
    /\ pc = "load_realtime"
    /\ ~RealtimeEnabled \/ data.is_realtime_loaded
    /\ AfterLoadRealtime(data)
    /\ UNCHANGED <<caller, batch, fresh, data, flags, retry_due, broker, world, last_load>>

\* A callback queue is declared and kirin is asked.
AskKirin ==
    /\ pc = "load_realtime"
    /\ RealtimeEnabled
    /\ ~data.is_realtime_loaded
    /\ rpc' = [NoRpc EXCEPT !.state = "asked"]
    /\ pc' = "await_kirin"
    /\ UNCHANGED <<loop, caller, batch, fresh, data, flags, retry_due, taskq, rtq, world, last_load>>

\* An entity not in the feed keeps whatever was missed about it.
ReceiveKirin ==
    /\ pc = "await_kirin"
    /\ rpc.state = "answered"
    /\ \E d \in HandleRtInBatch(data, <<rpc.feed>>) :
          data' = [d EXCEPT !.is_realtime_loaded = TRUE,
                            !.missed = (@ \ DOMAIN rpc.feed) \cup rpc.missed]
    /\ rpc' = NoRpc
    /\ AfterLoadRealtime(data)
    /\ UNCHANGED <<caller, batch, fresh, flags, retry_due, taskq, rtq, world, last_load>>

\* ... or an entity of the feed raises a recoverable_exception, which the loops catch around
\* the handling of a task: realtime is still to be loaded.
ReceiveKirinThrows ==
    /\ pc = "await_kirin"
    /\ rpc.state = "answered"
    /\ ApplyMayThrow
    /\ caller = "task"
    /\ rpc' = NoRpc
    /\ NextTurn(data)
    /\ UNCHANGED <<caller, batch, fresh, data, flags, retry_due, taskq, rtq, world, last_load>>

\* Mutant of KirinTimeout: going without realtime is taken for having loaded it.
KirinTimeoutLoaded ==
    /\ pc = "await_kirin"
    /\ rpc.state = "asked"
    /\ rpc' = NoRpc
    /\ data' = [data EXCEPT !.is_realtime_loaded = TRUE]
    /\ AfterLoadRealtime(data)
    /\ UNCHANGED <<caller, batch, fresh, flags, retry_due, taskq, rtq, world, last_load>>

\* kirin_timeout: "going without it"; the callback queue is deleted.
KirinTimeout ==
    /\ pc = "await_kirin"
    /\ rpc.state = "asked"
    /\ rpc' = NoRpc
    /\ AfterLoadRealtime(data)
    /\ UNCHANGED <<caller, batch, fresh, data, flags, retry_due, taskq, rtq, world, last_load>>

\* consume_in_batch on the realtime queue: n messages, each acknowledged as it is retrieved.
ConsumeRt(n) ==
    /\ pc = "consume_rt"
    /\ rtq.taken + n <= Len(rtq.msgs)
    /\ batch' = SubSeq(rtq.msgs, rtq.taken + 1, rtq.taken + n)
    /\ rtq' = [rtq EXCEPT !.taken = @ + n]
    /\ pc' = "handle_rt"
    /\ UNCHANGED <<loop, caller, fresh, data, flags, retry_due, taskq, rpc, world, last_load>>

HandleRt ==
    /\ pc = "handle_rt"
    /\ data' \in HandleRtInBatch(data, batch)
    /\ batch' = <<>>
    /\ pc' = "consume_task"
    /\ UNCHANGED <<loop, caller, fresh, flags, retry_due, broker, world, last_load>>

\* A recoverable_exception: the clone is dropped with the whole batch, and this turn of the
\* loop looks at no task.
HandleRtThrows ==
    /\ pc = "handle_rt"
    /\ ApplyMayThrow
    /\ batch # <<>>
    /\ data' = [data EXCEPT !.missed = @ \cup IdsIn(batch)]
    /\ batch' = <<>>
    /\ pc' = "event_loop"
    /\ UNCHANGED <<loop, caller, fresh, flags, retry_due, broker, world, last_load>>

\* Mutant of ConsumeTask: the envelope is used without looking whether there is one.
ConsumeTaskUnchecked ==
    /\ pc = "consume_task"
    /\ taskq' = [taskq EXCEPT !.held[loop] = @ - 1]
    /\ caller' = "task"
    /\ pc' = "load"
    /\ UNCHANGED <<loop, batch, fresh, data, flags, retry_due, rtq, rpc, world, last_load>>

\* consume_in_batch on the task queue, with the tag of the loop, and handle_task_in_batch.
ConsumeTask ==
    /\ pc = "consume_task"
    /\ IF taskq.held[loop] > 0
       THEN /\ taskq' = [taskq EXCEPT !.held[loop] = @ - 1]
            /\ caller' = "task"
            /\ pc' = "load"
            /\ loop' = loop
       ELSE NextTurn(data) /\ UNCHANGED <<taskq, caller>>
    /\ UNCHANGED <<batch, fresh, data, flags, retry_due, rtq, rpc, world, last_load>>

-----------------------------------------------------------------------------
(* Specification *)

Init ==
    /\ pc = "load" /\ loop = "wait" /\ caller = "startup"
    /\ batch = <<>>
    /\ fresh = NewData
    /\ data = NewData
    /\ channel_opened = FALSE /\ task_queue_created = FALSE /\ realtime_queue_created = FALSE
    /\ retry_due = TRUE
    /\ taskq = NoTaskQueue /\ rtq = NoRtQueue /\ rpc = NoRpc
    /\ disk = InitialDisk
    /\ truth = Nothing
    /\ updates = 0 /\ outages = 0 /\ failures = 0
    /\ last_load = "none"

ThreadStep ==
    \/ (\E b \in BOOLEAN : LoadNavAndDisruptions(b)) \/ SetData \/ LoadFails
    \/ OpenChannel \/ CreateTaskQueue \/ CreateRealtimeQueue \/ BasicConsume \/ BasicConsumeFails
    \/ EventLoop \/ SkipLoadRealtime \/ AskKirin \/ ReceiveKirin \/ ReceiveKirinThrows
    \/ KirinTimeout
    \/ (\E n \in 0 .. MaxUpdates : ConsumeRt(n))
    \/ HandleRt \/ HandleRtThrows \/ ConsumeTask

Environment ==
    \/ \E i \in Ids, deleted \in BOOLEAN : Publish(i, deleted)
    \/ OrderReload \/ Deliver \/ BrokerAck \/ KirinAnswers \/ Tick \/ ExpireQueues \/ BrokerError

Next == ThreadStep \/ Environment

Spec == Init /\ [][Next]_vars

\* The thread runs, time passes, the broker delivers; messages that stay in the realtime
\* queue are not timed out for ever, and kirin does not miss every deadline.
Fairness ==
    /\ WF_vars(ThreadStep)
    /\ WF_vars(Tick)
    /\ WF_vars(Deliver)
    /\ SF_vars(\E n \in 1 .. MaxUpdates : ConsumeRt(n))
    /\ SF_vars(KirinAnswers)
FairSpec == Spec /\ Fairness

-----------------------------------------------------------------------------
(* Properties *)

Pc == OnChannel \cup {"load", "set_data", "event_loop", "handle_rt"}

DataType ==
    [nav : Nat, loaded : BOOLEAN, last_load_succeeded : BOOLEAN, is_realtime_loaded : BOOLEAN,
     chaos_read : BOOLEAN, applied : [Ids -> Version], indexed : [Ids -> Version], missed : SUBSET Ids]

ThreadTypeOK ==
    /\ pc \in Pc
    /\ loop \in {"wait", "main"}
    /\ caller \in {"startup", "timer", "task"}
    /\ batch \in Seq(Feed)
    /\ channel_opened \in BOOLEAN
    /\ task_queue_created \in BOOLEAN
    /\ realtime_queue_created \in BOOLEAN
    /\ retry_due \in BOOLEAN
    /\ last_load \in {"none", "succeeded", "failed"}

TaskQueue == [bound : BOOLEAN, ready : Nat, consumers : Seq({"wait", "main"}),
              held : [{"wait", "main"} -> Nat]]
RtQueue   == [bound : BOOLEAN, msgs : Seq(Feed), taken : Nat]
Rpc       == [state : {"none", "asked", "answered"}, feed : Feed, missed : SUBSET Ids]

BrokerTypeOK ==
    /\ taskq \in TaskQueue
    /\ rtq \in RtQueue
    /\ rtq.taken <= Len(rtq.msgs)
    /\ rpc \in Rpc

WorldTypeOK ==
    /\ disk \in Nat
    /\ truth \in [Ids -> Version]
    /\ updates \in Version
    /\ outages \in Nat
    /\ failures \in Nat

TypeOK ==
    /\ ThreadTypeOK
    /\ data \in DataType
    /\ fresh \in DataType
    /\ BrokerTypeOK
    /\ WorldTypeOK

\* What the dataset in service will say of i once everything on its way has been applied.
Pending(i) == ApplyBatch(data.applied, batch \o rtq.msgs)[i]

\* No update is lost silently: whatever the order of updates, batches, redeliveries, reloads
\* and kirin's answers, a dataset that has read its initial state catches up with chaos and
\* kirin by applying what is in hand or queued, for every id but those the ghost names.
RealtimeConverges ==
    \A i \in Ids \ data.missed :
       (IF i \in KirinIds THEN data.is_realtime_loaded ELSE data.chaos_read)
          => Pending(i) = truth[i]

\* The messages of a batch applied one after the other.
Sequentially(applied, feeds) ==
    LET after[n \in 0 .. Len(feeds)] ==
            IF n = 0 THEN applied
            ELSE [i \in Ids |-> IF i \in DOMAIN feeds[n] THEN feeds[n][i] ELSE after[n - 1][i]]
    IN  after[Len(feeds)]

\* Applying a batch newest first, skipping the ids already seen, is applying its messages
\* one after the other.
BatchIsSequential == ApplyBatch(data.applied, batch) = Sequentially(data.applied, batch)

\* Once updates cease, the dataset in service agrees with chaos and kirin.
EventuallyConsistent ==
    <>[](\A i \in Ids \ data.missed :
            (i \in KirinIds \/ data.chaos_read) => data.applied[i] = truth[i])

\* A reload order in the task queue ends with the newest nav file in service.
ReloadObeyed ==
    (taskq.ready + taskq.held["wait"] + taskq.held["main"] > 0) ~> (data.nav = disk)

\* After a broker error the thread gets back to its event loop.
Recovers == (loop = "main" /\ pc = "open") ~> (pc = "event_loop")

-----------------------------------------------------------------------------
(* Statements of the documentation that the code does not keep *)

\* The monitor reports 'last load failed' from last_load_status.
FailedLoadReported == last_load = "failed" => ~data.last_load_succeeded

=============================================================================
