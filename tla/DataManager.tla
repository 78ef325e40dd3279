---------------------------- MODULE DataManager ----------------------------
(***************************************************************************)
(* Kraken's dataset lifecycle, at the granularity at which its threads     *)
(* interleave: DataManager<Data> (data_manager.h), the steps of the        *)
(* maintenance thread that create, fill and publish a Data                 *)
(* (maintenance_worker.cpp), and the request threads that read the         *)
(* published one (doWork of kraken_zmq.h, dispatch and init_worker_data of *)
(* worker.cpp).                                                            *)
(*                                                                         *)
(* Data objects live on a heap of addresses that are reused once freed, as *)
(* the allocator does: this is why a request thread recognises "its"       *)
(* dataset by data_identifier and not by pointer.  An object is freed in   *)
(* the very step that drops its last shared_ptr.  "serial" is the only     *)
(* ghost field: it numbers the objects in the order they are constructed,  *)
(* and stands for the content a reader sees.                               *)
(***************************************************************************)
EXTENDS Naturals

CONSTANTS
    Workers,            \* request threads (conf.nb_threads)
    Addr,               \* heap addresses a Data can be allocated at
    Null,               \* the null pointer
    ChaosDatabase,      \* is a chaos database configured?
    MaxId               \* bound: number of loads and clones explored

ASSUME DataManagerAssumption ==
    /\ Null \notin Addr
    /\ Addr # {}
    /\ ChaosDatabase \in BOOLEAN
    /\ MaxId \in Nat

VARIABLES
    heap,               \* Addr -> Data
    born,               \* ghost: number of Data constructed so far
    data_identifier,    \* DataManager::data_identifier
    current_data,       \* DataManager::current_data
    mutex,              \* DataManager::write, a boost::shared_mutex
    mt,                 \* the maintenance thread: its step and its local `data`
    channel_opened,     \* MaintenanceWorker::channel_opened
    wpc,                \* wpc[w]: the step of request thread w
    ptr,                \* ptr[w]: its local `data`, a bare pointer until counted
    planner,            \* planner[w]: the Data its RAPTOR planner was built on
    last_data_identifier,
    reply               \* reply[w]: the response being built by pb_creator

mtVars     == <<data_identifier, mt, channel_opened>>
workerVars == <<wpc, ptr, planner, last_data_identifier, reply>>
vars       == <<heap, born, data_identifier, current_data, mutex, mt,
                channel_opened, workerVars>>

-----------------------------------------------------------------------------
(* Data objects *)

Data == [alive : BOOLEAN, serial : Nat, id : Nat, loading : BOOLEAN, loaded : BOOLEAN,
         built : BOOLEAN, is_connected_to_rabbitmq : BOOLEAN, named : BOOLEAN]

\* Data::Data(data_identifier).  "built" says that relations, raptor and proximity list
\* were computed from the object's present content; "named" that meta->instance_name is set.
NewData(id, serial) ==
    [alive |-> TRUE, serial |-> serial, id |-> id, loading |-> FALSE, loaded |-> FALSE,
     built |-> FALSE, is_connected_to_rabbitmq |-> FALSE, named |-> FALSE]

Freed == [NewData(0, 0) EXCEPT !.alive = FALSE]

\* Data::clone_from: only what Data::save serialises is copied; the raptor data, the
\* proximity list and `loading` are not.
CloneFrom(from, id, serial) ==
    [NewData(id, serial) EXCEPT
        !.loaded = from.loaded, !.named = from.named,
        !.is_connected_to_rabbitmq = from.is_connected_to_rabbitmq]

Free == {a \in Addr : ~heap[a].alive}

\* The worker steps during which its local shared_ptr counts as a reference.
Counted == {"acquired", "ready", "answered", "sent"}
WorkerRefs(ws) == {ptr[w] : w \in {v \in ws : wpc[v] \in Counted}}

\* Dropping a shared_ptr to a: a is deleted unless one of the others still points to it.
Drop(h, a, others) == IF a \in others THEN h ELSE [h EXCEPT ![a] = Freed]

-----------------------------------------------------------------------------
(* The maintenance thread: DataManager::load *)

MtPc == {"idle", "load_nav", "load_disruptions", "reload_nav", "apply", "build",
         "set_data", "lock", "swap", "post_load"}

StartLoad ==
    /\ mt.pc = "idle"
    /\ data_identifier < MaxId
    /\ data_identifier' = data_identifier + 1
    /\ born' = born + 1
    /\ \E a \in Free :
          /\ heap' = [heap EXCEPT ![a] = [NewData(data_identifier + 1, born + 1)
                                             EXCEPT !.loading = TRUE]]
          /\ mt' = [pc |-> "load_nav", task |-> "load", data |-> a]
    /\ UNCHANGED <<current_data, mutex, channel_opened, workerVars>>

\* load_data_nav succeeds.
LoadNav ==
    /\ mt.pc = "load_nav"
    /\ mt' = [mt EXCEPT !.pc = IF ChaosDatabase THEN "load_disruptions" ELSE "build"]
    /\ UNCHANGED <<heap, born, data_identifier, current_data, mutex, channel_opened, workerVars>>

\* Mutant of LoadNavFails: the outcome of load_data_nav is ignored and the empty Data is
\* published.
LoadNavFailsIgnored ==
    /\ mt.pc \in {"load_nav", "reload_nav"}
    /\ mt' = [mt EXCEPT !.pc = "set_data"]
    /\ UNCHANGED <<heap, born, data_identifier, current_data, mutex, channel_opened, workerVars>>

\* data_loading_error, on the first or the second read: load returns false and its
\* local Data is destroyed; the current one is untouched.
LoadNavFails ==
    /\ mt.pc \in {"load_nav", "reload_nav"}
    /\ heap' = Drop(heap, mt.data, {current_data} \cup WorkerRefs(Workers))
    /\ mt' = [pc |-> "idle", task |-> "none", data |-> Null]
    /\ UNCHANGED <<born, data_identifier, current_data, mutex, channel_opened, workerVars>>

\* load_disruptions and build_autocomplete_partial succeed, or the connection to the chaos
\* database is broken and the Data, still clean, is kept without disruptions.
LoadDisruptions ==
    /\ mt.pc = "load_disruptions"
    /\ mt' = [mt EXCEPT !.pc = "build"]
    /\ UNCHANGED <<heap, born, data_identifier, current_data, mutex, channel_opened, workerVars>>

\* disruptions_loading_error: a second Data is created with the SAME identifier, then the
\* half-filled one is destroyed.
LoadDisruptionsFails ==
    /\ mt.pc = "load_disruptions"
    /\ born' = born + 1
    /\ \E a \in Free :
          /\ heap' = Drop([heap EXCEPT ![a] = NewData(data_identifier, born + 1)],
                          mt.data, {current_data} \cup WorkerRefs(Workers))
          /\ mt' = [mt EXCEPT !.pc = "reload_nav", !.data = a]
    /\ UNCHANGED <<data_identifier, current_data, mutex, channel_opened, workerVars>>

ReloadNav ==
    /\ mt.pc = "reload_nav"
    /\ mt' = [mt EXCEPT !.pc = "build"]
    /\ UNCHANGED <<heap, born, data_identifier, current_data, mutex, channel_opened, workerVars>>

-----------------------------------------------------------------------------
(* The maintenance thread: handle_rt_in_batch *)

\* Mutant of GetDataClone: get_data instead of get_data_clone, so that the batch is applied
\* to the published Data.
GetDataInPlace ==
    /\ mt.pc = "idle"
    /\ data_identifier < MaxId
    /\ data_identifier' = data_identifier + 1
    /\ heap' = [heap EXCEPT ![current_data].built = FALSE]
    /\ mt' = [pc |-> "apply", task |-> "realtime", data |-> current_data]
    /\ UNCHANGED <<born, current_data, mutex, channel_opened, workerVars>>

\* get_data_clone, on the first entity of the batch.
GetDataClone ==
    /\ mt.pc = "idle"
    /\ data_identifier < MaxId
    /\ data_identifier' = data_identifier + 1
    /\ born' = born + 1
    /\ \E a \in Free :
          /\ heap' = [heap EXCEPT ![a] = CloneFrom(heap[current_data],
                                                   data_identifier + 1, born + 1)]
          /\ mt' = [pc |-> "apply", task |-> "realtime", data |-> a]
    /\ UNCHANGED <<current_data, mutex, channel_opened, workerVars>>

\* Mutant of ApplyEntities: the clone is published without rebuilding its raptor data.
ApplyWithoutBuild ==
    /\ mt.pc = "apply"
    /\ mt' = [mt EXCEPT !.pc = "set_data"]
    /\ UNCHANGED <<heap, born, data_identifier, current_data, mutex, channel_opened, workerVars>>

\* The batch's entities are applied to the clone ...
ApplyEntities ==
    /\ mt.pc = "apply"
    /\ mt' = [mt EXCEPT !.pc = "build"]
    /\ UNCHANGED <<heap, born, data_identifier, current_data, mutex, channel_opened, workerVars>>

\* ... or one of them throws a recoverable_exception: the clone is destroyed.
ApplyFails ==
    /\ mt.pc = "apply"
    /\ heap' = Drop(heap, mt.data, {current_data} \cup WorkerRefs(Workers))
    /\ mt' = [pc |-> "idle", task |-> "none", data |-> Null]
    /\ UNCHANGED <<born, data_identifier, current_data, mutex, channel_opened, workerVars>>

-----------------------------------------------------------------------------
(* The maintenance thread: end of both, and DataManager::set_data *)

\* build_relations, build_raptor, build_proximity_list; load also sets the load flags.
Built(d, task) ==
    IF task = "load" THEN [d EXCEPT !.built = TRUE, !.loading = FALSE, !.loaded = TRUE]
                     ELSE [d EXCEPT !.built = TRUE]

Build ==
    /\ mt.pc = "build"
    /\ heap' = [heap EXCEPT ![mt.data] = Built(@, mt.task)]
    /\ mt' = [mt EXCEPT !.pc = "set_data"]
    /\ UNCHANGED <<born, data_identifier, current_data, mutex, channel_opened, workerVars>>

\* Mutant of SetDataFlag: the new Data keeps the flag it was created with.
SetDataFlagForgotten ==
    /\ mt.pc = "set_data"
    /\ mt' = [mt EXCEPT !.pc = "lock"]
    /\ UNCHANGED <<heap, born, data_identifier, current_data, mutex, channel_opened, workerVars>>

\* Before taking the lock, set_data carries the connection flag over.
SetDataFlag ==
    /\ mt.pc = "set_data"
    /\ heap' = [heap EXCEPT ![mt.data].is_connected_to_rabbitmq =
                               heap[current_data].is_connected_to_rabbitmq]
    /\ mt' = [mt EXCEPT !.pc = "lock"]
    /\ UNCHANGED <<born, data_identifier, current_data, mutex, channel_opened, workerVars>>

\* boost::shared_mutex::lock: a writer that has to wait keeps new readers out.
WaitExclusive ==
    /\ mt.pc = "lock"
    /\ mutex.readers # {}
    /\ ~mutex.waiting
    /\ mutex' = [mutex EXCEPT !.waiting = TRUE]
    /\ UNCHANGED <<heap, born, current_data, mtVars, workerVars>>

LockExclusive ==
    /\ mt.pc = "lock"
    /\ mutex.readers = {}
    /\ mutex' = [mutex EXCEPT !.exclusive = TRUE]
    /\ mt' = [mt EXCEPT !.pc = "swap"]
    /\ UNCHANGED <<heap, born, data_identifier, current_data, channel_opened, workerVars>>

\* Mutants of Swap: the moved-from pointer is the one that stays; the lock is kept.
SwapMovesOut ==
    /\ mt.pc = "swap"
    /\ current_data' = Null
    /\ mutex' = [mutex EXCEPT !.exclusive = FALSE, !.waiting = FALSE]
    /\ mt' = [mt EXCEPT !.pc = "idle"]
    /\ UNCHANGED <<heap, born, data_identifier, channel_opened, workerVars>>

SwapKeepsLock ==
    /\ mt.pc = "swap"
    /\ current_data' = mt.data
    /\ heap' = Drop(heap, current_data, {mt.data} \cup WorkerRefs(Workers))
    /\ mt' = [pc |-> "idle", task |-> "none", data |-> Null]
    /\ UNCHANGED <<born, data_identifier, mutex, channel_opened, workerVars>>

\* current_data = std::move(data): the previous Data is destroyed here, under the lock,
\* unless a request still uses it.
Swap ==
    /\ mt.pc = "swap"
    /\ current_data' = mt.data
    /\ heap' = Drop(heap, current_data, {mt.data} \cup WorkerRefs(Workers))
    /\ mutex' = [mutex EXCEPT !.exclusive = FALSE, !.waiting = FALSE]
    /\ mt' = [pc |-> IF mt.task = "load" THEN "post_load" ELSE "idle",
              task |-> "none", data |-> Null]
    /\ UNCHANGED <<born, data_identifier, channel_opened, workerVars>>

\* MaintenanceWorker::load_data names the dataset it has just published.
PostLoad ==
    /\ mt.pc = "post_load"
    /\ heap' = [heap EXCEPT ![current_data].named = TRUE]
    /\ mt' = [mt EXCEPT !.pc = "idle"]
    /\ UNCHANGED <<born, data_identifier, current_data, mutex, channel_opened, workerVars>>

\* open_channel_to_rabbitmq succeeds, or a broker error unwinds to the loop of run().
SetConnected(b) ==
    /\ mt.pc = "idle"
    /\ channel_opened # b
    /\ channel_opened' = b
    /\ heap' = [heap EXCEPT ![current_data].is_connected_to_rabbitmq = b]
    /\ UNCHANGED <<born, data_identifier, current_data, mutex, mt, workerVars>>

-----------------------------------------------------------------------------
(* A request thread: doWork, get_data, init_worker_data, dispatch *)

WorkerPc == {"idle", "asked", "copied", "acquired", "ready", "answered", "sent"}

NoReply == [kind |-> "none", planner |-> 0, data |-> 0, date |-> 0]
Reply == [kind : {"none", "error", "status", "unavailable", "result"},
          planner : Nat, data : Nat, date : Nat]

\* A well formed request is received and parsed.  (Malformed frames and invalid protobufs
\* are answered at once, before any Data is touched.)
Receive(w) ==
    /\ wpc[w] = "idle"
    /\ wpc' = [wpc EXCEPT ![w] = "asked"]
    /\ UNCHANGED <<heap, born, current_data, mutex, mtVars, ptr, planner, last_data_identifier, reply>>

\* Mutants of CopyPointer: get_data takes no lock; a waiting writer keeps nobody out.
CopyPointerUnlocked(w) ==
    /\ wpc[w] = "asked"
    /\ ptr' = [ptr EXCEPT ![w] = current_data]
    /\ wpc' = [wpc EXCEPT ![w] = "copied"]
    /\ UNCHANGED <<heap, born, current_data, mutex, mtVars, planner, last_data_identifier, reply>>

CopyPointerOvertakes(w) ==
    /\ wpc[w] = "asked"
    /\ ~mutex.exclusive
    /\ mutex' = [mutex EXCEPT !.readers = @ \cup {w}]
    /\ ptr' = [ptr EXCEPT ![w] = current_data]
    /\ wpc' = [wpc EXCEPT ![w] = "copied"]
    /\ UNCHANGED <<heap, born, current_data, mtVars, planner, last_data_identifier, reply>>

\* get_data takes the shared lock and copies the pointer ...
CopyPointer(w) ==
    /\ wpc[w] = "asked"
    /\ ~mutex.exclusive
    /\ ~mutex.waiting
    /\ mutex' = [mutex EXCEPT !.readers = @ \cup {w}]
    /\ ptr' = [ptr EXCEPT ![w] = current_data]
    /\ wpc' = [wpc EXCEPT ![w] = "copied"]
    /\ UNCHANGED <<heap, born, current_data, mtVars, planner, last_data_identifier, reply>>

\* ... then increments the reference count of what it points to, and unlocks.
CountReference(w) ==
    /\ wpc[w] = "copied"
    /\ mutex' = [mutex EXCEPT !.readers = @ \ {w}]
    /\ wpc' = [wpc EXCEPT ![w] = "acquired"]
    /\ UNCHANGED <<heap, born, current_data, mtVars, ptr, planner, last_data_identifier, reply>>

\* numeric_limits<size_t>::max(), which data_identifier never reaches.
NoIdentifier == MaxId + 1

\* Mutant of NeedsPlanner: datasets are told apart by address.
NeedsPlannerByAddress(w) == planner[w].on # ptr[w]

NeedsPlanner(w) ==
    \/ heap[ptr[w]].id # last_data_identifier[w]
    \/ planner[w].on = Null

InitWorkerData(w) ==
    /\ wpc[w] = "acquired"
    /\ IF NeedsPlanner(w)
       THEN /\ planner' = [planner EXCEPT ![w] = [on |-> ptr[w], serial |-> heap[ptr[w]].serial]]
            /\ last_data_identifier' = [last_data_identifier EXCEPT ![w] = heap[ptr[w]].id]
       ELSE UNCHANGED <<planner, last_data_identifier>>
    /\ wpc' = [wpc EXCEPT ![w] = "ready"]
    /\ UNCHANGED <<heap, born, current_data, mutex, mtVars, ptr, reply>>

\* Mutant of PublicationDate: it calls get_data again instead of using the request's Data.
PublicationDateOfCurrent(d) ==
    IF heap[current_data].loaded THEN heap[current_data].serial ELSE 0

PublicationDate(d) == IF d.loaded THEN d.serial ELSE 0

\* dispatch: STATUS and METADATAS are always answered, the other APIs only once data is
\* loaded; an expired deadline or a recoverable_exception becomes an error answer.
Dispatch(w) ==
    LET d == heap[ptr[w]]
        answers(kind, p, v) == reply' = [reply EXCEPT ![w] =
            [kind |-> kind, planner |-> p, data |-> v, date |-> PublicationDate(d)]]
    IN  /\ wpc[w] = "ready"
        /\ \/ answers("error", 0, 0)
           \/ answers("status", 0, d.serial)
           \/ ~d.loaded /\ answers("unavailable", 0, 0)
           \/ d.loaded /\ answers("result", heap[planner[w].on].serial, d.serial)
        /\ wpc' = [wpc EXCEPT ![w] = "answered"]
        /\ UNCHANGED <<heap, born, current_data, mutex, mtVars, ptr, planner, last_data_identifier>>

\* respond, and get_raptor_next_st_cache_miss that reads through the planner ...
Respond(w) ==
    /\ wpc[w] = "answered"
    /\ wpc' = [wpc EXCEPT ![w] = "sent"]
    /\ UNCHANGED <<heap, born, current_data, mutex, mtVars, ptr, planner, last_data_identifier, reply>>

\* ... and the end of the loop's scope, where `data` is released.  The planner stays.
Release(w) ==
    /\ wpc[w] = "sent"
    /\ heap' = Drop(heap, ptr[w], {current_data, mt.data} \cup WorkerRefs(Workers \ {w}))
    /\ wpc' = [wpc EXCEPT ![w] = "idle"]
    /\ ptr' = [ptr EXCEPT ![w] = Null]
    /\ reply' = [reply EXCEPT ![w] = NoReply]
    /\ UNCHANGED <<born, current_data, mutex, mtVars, planner, last_data_identifier>>

-----------------------------------------------------------------------------
(* Specification *)

Init ==
    \E a \in Addr :
       /\ heap = [b \in Addr |-> IF b = a THEN NewData(0, 1) ELSE Freed]
       /\ born = 1
       /\ data_identifier = 0
       /\ current_data = a
       /\ mutex = [readers |-> {}, exclusive |-> FALSE, waiting |-> FALSE]
       /\ mt = [pc |-> "idle", task |-> "none", data |-> Null]
       /\ channel_opened = FALSE
       /\ wpc = [w \in Workers |-> "idle"]
       /\ ptr = [w \in Workers |-> Null]
       /\ planner = [w \in Workers |-> [on |-> Null, serial |-> 0]]
       /\ last_data_identifier = [w \in Workers |-> NoIdentifier]
       /\ reply = [w \in Workers |-> NoReply]

MaintenanceStep ==
    \/ LoadNav \/ LoadNavFails \/ LoadDisruptions \/ LoadDisruptionsFails \/ ReloadNav
    \/ ApplyEntities \/ ApplyFails \/ Build \/ SetDataFlag
    \/ WaitExclusive \/ LockExclusive \/ Swap \/ PostLoad

WorkerStep(w) ==
    \/ CopyPointer(w) \/ CountReference(w) \/ InitWorkerData(w) \/ Dispatch(w)
    \/ Respond(w) \/ Release(w)

Next ==
    \/ StartLoad \/ GetDataClone \/ (\E b \in BOOLEAN : SetConnected(b))
    \/ MaintenanceStep
    \/ \E w \in Workers : Receive(w) \/ WorkerStep(w)

Spec == Init /\ [][Next]_vars

\* A thread in the middle of an operation is scheduled again; nothing obliges a client to
\* send a request, tyr to order a reload, or an update to arrive.
Fairness == WF_vars(MaintenanceStep) /\ \A w \in Workers : WF_vars(WorkerStep(w))
FairSpec == Spec /\ Fairness

-----------------------------------------------------------------------------
(* Properties *)

TypeOK ==
    /\ heap \in [Addr -> Data]
    /\ born \in Nat
    /\ data_identifier \in Nat
    /\ current_data \in Addr
    /\ mutex \in [readers : SUBSET Workers, exclusive : BOOLEAN, waiting : BOOLEAN]
    /\ mt \in [pc : MtPc, task : {"none", "load", "realtime"}, data : Addr \cup {Null}]
    /\ channel_opened \in BOOLEAN
    /\ wpc \in [Workers -> WorkerPc]
    /\ ptr \in [Workers -> Addr \cup {Null}]
    /\ planner \in [Workers -> [on : Addr \cup {Null}, serial : Nat]]
    /\ last_data_identifier \in [Workers -> Nat]
    /\ reply \in [Workers -> Reply]

\* No thread ever reads freed memory: not the pointer get_data is copying, not the dataset
\* of a request in progress, not the dataset behind the planner a handler (or the metrics
\* code that runs after the response is sent) goes through.
NoUseAfterFree ==
    /\ heap[current_data].alive
    /\ mt.data # Null => heap[mt.data].alive
    /\ \A w \in Workers :
          /\ wpc[w] \in {"copied"} \cup Counted => heap[ptr[w]].alive
          /\ wpc[w] \in {"ready", "answered", "sent"} => heap[planner[w].on].alive

\* A handler's planner was built on the very object its request acquired, although the
\* thread keeps the planner between requests, compares identifiers only, and the object's
\* address may have belonged to an older dataset.
PlannerOnSnapshot ==
    \A w \in Workers :
       wpc[w] \in {"ready", "answered", "sent"} =>
          /\ planner[w].on = ptr[w]
          /\ planner[w].serial = heap[ptr[w]].serial

\* A request never sees a dataset under construction: what it holds is either the empty
\* one kraken starts with, or has its raptor data, relations and proximity list built.
SnapshotComplete ==
    \A w \in Workers :
       wpc[w] \in {"copied"} \cup Counted =>
          /\ heap[ptr[w]].id = 0 \/ heap[ptr[w]].built
          /\ ~heap[ptr[w]].loading

\* The status flag read through the published dataset is the state of the broker channel,
\* across every load and clone.
ConnectionFlagCarried ==
    heap[current_data].is_connected_to_rabbitmq = channel_opened

\* Once a loaded dataset is in service there always is one ("no service interruption").
NoInterruption ==
    [][heap[current_data].loaded => heap'[current_data'].loaded]_vars

Content(d) == <<d.alive, d.serial, d.id, d.loading, d.loaded, d.built>>
StableStep ==
    \A w \in Workers :
       wpc[w] \in Counted /\ wpc'[w] \in Counted =>
          /\ ptr'[w] = ptr[w]
          /\ Content(heap'[ptr[w]]) = Content(heap[ptr[w]])

\* What a request has read stays as it is until the request is over, except for the
\* connection flag and for the name load_data gives to a dataset it has already published.
SnapshotStable == [][StableStep]_vars

\* The request threads and the maintenance thread together implement an atomic register
\* of datasets.
view == [w \in Workers |-> IF wpc[w] \in {"copied"} \cup Counted
                           THEN [version |-> heap[ptr[w]].serial, ready |-> heap[ptr[w]].loaded]
                           ELSE [version |-> 0, ready |-> FALSE]]
phase == [w \in Workers |-> CASE wpc[w] = "idle" -> "idle"
                              [] wpc[w] = "asked" -> "asked"
                              [] wpc[w] \in {"copied", "acquired", "ready"} -> "reading"
                              [] OTHER -> "answered"]
Service == INSTANCE DataService WITH
              version <- heap[current_data].serial,
              ready <- heap[current_data].loaded,
              phase <- phase, view <- view, reply <- reply
AtomicSnapshots == Service!Spec

\* Every request is answered, and every load or realtime batch ends, whatever the other
\* threads do: readers cannot starve the writer out of set_data, nor the writer the readers.
RequestsAnswered == \A w \in Workers : wpc[w] = "asked" ~> wpc[w] = "idle"
MaintenanceReturns == mt.pc # "idle" ~> mt.pc = "idle"

=============================================================================
