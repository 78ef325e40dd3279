------------------------ MODULE DataManagerProofs ------------------------
(***************************************************************************)
(* Safety of kraken's dataset lifecycle, for any number of request         *)
(* threads, any set of heap addresses and any number of loads and clones.  *)
(*                                                                         *)
(* None of the properties is inductive: that a planner is never stale      *)
(* rests on identifiers being unique among live objects, which rests on    *)
(* the object under construction carrying the newest identifier; that no   *)
(* pointer dangles rests on the lock excluding the swap while a pointer is *)
(* copied but not yet counted.  IInv collects these facts.                 *)
(***************************************************************************)
EXTENDS DataManager, TLAPS

Holding == {"copied"} \cup Counted

\* The maintenance thread owns an object exactly between its creation and its publication,
\* and no one else knows that object.
MtInv ==
    /\ mt.pc \in {"idle", "post_load"} <=> mt.data = Null
    /\ mt.data # Null => mt.data \in Addr /\ heap[mt.data].alive /\ mt.data # current_data
    /\ mt.pc \in {"load_nav", "load_disruptions", "reload_nav"} => mt.task = "load"
    /\ mt.pc = "apply" => mt.task = "realtime"
    /\ mt.data # Null => mt.task \in {"load", "realtime"}

\* The shared lock is held by the threads copying the pointer, the exclusive one by the swap.
MutexInv ==
    /\ mutex.readers = {w \in Workers : wpc[w] = "copied"}
    /\ mutex.exclusive <=> mt.pc = "swap"
    /\ mutex.exclusive => mutex.readers = {}

\* What a request points to is alive and not under construction; a pointer that is not yet
\* counted is the current one.
PointerInv ==
    /\ heap[current_data].alive
    /\ \A w \in Workers :
          /\ wpc[w] \in Holding => ptr[w] \in Addr /\ heap[ptr[w]].alive /\ ptr[w] # mt.data
          /\ wpc[w] = "copied" => ptr[w] = current_data

\* Identifiers are unique among live objects, and the object under construction has the
\* newest; the same holds of serial numbers, compared with the published object.
IdInv ==
    /\ \A a, b \in Addr : heap[a].alive /\ heap[b].alive /\ heap[a].id = heap[b].id => a = b
    /\ \A a \in Addr : heap[a].alive /\ a # mt.data => heap[a].id =< heap[current_data].id
    /\ heap[current_data].id =< data_identifier
    /\ heap[current_data].serial =< born
    /\ mt.data # Null =>
          /\ heap[mt.data].id = data_identifier
          /\ heap[current_data].id < data_identifier
          /\ heap[current_data].serial < heap[mt.data].serial
          /\ heap[mt.data].serial =< born

\* A planner's identifier is that of a published object; if an object with that identifier
\* is still alive, it is the one the planner was built on.
PlannerInv ==
    \A w \in Workers :
       /\ planner[w].on # Null =>
             /\ last_data_identifier[w] =< heap[current_data].id
             /\ \A a \in Addr :
                   heap[a].alive /\ heap[a].id = last_data_identifier[w] =>
                      planner[w].on = a /\ planner[w].serial = heap[a].serial
       /\ wpc[w] \in {"ready", "answered", "sent"} =>
             /\ planner[w].on # Null
             /\ last_data_identifier[w] = heap[ptr[w]].id

\* Every published object is complete, and so is the next one once it is built.
CompleteInv ==
    /\ \A a \in Addr : heap[a].alive /\ a # mt.data =>
          /\ heap[a].id = 0 \/ heap[a].built
          /\ ~heap[a].loading
    /\ mt.pc \in {"set_data", "lock", "swap"} =>
          heap[mt.data].built /\ ~heap[mt.data].loading
    /\ mt.data # Null /\ mt.task = "realtime" => ~heap[mt.data].loading

\* The next object is loaded if it comes from load, or if the one it was cloned from is.
LoadedInv ==
    /\ mt.pc \in {"set_data", "lock", "swap"} /\ mt.task = "load" => heap[mt.data].loaded
    /\ mt.data # Null /\ mt.task = "realtime" /\ heap[current_data].loaded
          => heap[mt.data].loaded

FlagInv ==
    /\ heap[current_data].is_connected_to_rabbitmq = channel_opened
    /\ mt.pc \in {"lock", "swap"} => heap[mt.data].is_connected_to_rabbitmq = channel_opened

IInv == /\ TypeOK /\ MtInv /\ MutexInv /\ PointerInv /\ IdInv /\ PlannerInv
        /\ CompleteInv /\ LoadedInv /\ FlagInv

-----------------------------------------------------------------------------
(* Preservation of the invariant, action by action *)

\* What the constructor, the destructor and clone_from produce is a Data.
LEMMA DataTypes ==
    /\ Freed \in Data
    /\ \A i, s \in Nat : NewData(i, s) \in Data
    /\ \A d \in Data, i, s \in Nat : CloneFrom(d, i, s) \in Data
  BY DEF Freed, NewData, CloneFrom, Data

\* The fields set on an existing Data keep it a Data.
LEMMA FieldTypes ==
    ASSUME NEW d \in Data, NEW x \in BOOLEAN
    PROVE  /\ [d EXCEPT !.loading = x] \in Data
           /\ [d EXCEPT !.named = x] \in Data
           /\ \A t : Built(d, t) \in Data
  BY DEF Data, Built

\* Dropping a reference leaves a heap of Data.
LEMMA DropType ==
    ASSUME NEW h \in [Addr -> Data], NEW a \in Addr, NEW S
    PROVE  Drop(h, a, S) \in [Addr -> Data]
  BY DataTypes DEF Drop

\* LoadNav: reading the file only moves the maintenance thread on.
LEMMA LoadNavInv ==
    ASSUME IInv, LoadNav
    PROVE  IInv'
  BY DEF IInv, TypeOK, MtInv, MutexInv, PointerInv, IdInv, PlannerInv, CompleteInv, LoadedInv,
         FlagInv, Holding, Counted, MtPc, WorkerPc, Data, LoadNav, workerVars

\* LoadDisruptions: so does reading the disruptions.
LEMMA LoadDisruptionsInv ==
    ASSUME IInv, LoadDisruptions
    PROVE  IInv'
  BY DEF IInv, TypeOK, MtInv, MutexInv, PointerInv, IdInv, PlannerInv, CompleteInv, LoadedInv,
         FlagInv, Holding, Counted, MtPc, WorkerPc, Data, LoadDisruptions, workerVars

\* ReloadNav: so does the second read of the file.
LEMMA ReloadNavInv ==
    ASSUME IInv, ReloadNav
    PROVE  IInv'
  BY DEF IInv, TypeOK, MtInv, MutexInv, PointerInv, IdInv, PlannerInv, CompleteInv, LoadedInv,
         FlagInv, Holding, Counted, MtPc, WorkerPc, Data, ReloadNav, workerVars

\* ApplyEntities: so does applying the entities of a batch to the clone.
LEMMA ApplyEntitiesInv ==
    ASSUME IInv, ApplyEntities
    PROVE  IInv'
  BY DEF IInv, TypeOK, MtInv, MutexInv, PointerInv, IdInv, PlannerInv, CompleteInv, LoadedInv,
         FlagInv, Holding, Counted, MtPc, WorkerPc, Data, ApplyEntities, workerVars

\* Receive: a request arrives; nothing is read yet.
LEMMA ReceiveInv ==
    ASSUME IInv, NEW w \in Workers, Receive(w)
    PROVE  IInv'
  BY DEF IInv, TypeOK, MtInv, MutexInv, PointerInv, IdInv, PlannerInv, CompleteInv, LoadedInv,
         FlagInv, Holding, Counted, MtPc, WorkerPc, Data, Receive, mtVars

\* Respond: the response is sent while the Data is still held.
LEMMA RespondInv ==
    ASSUME IInv, NEW w \in Workers, Respond(w)
    PROVE  IInv'
  BY DEF IInv, TypeOK, MtInv, MutexInv, PointerInv, IdInv, PlannerInv, CompleteInv, LoadedInv,
         FlagInv, Holding, Counted, MtPc, WorkerPc, Data, Respond, mtVars

\* WaitExclusive: the writer announces itself to the mutex.
LEMMA WaitExclusiveInv ==
    ASSUME IInv, WaitExclusive
    PROVE  IInv'
<1>1. TypeOK'
  BY DEF IInv, TypeOK, MtPc, WorkerPc, WaitExclusive, mtVars, workerVars
<1>2. MtInv'
  BY DEF IInv, TypeOK, MtInv, Data, WaitExclusive, mtVars, workerVars
<1>3. MutexInv'
  BY DEF IInv, TypeOK, MtInv, MutexInv, WaitExclusive, mtVars, workerVars
<1>4. PointerInv'
  BY DEF IInv, TypeOK, Data, MtInv, MutexInv, PointerInv, Holding, Counted, WaitExclusive,
         mtVars, workerVars
<1>5. IdInv'
  BY DEF IInv, TypeOK, Data, MtInv, PointerInv, IdInv, WaitExclusive, mtVars, workerVars
<1>6. PlannerInv'
  BY DEF IInv, TypeOK, Data, MtInv, PointerInv, IdInv, PlannerInv, Holding, Counted,
         WaitExclusive, mtVars, workerVars
<1>7. CompleteInv'
  BY DEF IInv, TypeOK, Data, MtInv, PointerInv, CompleteInv, WaitExclusive, mtVars, workerVars
<1>8. LoadedInv'
  BY DEF IInv, TypeOK, Data, MtInv, PointerInv, LoadedInv, WaitExclusive, mtVars, workerVars
<1>9. FlagInv'
  BY DEF IInv, TypeOK, Data, MtInv, PointerInv, FlagInv, WaitExclusive, mtVars, workerVars
<1> QED
  BY <1>1, <1>2, <1>3, <1>4, <1>5, <1>6, <1>7, <1>8, <1>9 DEF IInv

\* LockExclusive: the exclusive lock is granted once no reader is copying the pointer.
LEMMA LockExclusiveInv ==
    ASSUME IInv, LockExclusive
    PROVE  IInv'
<1>1. TypeOK'
  BY DEF IInv, TypeOK, MtPc, WorkerPc, LockExclusive, workerVars
<1>2. MtInv'
  BY DEF IInv, TypeOK, MtInv, Data, LockExclusive, workerVars
<1>3. MutexInv'
  BY DEF IInv, TypeOK, MtInv, MutexInv, LockExclusive, workerVars
<1>4. PointerInv'
  BY DEF IInv, TypeOK, Data, MtInv, MutexInv, PointerInv, Holding, Counted, LockExclusive,
         workerVars
<1>5. IdInv'
  BY DEF IInv, TypeOK, Data, MtInv, PointerInv, IdInv, LockExclusive, workerVars
<1>6. PlannerInv'
  BY DEF IInv, TypeOK, Data, MtInv, PointerInv, IdInv, PlannerInv, Holding, Counted,
         LockExclusive, workerVars
<1>7. CompleteInv'
  BY DEF IInv, TypeOK, Data, MtInv, PointerInv, CompleteInv, LockExclusive, workerVars
<1>8. LoadedInv'
  BY DEF IInv, TypeOK, Data, MtInv, PointerInv, LoadedInv, LockExclusive, workerVars
<1>9. FlagInv'
  BY DEF IInv, TypeOK, Data, MtInv, PointerInv, FlagInv, LockExclusive, workerVars
<1> QED
  BY <1>1, <1>2, <1>3, <1>4, <1>5, <1>6, <1>7, <1>8, <1>9 DEF IInv

\* StartLoad: load constructs a Data nobody else knows, with a fresh identifier.
LEMMA StartLoadInv ==
    ASSUME IInv, StartLoad
    PROVE  IInv'
<1>1. TypeOK'
  <2>1. PICK a \in Addr :
           /\ heap' = [heap EXCEPT ![a] = [NewData(data_identifier + 1, born + 1)
                                             EXCEPT !.loading = TRUE]]
           /\ mt' = [pc |-> "load_nav", task |-> "load", data |-> a]
    BY DEF StartLoad, Free
  <2>2. [NewData(data_identifier + 1, born + 1) EXCEPT !.loading = TRUE] \in Data
    <3>1. NewData(data_identifier + 1, born + 1) \in Data
      BY DataTypes DEF IInv, TypeOK
    <3> QED
      BY <3>1, FieldTypes
  <2>3. heap' \in [Addr -> Data]
    BY <2>1, <2>2 DEF IInv, TypeOK
  <2>4. mt' \in [pc : MtPc, task : {"none", "load", "realtime"}, data : Addr \cup {Null}]
    BY <2>1 DEF MtPc
  <2> QED
    BY <2>3, <2>4 DEF IInv, TypeOK, StartLoad, workerVars
<1>2. MtInv'
  BY DataManagerAssumption DEF IInv, TypeOK, MtInv, Data, PointerInv, StartLoad, Free,
         NewData, workerVars
<1>3. MutexInv'
  BY DataManagerAssumption DEF IInv, TypeOK, MtInv, MutexInv, StartLoad, Free, NewData,
         workerVars
<1>4. PointerInv'
  BY DataManagerAssumption DEF IInv, TypeOK, Data, MtInv, MutexInv, PointerInv, Holding,
         Counted, StartLoad, Free, NewData, workerVars
<1>5. IdInv'
  <2>1. PICK a \in Addr :
           /\ ~heap[a].alive
           /\ heap' = [heap EXCEPT ![a] = [NewData(data_identifier + 1, born + 1)
                                             EXCEPT !.loading = TRUE]]
           /\ mt' = [pc |-> "load_nav", task |-> "load", data |-> a]
    BY DEF StartLoad, Free
  <2>2. /\ heap'[a].id = data_identifier + 1 /\ heap'[a].serial = born + 1
        /\ \A b \in Addr \ {a} : heap'[b] = heap[b]
        /\ current_data # a /\ mt.data = Null
    BY <2>1 DEF IInv, TypeOK, MtInv, PointerInv, NewData, StartLoad
  <2> QED
    BY <2>1, <2>2, DataManagerAssumption DEF IInv, TypeOK, Data, IdInv, StartLoad
<1>6. PlannerInv'
  BY DataManagerAssumption DEF IInv, TypeOK, Data, MtInv, PointerInv, IdInv, PlannerInv,
         Holding, Counted, StartLoad, Free, NewData, workerVars
<1>7. CompleteInv'
  BY DataManagerAssumption DEF IInv, TypeOK, Data, MtInv, PointerInv, CompleteInv, IdInv,
         StartLoad, Free, NewData, workerVars
<1>8. LoadedInv'
  BY DataManagerAssumption DEF IInv, TypeOK, Data, MtInv, PointerInv, LoadedInv, StartLoad,
         Free, NewData, workerVars
<1>9. FlagInv'
  <2>1. PICK a \in Addr : ~heap[a].alive /\ heap' = [heap EXCEPT ![a] = heap'[a]]
    BY DEF IInv, TypeOK, StartLoad, Free
  <2>2. heap'[current_data'] = heap[current_data]
    BY <2>1 DEF IInv, TypeOK, PointerInv, StartLoad
  <2>3. mt'.pc = "load_nav"
    BY DEF StartLoad
  <2> QED
    BY <2>2, <2>3 DEF IInv, FlagInv, StartLoad
<1> QED
  BY <1>1, <1>2, <1>3, <1>4, <1>5, <1>6, <1>7, <1>8, <1>9 DEF IInv

\* LoadNavFails: load gives up: only the unpublished Data is destroyed.
LEMMA LoadNavFailsInv ==
    ASSUME IInv, LoadNavFails
    PROVE  IInv'
<1>1. TypeOK'
  <2>1. heap' \in [Addr -> Data]
    BY DropType DEF IInv, TypeOK, MtInv, LoadNavFails
  <2>2. mt' \in [pc : MtPc, task : {"none", "load", "realtime"}, data : Addr \cup {Null}]
    BY DEF LoadNavFails, MtPc
  <2> QED
    BY <2>1, <2>2 DEF IInv, TypeOK, LoadNavFails, workerVars
<1>2. MtInv'
  BY DataManagerAssumption DEF IInv, TypeOK, MtInv, Data, LoadNavFails, Drop, WorkerRefs,
         Freed, NewData, workerVars
<1>3. MutexInv'
  BY DataManagerAssumption DEF IInv, TypeOK, MtInv, MutexInv, LoadNavFails, Drop, WorkerRefs,
         Freed, NewData, workerVars
<1>4. PointerInv'
  BY DataManagerAssumption DEF IInv, TypeOK, Data, MtInv, MutexInv, PointerInv, Holding,
         Counted, LoadNavFails, Drop, WorkerRefs, Freed, NewData, workerVars
<1>5. IdInv'
  BY DataManagerAssumption DEF IInv, TypeOK, Data, MtInv, PointerInv, IdInv, Holding, Counted,
         LoadNavFails, Drop, WorkerRefs, Freed, NewData, workerVars
<1>6. PlannerInv'
  BY DataManagerAssumption DEF IInv, TypeOK, Data, MtInv, PointerInv, IdInv, PlannerInv,
         Holding, Counted, LoadNavFails, Drop, WorkerRefs, Freed, NewData, workerVars
<1>7. CompleteInv'
  BY DataManagerAssumption DEF IInv, TypeOK, Data, MtInv, PointerInv, CompleteInv, Holding,
         Counted, IdInv, LoadNavFails, Drop, WorkerRefs, Freed, NewData, workerVars
<1>8. LoadedInv'
  BY DataManagerAssumption DEF IInv, TypeOK, Data, MtInv, PointerInv, LoadedInv, LoadNavFails,
         Drop, WorkerRefs, Freed, NewData, workerVars
<1>9. FlagInv'
  BY DataManagerAssumption DEF IInv, TypeOK, Data, MtInv, PointerInv, FlagInv, LoadNavFails,
         Drop, WorkerRefs, Freed, NewData, workerVars
<1> QED
  BY <1>1, <1>2, <1>3, <1>4, <1>5, <1>6, <1>7, <1>8, <1>9 DEF IInv

\* LoadDisruptionsFails: the half-filled Data is replaced by one with the same identifier; neither was published.
LEMMA LoadDisruptionsFailsInv ==
    ASSUME IInv, LoadDisruptionsFails
    PROVE  IInv'
<1>1. TypeOK'
  <2>1. PICK a \in Addr :
           /\ heap' = Drop([heap EXCEPT ![a] = NewData(data_identifier, born + 1)],
                            mt.data, {current_data} \cup WorkerRefs(Workers))
           /\ mt' = [mt EXCEPT !.pc = "reload_nav", !.data = a]
    BY DEF LoadDisruptionsFails, Free
  <2>2. [heap EXCEPT ![a] = NewData(data_identifier, born + 1)] \in [Addr -> Data]
    BY DataTypes DEF IInv, TypeOK
  <2>3. heap' \in [Addr -> Data]
    BY <2>1, <2>2, DropType DEF IInv, MtInv, LoadDisruptionsFails
  <2>4. mt' \in [pc : MtPc, task : {"none", "load", "realtime"}, data : Addr \cup {Null}]
    BY <2>1 DEF IInv, TypeOK, MtPc
  <2>5. born' \in Nat
    BY DEF IInv, TypeOK, LoadDisruptionsFails
  <2> QED
    BY <2>3, <2>4, <2>5 DEF IInv, TypeOK, LoadDisruptionsFails, workerVars
<1>2. MtInv'
  BY DataManagerAssumption DEF IInv, TypeOK, MtInv, Data, PointerInv, LoadDisruptionsFails,
         Drop, WorkerRefs, Free, Freed, NewData, workerVars
<1>3. MutexInv'
  BY DataManagerAssumption DEF IInv, TypeOK, MtInv, MutexInv, LoadDisruptionsFails, Drop,
         WorkerRefs, Free, Freed, NewData, workerVars
<1>4. PointerInv'
  BY DataManagerAssumption DEF IInv, TypeOK, Data, MtInv, MutexInv, PointerInv, Holding,
         Counted, LoadDisruptionsFails, Drop, WorkerRefs, Free, Freed, NewData, workerVars
<1>5. IdInv'
  BY DataManagerAssumption DEF IInv, TypeOK, Data, MtInv, PointerInv, IdInv, Holding, Counted,
         LoadDisruptionsFails, Drop, WorkerRefs, Free, Freed, NewData, workerVars
<1>6. PlannerInv'
  BY DataManagerAssumption DEF IInv, TypeOK, Data, MtInv, PointerInv, IdInv, PlannerInv,
         Holding, Counted, LoadDisruptionsFails, Drop, WorkerRefs, Free, Freed, NewData,
         workerVars
<1>7. CompleteInv'
  BY DataManagerAssumption DEF IInv, TypeOK, Data, MtInv, PointerInv, CompleteInv, Holding,
         Counted, IdInv, LoadDisruptionsFails, Drop, WorkerRefs, Free, Freed, NewData,
         workerVars
<1>8. LoadedInv'
  BY DataManagerAssumption DEF IInv, TypeOK, Data, MtInv, PointerInv, LoadedInv,
         LoadDisruptionsFails, Drop, WorkerRefs, Free, Freed, NewData, workerVars
<1>9. FlagInv'
  BY DataManagerAssumption DEF IInv, TypeOK, Data, MtInv, PointerInv, FlagInv,
         LoadDisruptionsFails, Drop, WorkerRefs, Free, Freed, NewData, workerVars
<1> QED
  BY <1>1, <1>2, <1>3, <1>4, <1>5, <1>6, <1>7, <1>8, <1>9 DEF IInv

\* GetDataClone: the clone of the current Data gets a fresh identifier.
LEMMA GetDataCloneInv ==
    ASSUME IInv, GetDataClone
    PROVE  IInv'
<1>1. TypeOK'
  <2>1. PICK a \in Addr :
           /\ heap' = [heap EXCEPT ![a] = CloneFrom(heap[current_data],
                                                     data_identifier + 1, born + 1)]
           /\ mt' = [pc |-> "apply", task |-> "realtime", data |-> a]
    BY DEF GetDataClone, Free
  <2>2. CloneFrom(heap[current_data], data_identifier + 1, born + 1) \in Data
    BY DataTypes DEF IInv, TypeOK
  <2>3. heap' \in [Addr -> Data]
    BY <2>1, <2>2 DEF IInv, TypeOK
  <2>4. mt' \in [pc : MtPc, task : {"none", "load", "realtime"}, data : Addr \cup {Null}]
    BY <2>1 DEF MtPc
  <2> QED
    BY <2>3, <2>4 DEF IInv, TypeOK, GetDataClone, workerVars
<1>2. MtInv'
  BY DataManagerAssumption DEF IInv, TypeOK, MtInv, Data, PointerInv, GetDataClone, Free,
         CloneFrom, NewData, workerVars
<1>3. MutexInv'
  BY DataManagerAssumption DEF IInv, TypeOK, MtInv, MutexInv, GetDataClone, Free, CloneFrom,
         NewData, workerVars
<1>4. PointerInv'
  BY DataManagerAssumption DEF IInv, TypeOK, Data, MtInv, MutexInv, PointerInv, Holding,
         Counted, GetDataClone, Free, CloneFrom, NewData, workerVars
<1>5. IdInv'
  BY DataManagerAssumption DEF IInv, TypeOK, Data, MtInv, PointerInv, IdInv, GetDataClone,
         Free, CloneFrom, NewData, workerVars
<1>6. PlannerInv'
  BY DataManagerAssumption DEF IInv, TypeOK, Data, MtInv, PointerInv, IdInv, PlannerInv,
         Holding, Counted, GetDataClone, Free, CloneFrom, NewData, workerVars
<1>7. CompleteInv'
  BY DataManagerAssumption DEF IInv, TypeOK, Data, MtInv, PointerInv, CompleteInv, IdInv,
         GetDataClone, Free, CloneFrom, NewData, workerVars
<1>8. LoadedInv'
  BY DataManagerAssumption DEF IInv, TypeOK, Data, MtInv, PointerInv, LoadedInv, GetDataClone,
         Free, CloneFrom, NewData, workerVars
<1>9. FlagInv'
  BY DataManagerAssumption DEF IInv, TypeOK, Data, MtInv, PointerInv, FlagInv, GetDataClone,
         Free, CloneFrom, NewData, workerVars
<1> QED
  BY <1>1, <1>2, <1>3, <1>4, <1>5, <1>6, <1>7, <1>8, <1>9 DEF IInv

\* ApplyFails: an update that throws destroys the clone only.
LEMMA ApplyFailsInv ==
    ASSUME IInv, ApplyFails
    PROVE  IInv'
<1>1. TypeOK'
  <2>1. heap' \in [Addr -> Data]
    BY DropType DEF IInv, TypeOK, MtInv, ApplyFails
  <2>2. mt' \in [pc : MtPc, task : {"none", "load", "realtime"}, data : Addr \cup {Null}]
    BY DEF ApplyFails, MtPc
  <2> QED
    BY <2>1, <2>2 DEF IInv, TypeOK, ApplyFails, workerVars
<1>2. MtInv'
  BY DataManagerAssumption DEF IInv, TypeOK, MtInv, Data, ApplyFails, Drop, WorkerRefs, Freed,
         NewData, workerVars
<1>3. MutexInv'
  BY DataManagerAssumption DEF IInv, TypeOK, MtInv, MutexInv, ApplyFails, Drop, WorkerRefs,
         Freed, NewData, workerVars
<1>4. PointerInv'
  BY DataManagerAssumption DEF IInv, TypeOK, Data, MtInv, MutexInv, PointerInv, Holding,
         Counted, ApplyFails, Drop, WorkerRefs, Freed, NewData, workerVars
<1>5. IdInv'
  BY DataManagerAssumption DEF IInv, TypeOK, Data, MtInv, PointerInv, IdInv, Holding, Counted,
         ApplyFails, Drop, WorkerRefs, Freed, NewData, workerVars
<1>6. PlannerInv'
  BY DataManagerAssumption DEF IInv, TypeOK, Data, MtInv, PointerInv, IdInv, PlannerInv,
         Holding, Counted, ApplyFails, Drop, WorkerRefs, Freed, NewData, workerVars
<1>7. CompleteInv'
  BY DataManagerAssumption DEF IInv, TypeOK, Data, MtInv, PointerInv, CompleteInv, Holding,
         Counted, IdInv, ApplyFails, Drop, WorkerRefs, Freed, NewData, workerVars
<1>8. LoadedInv'
  BY DataManagerAssumption DEF IInv, TypeOK, Data, MtInv, PointerInv, LoadedInv, ApplyFails,
         Drop, WorkerRefs, Freed, NewData, workerVars
<1>9. FlagInv'
  BY DataManagerAssumption DEF IInv, TypeOK, Data, MtInv, PointerInv, FlagInv, ApplyFails,
         Drop, WorkerRefs, Freed, NewData, workerVars
<1> QED
  BY <1>1, <1>2, <1>3, <1>4, <1>5, <1>6, <1>7, <1>8, <1>9 DEF IInv

\* Build: building only touches the Data under construction.
LEMMA BuildInv ==
    ASSUME IInv, Build
    PROVE  IInv'
<1>1. TypeOK'
  <2>1. heap' \in [Addr -> Data]
    BY FieldTypes DEF IInv, TypeOK, MtInv, Build
  <2>2. mt' \in [pc : MtPc, task : {"none", "load", "realtime"}, data : Addr \cup {Null}]
    BY DEF IInv, TypeOK, MtPc, Build
  <2> QED
    BY <2>1, <2>2 DEF IInv, TypeOK, Build, workerVars
<1>2. MtInv'
  BY DataManagerAssumption DEF IInv, TypeOK, MtInv, Data, Build, Built, workerVars
<1>3. MutexInv'
  BY DataManagerAssumption DEF IInv, TypeOK, MtInv, MutexInv, Build, Built, workerVars
<1>4. PointerInv'
  BY DataManagerAssumption DEF IInv, TypeOK, Data, MtInv, MutexInv, PointerInv, Holding,
         Counted, Build, Built, workerVars
<1>5. IdInv'
  BY DataManagerAssumption DEF IInv, TypeOK, Data, MtInv, PointerInv, IdInv, Build, Built,
         workerVars
<1>6. PlannerInv'
  BY DataManagerAssumption DEF IInv, TypeOK, Data, MtInv, PointerInv, IdInv, PlannerInv,
         Holding, Counted, Build, Built, workerVars
<1>7. CompleteInv'
  BY DataManagerAssumption DEF IInv, TypeOK, Data, MtInv, PointerInv, CompleteInv, Build,
         Built, workerVars
<1>8. LoadedInv'
  BY DataManagerAssumption DEF IInv, TypeOK, Data, MtInv, PointerInv, LoadedInv, Build, Built,
         workerVars
<1>9. FlagInv'
  BY DataManagerAssumption DEF IInv, TypeOK, Data, MtInv, PointerInv, FlagInv, Build, Built,
         workerVars
<1> QED
  BY <1>1, <1>2, <1>3, <1>4, <1>5, <1>6, <1>7, <1>8, <1>9 DEF IInv

\* SetDataFlag: the connection flag is copied to the Data under construction.
LEMMA SetDataFlagInv ==
    ASSUME IInv, SetDataFlag
    PROVE  IInv'
<1>1. TypeOK'
  <2>1. heap' \in [Addr -> Data]
    BY DEF IInv, TypeOK, MtInv, Data, SetDataFlag
  <2>2. mt' \in [pc : MtPc, task : {"none", "load", "realtime"}, data : Addr \cup {Null}]
    BY DEF IInv, TypeOK, MtPc, SetDataFlag
  <2> QED
    BY <2>1, <2>2 DEF IInv, TypeOK, SetDataFlag, workerVars
<1>2. MtInv'
  BY DataManagerAssumption DEF IInv, TypeOK, MtInv, Data, SetDataFlag, workerVars
<1>3. MutexInv'
  BY DataManagerAssumption DEF IInv, TypeOK, MtInv, MutexInv, SetDataFlag, workerVars
<1>4. PointerInv'
  BY DataManagerAssumption DEF IInv, TypeOK, Data, MtInv, MutexInv, PointerInv, Holding,
         Counted, SetDataFlag, workerVars
<1>5. IdInv'
  BY DataManagerAssumption DEF IInv, TypeOK, Data, MtInv, PointerInv, IdInv, SetDataFlag,
         workerVars
<1>6. PlannerInv'
  BY DataManagerAssumption DEF IInv, TypeOK, Data, MtInv, PointerInv, IdInv, PlannerInv,
         Holding, Counted, SetDataFlag, workerVars
<1>7. CompleteInv'
  BY DataManagerAssumption DEF IInv, TypeOK, Data, MtInv, PointerInv, CompleteInv,
         SetDataFlag, workerVars
<1>8. LoadedInv'
  BY DataManagerAssumption DEF IInv, TypeOK, Data, MtInv, PointerInv, LoadedInv, SetDataFlag,
         workerVars
<1>9. FlagInv'
  BY DataManagerAssumption DEF IInv, TypeOK, Data, MtInv, PointerInv, FlagInv, SetDataFlag,
         workerVars
<1> QED
  BY <1>1, <1>2, <1>3, <1>4, <1>5, <1>6, <1>7, <1>8, <1>9 DEF IInv

\* Swap: no reader is between the copy and the count of the pointer, so what is freed is unreachable.
LEMMA SwapInv ==
    ASSUME IInv, Swap
    PROVE  IInv'
<1>1. TypeOK'
  <2>1. heap' \in [Addr -> Data]
    BY DropType DEF IInv, TypeOK, Swap
  <2>2. mt' \in [pc : MtPc, task : {"none", "load", "realtime"}, data : Addr \cup {Null}]
    BY DEF Swap, MtPc
  <2>3. mutex' \in [readers : SUBSET Workers, exclusive : BOOLEAN, waiting : BOOLEAN]
    BY DEF IInv, TypeOK, Swap
  <2>4. current_data' \in Addr
    BY DEF IInv, MtInv, Swap
  <2> QED
    BY <2>1, <2>2, <2>3, <2>4 DEF IInv, TypeOK, Swap, workerVars
<1>2. MtInv'
  BY DataManagerAssumption DEF IInv, TypeOK, MtInv, Data, Swap, Drop, WorkerRefs, Freed,
         NewData, workerVars
<1>3. MutexInv'
  BY DataManagerAssumption DEF IInv, TypeOK, MtInv, MutexInv, Swap, Drop, WorkerRefs, Freed,
         NewData, workerVars
<1>4. PointerInv'
  BY DataManagerAssumption DEF IInv, TypeOK, Data, MtInv, MutexInv, PointerInv, Holding,
         Counted, Swap, Drop, WorkerRefs, Freed, NewData, workerVars
<1>5. IdInv'
  <2>1. mt.data \in Addr /\ mt.data # Null /\ current_data' = mt.data /\ mt'.data = Null
    BY DataManagerAssumption DEF IInv, MtInv, Swap
  <2>2. \A b \in Addr : heap'[b] = heap[b] \/ (b = current_data /\ heap'[b] = Freed)
    BY DEF IInv, TypeOK, Swap, Drop
  <2>3. heap'[mt.data] = heap[mt.data]
    BY <2>1, <2>2 DEF IInv, MtInv
  <2>4. \A b \in Addr : heap'[b].alive => heap'[b] = heap[b] /\ heap[b].alive
    BY <2>2 DEF Freed, NewData
  <2>5. \A b \in Addr : heap[b].id \in Nat /\ heap[b].serial \in Nat
    BY DEF IInv, TypeOK, Data
  <2>6. \A b \in Addr : heap[b].alive => heap[b].id =< heap[mt.data].id
    BY <2>1, <2>5 DEF IInv, TypeOK, IdInv
  <2>7. \A b, c \in Addr :
           heap'[b].alive /\ heap'[c].alive /\ heap'[b].id = heap'[c].id => b = c
    BY <2>4 DEF IInv, IdInv
  <2>8. \A b \in Addr : heap'[b].alive => heap'[b].id =< heap'[current_data'].id
    BY <2>1, <2>3, <2>4, <2>6
  <2>9. heap'[current_data'].id =< data_identifier' /\ heap'[current_data'].serial =< born'
    BY <2>1, <2>3, <2>5 DEF IInv, TypeOK, IdInv, Swap
  <2> QED
    BY <2>1, <2>7, <2>8, <2>9 DEF IdInv
<1>6. PlannerInv'
  BY DataManagerAssumption DEF IInv, TypeOK, Data, MtInv, PointerInv, IdInv, PlannerInv,
         Holding, Counted, Swap, Drop, WorkerRefs, Freed, NewData, workerVars
<1>7. CompleteInv'
  BY DataManagerAssumption DEF IInv, TypeOK, Data, MtInv, PointerInv, CompleteInv, Holding,
         Counted, IdInv, Swap, Drop, WorkerRefs, Freed, NewData, workerVars
<1>8. LoadedInv'
  BY DataManagerAssumption DEF IInv, TypeOK, Data, MtInv, PointerInv, LoadedInv, Swap, Drop,
         WorkerRefs, Freed, NewData, workerVars
<1>9. FlagInv'
  BY DataManagerAssumption DEF IInv, TypeOK, Data, MtInv, PointerInv, FlagInv, Swap, Drop,
         WorkerRefs, Freed, NewData, workerVars
<1> QED
  BY <1>1, <1>2, <1>3, <1>4, <1>5, <1>6, <1>7, <1>8, <1>9 DEF IInv

\* PostLoad: naming the published Data touches nothing a planner depends on.
LEMMA PostLoadInv ==
    ASSUME IInv, PostLoad
    PROVE  IInv'
<1>1. TypeOK'
  <2>1. heap' = [heap EXCEPT ![current_data] = [@ EXCEPT !.named = TRUE]]
    BY DEF PostLoad
  <2>2. heap' \in [Addr -> Data]
    BY <2>1, FieldTypes DEF IInv, TypeOK
  <2>3. mt' \in [pc : MtPc, task : {"none", "load", "realtime"}, data : Addr \cup {Null}]
    BY DEF IInv, TypeOK, MtPc, PostLoad
  <2> QED
    BY <2>2, <2>3 DEF IInv, TypeOK, PostLoad, workerVars
<1>2. MtInv'
  BY DataManagerAssumption DEF IInv, TypeOK, MtInv, Data, PostLoad, workerVars
<1>3. MutexInv'
  BY DataManagerAssumption DEF IInv, TypeOK, MtInv, MutexInv, PostLoad, workerVars
<1>4. PointerInv'
  BY DataManagerAssumption DEF IInv, TypeOK, Data, MtInv, MutexInv, PointerInv, Holding,
         Counted, PostLoad, workerVars
<1>5. IdInv'
  BY DataManagerAssumption DEF IInv, TypeOK, Data, MtInv, PointerInv, IdInv, PostLoad,
         workerVars
<1>6. PlannerInv'
  BY DataManagerAssumption DEF IInv, TypeOK, Data, MtInv, PointerInv, IdInv, PlannerInv,
         Holding, Counted, PostLoad, workerVars
<1>7. CompleteInv'
  BY DataManagerAssumption DEF IInv, TypeOK, Data, MtInv, PointerInv, CompleteInv, PostLoad,
         workerVars
<1>8. LoadedInv'
  BY DataManagerAssumption DEF IInv, TypeOK, Data, MtInv, PointerInv, LoadedInv, PostLoad,
         workerVars
<1>9. FlagInv'
  BY DataManagerAssumption DEF IInv, TypeOK, Data, MtInv, PointerInv, FlagInv, PostLoad,
         workerVars
<1> QED
  BY <1>1, <1>2, <1>3, <1>4, <1>5, <1>6, <1>7, <1>8, <1>9 DEF IInv

\* SetConnected: the flag follows the channel.
LEMMA SetConnectedInv ==
    ASSUME IInv, NEW b \in BOOLEAN, SetConnected(b)
    PROVE  IInv'
<1>1. TypeOK'
  <2>1. heap' \in [Addr -> Data]
    BY DEF IInv, TypeOK, Data, SetConnected
  <2> QED
    BY <2>1 DEF IInv, TypeOK, SetConnected, workerVars
<1>2. MtInv'
  BY DataManagerAssumption DEF IInv, TypeOK, MtInv, Data, SetConnected, workerVars
<1>3. MutexInv'
  BY DataManagerAssumption DEF IInv, TypeOK, MtInv, MutexInv, SetConnected, workerVars
<1>4. PointerInv'
  BY DataManagerAssumption DEF IInv, TypeOK, Data, MtInv, MutexInv, PointerInv, Holding,
         Counted, SetConnected, workerVars
<1>5. IdInv'
  BY DataManagerAssumption DEF IInv, TypeOK, Data, MtInv, PointerInv, IdInv, SetConnected,
         workerVars
<1>6. PlannerInv'
  BY DataManagerAssumption DEF IInv, TypeOK, Data, MtInv, PointerInv, IdInv, PlannerInv,
         Holding, Counted, SetConnected, workerVars
<1>7. CompleteInv'
  BY DataManagerAssumption DEF IInv, TypeOK, Data, MtInv, PointerInv, CompleteInv,
         SetConnected, workerVars
<1>8. LoadedInv'
  BY DataManagerAssumption DEF IInv, TypeOK, Data, MtInv, PointerInv, LoadedInv, SetConnected,
         workerVars
<1>9. FlagInv'
  BY DataManagerAssumption DEF IInv, TypeOK, Data, MtInv, PointerInv, FlagInv, SetConnected,
         workerVars
<1> QED
  BY <1>1, <1>2, <1>3, <1>4, <1>5, <1>6, <1>7, <1>8, <1>9 DEF IInv

\* CopyPointer: the pointer is copied under the shared lock.
LEMMA CopyPointerInv ==
    ASSUME IInv, NEW w \in Workers, CopyPointer(w)
    PROVE  IInv'
<1>1. TypeOK'
  BY DEF IInv, TypeOK, MtPc, WorkerPc, CopyPointer, mtVars
<1>2. MtInv'
  BY DataManagerAssumption DEF IInv, TypeOK, MtInv, Data, CopyPointer, mtVars
<1>3. MutexInv'
  BY DataManagerAssumption DEF IInv, TypeOK, MtInv, MutexInv, CopyPointer, mtVars
<1>4. PointerInv'
  BY DataManagerAssumption DEF IInv, TypeOK, Data, MtInv, MutexInv, PointerInv, Holding,
         Counted, CopyPointer, mtVars
<1>5. IdInv'
  BY DataManagerAssumption DEF IInv, TypeOK, Data, MtInv, PointerInv, IdInv, CopyPointer,
         mtVars
<1>6. PlannerInv'
  BY DataManagerAssumption DEF IInv, TypeOK, Data, MtInv, PointerInv, IdInv, PlannerInv,
         Holding, Counted, CopyPointer, mtVars
<1>7. CompleteInv'
  BY DataManagerAssumption DEF IInv, TypeOK, Data, MtInv, PointerInv, CompleteInv,
         CopyPointer, mtVars
<1>8. LoadedInv'
  BY DataManagerAssumption DEF IInv, TypeOK, Data, MtInv, PointerInv, LoadedInv, CopyPointer,
         mtVars
<1>9. FlagInv'
  BY DataManagerAssumption DEF IInv, TypeOK, Data, MtInv, PointerInv, FlagInv, CopyPointer,
         mtVars
<1> QED
  BY <1>1, <1>2, <1>3, <1>4, <1>5, <1>6, <1>7, <1>8, <1>9 DEF IInv

\* CountReference: the reference is counted before the lock is released.
LEMMA CountReferenceInv ==
    ASSUME IInv, NEW w \in Workers, CountReference(w)
    PROVE  IInv'
<1>1. TypeOK'
  BY DEF IInv, TypeOK, MtPc, WorkerPc, CountReference, mtVars
<1>2. MtInv'
  BY DEF IInv, TypeOK, MtInv, Data, CountReference, mtVars
<1>3. MutexInv'
  BY DEF IInv, TypeOK, MtInv, MutexInv, CountReference, mtVars
<1>4. PointerInv'
  BY DEF IInv, TypeOK, Data, MtInv, MutexInv, PointerInv, Holding, Counted, CountReference,
         mtVars
<1>5. IdInv'
  BY DEF IInv, TypeOK, Data, MtInv, PointerInv, IdInv, CountReference, mtVars
<1>6. PlannerInv'
  BY DEF IInv, TypeOK, Data, MtInv, PointerInv, IdInv, PlannerInv, Holding, Counted,
         CountReference, mtVars
<1>7. CompleteInv'
  BY DEF IInv, TypeOK, Data, MtInv, PointerInv, CompleteInv, CountReference, mtVars
<1>8. LoadedInv'
  BY DEF IInv, TypeOK, Data, MtInv, PointerInv, LoadedInv, CountReference, mtVars
<1>9. FlagInv'
  BY DEF IInv, TypeOK, Data, MtInv, PointerInv, FlagInv, CountReference, mtVars
<1> QED
  BY <1>1, <1>2, <1>3, <1>4, <1>5, <1>6, <1>7, <1>8, <1>9 DEF IInv

\* InitWorkerData: the planner is rebuilt unless the identifiers agree, and then it is the right one.
LEMMA InitWorkerDataInv ==
    ASSUME IInv, NEW w \in Workers, InitWorkerData(w)
    PROVE  IInv'
<1>1. TypeOK'
  <2>1. ptr[w] \in Addr
    BY DEF IInv, PointerInv, Holding, Counted, InitWorkerData
  <2>2. planner' \in [Workers -> [on : Addr \cup {Null}, serial : Nat]]
    BY <2>1 DEF IInv, TypeOK, Data, InitWorkerData
  <2>3. last_data_identifier' \in [Workers -> Nat]
    BY <2>1 DEF IInv, TypeOK, Data, InitWorkerData
  <2> QED
    BY <2>2, <2>3 DEF IInv, TypeOK, WorkerPc, InitWorkerData, mtVars
<1>2. MtInv'
  BY DataManagerAssumption DEF IInv, TypeOK, MtInv, Data, InitWorkerData, NeedsPlanner, mtVars
<1>3. MutexInv'
  BY DataManagerAssumption DEF IInv, TypeOK, MtInv, MutexInv, InitWorkerData, NeedsPlanner,
         mtVars
<1>4. PointerInv'
  BY DataManagerAssumption DEF IInv, TypeOK, Data, MtInv, MutexInv, PointerInv, Holding,
         Counted, InitWorkerData, NeedsPlanner, mtVars
<1>5. IdInv'
  BY DataManagerAssumption DEF IInv, TypeOK, Data, MtInv, PointerInv, IdInv, InitWorkerData,
         NeedsPlanner, mtVars
<1>6. PlannerInv'
  BY DataManagerAssumption DEF IInv, TypeOK, Data, MtInv, PointerInv, IdInv, PlannerInv,
         Holding, Counted, InitWorkerData, NeedsPlanner, mtVars
<1>7. CompleteInv'
  BY DataManagerAssumption DEF IInv, TypeOK, Data, MtInv, PointerInv, CompleteInv,
         InitWorkerData, NeedsPlanner, mtVars
<1>8. LoadedInv'
  BY DataManagerAssumption DEF IInv, TypeOK, Data, MtInv, PointerInv, LoadedInv,
         InitWorkerData, NeedsPlanner, mtVars
<1>9. FlagInv'
  BY DataManagerAssumption DEF IInv, TypeOK, Data, MtInv, PointerInv, FlagInv, InitWorkerData,
         NeedsPlanner, mtVars
<1> QED
  BY <1>1, <1>2, <1>3, <1>4, <1>5, <1>6, <1>7, <1>8, <1>9 DEF IInv

\* Dispatch: answering only writes the reply.
LEMMA DispatchInv ==
    ASSUME IInv, NEW w \in Workers, Dispatch(w)
    PROVE  IInv'
<1>1. TypeOK'
  <2>1. heap[ptr[w]] \in Data /\ heap[planner[w].on] \in Data
    BY DEF IInv, TypeOK, PointerInv, PlannerInv, Holding, Counted, Dispatch
  <2>2. PICK r \in Reply : reply' = [reply EXCEPT ![w] = r]
    BY <2>1 DEF Dispatch, PublicationDate, Data, Reply
  <2> QED
    BY <2>2 DEF IInv, TypeOK, WorkerPc, Dispatch, mtVars
<1>2. MtInv'
  BY DEF IInv, TypeOK, MtInv, Data, Dispatch, mtVars
<1>3. MutexInv'
  BY DEF IInv, TypeOK, MtInv, MutexInv, Dispatch, mtVars
<1>4. PointerInv'
  BY DEF IInv, TypeOK, Data, MtInv, MutexInv, PointerInv, Holding, Counted, Dispatch, mtVars
<1>5. IdInv'
  BY DEF IInv, TypeOK, Data, MtInv, PointerInv, IdInv, Dispatch, mtVars
<1>6. PlannerInv'
  BY DEF IInv, TypeOK, Data, MtInv, PointerInv, IdInv, PlannerInv, Holding, Counted, Dispatch,
         mtVars
<1>7. CompleteInv'
  BY DEF IInv, TypeOK, Data, MtInv, PointerInv, CompleteInv, Dispatch, mtVars
<1>8. LoadedInv'
  BY DEF IInv, TypeOK, Data, MtInv, PointerInv, LoadedInv, Dispatch, mtVars
<1>9. FlagInv'
  BY DEF IInv, TypeOK, Data, MtInv, PointerInv, FlagInv, Dispatch, mtVars
<1> QED
  BY <1>1, <1>2, <1>3, <1>4, <1>5, <1>6, <1>7, <1>8, <1>9 DEF IInv

\* Release: releasing the last reference frees a Data no request and no published pointer needs.
LEMMA ReleaseInv ==
    ASSUME IInv, NEW w \in Workers, Release(w)
    PROVE  IInv'
<1>1. TypeOK'
  <2>1. ptr[w] \in Addr
    BY DEF IInv, PointerInv, Holding, Counted, Release
  <2>2. heap' \in [Addr -> Data]
    BY <2>1, DropType DEF IInv, TypeOK, Release
  <2>3. reply' \in [Workers -> Reply]
    BY DEF IInv, TypeOK, Release, NoReply, Reply
  <2> QED
    BY <2>2, <2>3 DEF IInv, TypeOK, WorkerPc, Release, mtVars
<1>2. MtInv'
  BY DataManagerAssumption DEF IInv, TypeOK, MtInv, Data, Release, Drop, WorkerRefs, Freed,
         NewData, mtVars
<1>3. MutexInv'
  BY DataManagerAssumption DEF IInv, TypeOK, MtInv, MutexInv, Release, Drop, WorkerRefs,
         Freed, NewData, mtVars
<1>4. PointerInv'
  BY DataManagerAssumption DEF IInv, TypeOK, Data, MtInv, MutexInv, PointerInv, Holding,
         Counted, Release, Drop, WorkerRefs, Freed, NewData, mtVars
<1>5. IdInv'
  BY DataManagerAssumption DEF IInv, TypeOK, Data, MtInv, PointerInv, IdInv, Release, Drop,
         WorkerRefs, Freed, NewData, mtVars
<1>6. PlannerInv'
  BY DataManagerAssumption DEF IInv, TypeOK, Data, MtInv, PointerInv, IdInv, PlannerInv,
         Holding, Counted, Release, Drop, WorkerRefs, Freed, NewData, mtVars
<1>7. CompleteInv'
  BY DataManagerAssumption DEF IInv, TypeOK, Data, MtInv, PointerInv, CompleteInv, Release,
         Drop, WorkerRefs, Freed, NewData, mtVars
<1>8. LoadedInv'
  BY DataManagerAssumption DEF IInv, TypeOK, Data, MtInv, PointerInv, LoadedInv, Release,
         Drop, WorkerRefs, Freed, NewData, mtVars
<1>9. FlagInv'
  BY DataManagerAssumption DEF IInv, TypeOK, Data, MtInv, PointerInv, FlagInv, Release, Drop,
         WorkerRefs, Freed, NewData, mtVars
<1> QED
  BY <1>1, <1>2, <1>3, <1>4, <1>5, <1>6, <1>7, <1>8, <1>9 DEF IInv

-----------------------------------------------------------------------------
(* The invariant *)

\* The empty Data kraken starts with satisfies the invariant.
LEMMA InitInv == Init => IInv
<1> SUFFICES ASSUME Init PROVE IInv
  OBVIOUS
<1>1. PICK a \in Addr :
         /\ heap = [b \in Addr |-> IF b = a THEN NewData(0, 1) ELSE Freed]
         /\ current_data = a
  BY DEF Init
<1>2. mt.pc = "idle" /\ mt.data = Null /\ channel_opened = FALSE
  BY DEF Init
<1>3. TypeOK
  <2>1. heap \in [Addr -> Data] /\ current_data \in Addr
    BY <1>1, DataTypes
  <2>2. mt \in [pc : MtPc, task : {"none", "load", "realtime"}, data : Addr \cup {Null}]
    BY DEF Init, MtPc
  <2>3. mutex \in [readers : SUBSET Workers, exclusive : BOOLEAN, waiting : BOOLEAN]
    BY DEF Init
  <2>4. born \in Nat /\ data_identifier \in Nat
    BY DEF Init
  <2>5. wpc \in [Workers -> WorkerPc] /\ ptr \in [Workers -> Addr \cup {Null}]
    BY DEF Init, WorkerPc
  <2>6. /\ planner \in [Workers -> [on : Addr \cup {Null}, serial : Nat]]
        /\ last_data_identifier \in [Workers -> Nat]
    BY DataManagerAssumption DEF Init, NoIdentifier
  <2>7. reply \in [Workers -> Reply]
    BY DEF Init, Reply, NoReply
  <2> QED
    BY <2>1, <2>2, <2>3, <2>4, <2>5, <2>6, <2>7, <1>2 DEF TypeOK
<1>4. MtInv /\ MutexInv
  BY DEF Init, MtInv, MutexInv
<1>5. \A b \in Addr : heap[b].alive => b = a
  BY <1>1 DEF Freed, NewData
<1>6. /\ heap[a].alive /\ heap[a].id = 0 /\ heap[a].serial = 1 /\ ~heap[a].loading
      /\ heap[a].is_connected_to_rabbitmq = FALSE
  BY <1>1 DEF NewData
<1>7. PointerInv /\ IdInv
  BY <1>1, <1>5, <1>6 DEF Init, PointerInv, IdInv, Holding, Counted
<1>8. PlannerInv /\ CompleteInv
  BY <1>1, <1>5, <1>6 DEF Init, PlannerInv, CompleteInv
<1>9. LoadedInv /\ FlagInv
  BY <1>1, <1>6, <1>2 DEF LoadedInv, FlagInv
<1> QED
  BY <1>3, <1>4, <1>7, <1>8, <1>9 DEF IInv

\* A step that changes nothing preserves it.
LEMMA StutterInv == ASSUME IInv, UNCHANGED vars PROVE IInv'
  BY DEF IInv, TypeOK, MtInv, MutexInv, PointerInv, IdInv, PlannerInv, CompleteInv, LoadedInv,
         FlagInv, vars, workerVars

\* Every step preserves it.
LEMMA NextInv == ASSUME IInv, [Next]_vars PROVE IInv'
<1>1. CASE StartLoad
  BY <1>1, StartLoadInv
<1>2. CASE GetDataClone
  BY <1>2, GetDataCloneInv
<1>3. CASE \E b \in BOOLEAN : SetConnected(b)
  BY <1>3, SetConnectedInv
<1>4. CASE MaintenanceStep
  BY <1>4, LoadNavInv, LoadNavFailsInv, LoadDisruptionsInv, LoadDisruptionsFailsInv,
     ReloadNavInv, ApplyEntitiesInv, ApplyFailsInv, BuildInv, SetDataFlagInv,
     WaitExclusiveInv, LockExclusiveInv, SwapInv, PostLoadInv
  DEF MaintenanceStep
<1>5. CASE \E w \in Workers : Receive(w) \/ WorkerStep(w)
  BY <1>5, ReceiveInv, CopyPointerInv, CountReferenceInv, InitWorkerDataInv, DispatchInv,
     RespondInv, ReleaseInv
  DEF WorkerStep
<1>6. CASE UNCHANGED vars
  BY <1>6, StutterInv
<1> QED
  BY <1>1, <1>2, <1>3, <1>4, <1>5, <1>6 DEF Next

\* IInv holds in every reachable state: the fact all theorems below rest on.
LEMMA Invariance == Spec => []IInv
  BY InitInv, NextInv, PTL DEF Spec

-----------------------------------------------------------------------------
(* Theorems *)

\* The state of the dataset manager, of the maintenance thread and of the request threads
\* is always of the declared shape, however loads, clones and requests interleave.
THEOREM TypeCorrectness == Spec => []TypeOK
  BY Invariance, PTL DEF IInv

\* No thread reads a freed dataset: get_data cannot copy a pointer that set_data is
\* replacing, and the planner a worker thread keeps between requests is never followed
\* into a dataset that is gone.
THEOREM MemorySafety == Spec => []NoUseAfterFree
<1>1. IInv => NoUseAfterFree
  BY DataManagerAssumption
  DEF IInv, MtInv, PointerInv, PlannerInv, NoUseAfterFree, Holding, Counted
<1> QED
  BY <1>1, Invariance, PTL

\* init_worker_data's comparison of data_identifier is enough: whenever a handler runs, its
\* planner was built on the dataset the request acquired, even though identifiers are
\* shared by the two Data of a load whose disruptions failed, and addresses are reused.
THEOREM PlannerNeverStale == Spec => []PlannerOnSnapshot
<1>1. IInv => PlannerOnSnapshot
  BY DEF IInv, PointerInv, PlannerInv, PlannerOnSnapshot, Holding, Counted
<1> QED
  BY <1>1, Invariance, PTL

\* set_data publishes only datasets whose raptor data, relations and proximity list are
\* built, so a request never sees one under construction.
THEOREM OnlyCompleteDataServed == Spec => []SnapshotComplete
<1>1. IInv => SnapshotComplete
  BY DEF IInv, PointerInv, CompleteInv, SnapshotComplete, Holding, Counted
<1> QED
  BY <1>1, Invariance, PTL

\* set_data's copy of is_connected_to_rabbitmq keeps the status of the published dataset
\* equal to the state of the broker channel.
THEOREM ConnectionFlag == Spec => []ConnectionFlagCarried
<1>1. IInv => ConnectionFlagCarried
  BY DEF IInv, FlagInv, ConnectionFlagCarried
<1> QED
  BY <1>1, Invariance, PTL

-----------------------------------------------------------------------------
(* What a step may do to a published dataset *)

\* A step changes the content of the object under construction only; it may also free or
\* allocate an object.
LEMMA HeapStep ==
    ASSUME IInv, [Next]_vars, NEW a \in Addr, a # mt.data, heap[a].alive, heap'[a].alive
    PROVE  Content(heap'[a]) = Content(heap[a])
<1> USE DEF IInv, TypeOK, Data, Content
<1>1. CASE StartLoad
  BY <1>1 DEF StartLoad, Free
<1>2. CASE GetDataClone
  BY <1>2 DEF GetDataClone, Free
<1>3. CASE \E b \in BOOLEAN : SetConnected(b)
  BY <1>3 DEF SetConnected
<1>4. CASE MaintenanceStep
  <2>1. CASE LoadNavFails \/ ApplyFails \/ Swap
    BY <2>1 DEF LoadNavFails, ApplyFails, Swap, Drop, Freed, NewData
  <2>2. CASE LoadDisruptionsFails
    BY <2>2 DEF LoadDisruptionsFails, Drop, Freed, NewData, Free
  <2>3. CASE Build \/ SetDataFlag \/ PostLoad
    BY <2>3 DEF Build, SetDataFlag, PostLoad
  <2> QED
    BY <1>4, <2>1, <2>2, <2>3
    DEF MaintenanceStep, LoadNav, LoadDisruptions, ReloadNav, ApplyEntities, WaitExclusive,
        LockExclusive
<1>5. CASE \E w \in Workers : Receive(w) \/ WorkerStep(w)
  <2>1. PICK w \in Workers : Receive(w) \/ WorkerStep(w)
    BY <1>5
  <2>2. CASE Release(w)
    BY <2>2 DEF Release, Drop, Freed, NewData
  <2> QED
    BY <2>1, <2>2
    DEF WorkerStep, Receive, CopyPointer, CountReference, InitWorkerData, Dispatch, Respond
<1>6. CASE UNCHANGED vars
  BY <1>6 DEF vars
<1> QED
  BY <1>1, <1>2, <1>3, <1>4, <1>5, <1>6 DEF Next

\* Only the swap of set_data changes the published pointer.
LEMMA CurrentStep ==
    ASSUME IInv, [Next]_vars
    PROVE  \/ /\ current_data' = current_data
              /\ Content(heap'[current_data]) = Content(heap[current_data])
           \/ Swap
<1>1. current_data' = current_data \/ Swap
  BY DEF Next, vars, workerVars, StartLoad, GetDataClone, SetConnected, MaintenanceStep, LoadNav,
         LoadNavFails, LoadDisruptions, LoadDisruptionsFails, ReloadNav, ApplyEntities,
         ApplyFails, Build, SetDataFlag, WaitExclusive, LockExclusive, PostLoad, Receive,
         WorkerStep, CopyPointer, CountReference, InitWorkerData, Dispatch, Respond, Release
<1>2. CASE current_data' = current_data
  <2>1. heap'[current_data].alive
    BY <1>2, NextInv DEF IInv, PointerInv
  <2> QED
    BY <1>2, <2>1, HeapStep, DataManagerAssumption DEF IInv, TypeOK, PointerInv, MtInv
<1> QED
  BY <1>1, <1>2

\* Once loaded data is in service, no load, failed or not, and no realtime batch ever puts
\* an unloaded dataset in its place.
THEOREM NoServiceInterruption == Spec => NoInterruption
<1>1. ASSUME IInv, [Next]_vars, heap[current_data].loaded
      PROVE  heap'[current_data'].loaded
  <2>1. CASE Swap
    <3>1. heap'[current_data'] = heap[mt.data]
      BY <2>1 DEF IInv, TypeOK, MtInv, Swap, Drop
    <3> QED
      BY <1>1, <2>1, <3>1 DEF IInv, MtInv, LoadedInv, Swap
  <2> QED
    BY <1>1, <2>1, CurrentStep DEF Content
<1> QED
  BY <1>1, Invariance, PTL DEF Spec, NoInterruption

\* What a request has read does not change under it: realtime batches work on a clone, and
\* loads on a new object.
THEOREM SnapshotStability == Spec => SnapshotStable
<1>1. ASSUME IInv, [Next]_vars, NEW w \in Workers, wpc[w] \in Counted, wpc'[w] \in Counted
      PROVE  ptr'[w] = ptr[w] /\ Content(heap'[ptr[w]]) = Content(heap[ptr[w]])
  <2>1. ptr'[w] = ptr[w]
    BY <1>1
    DEF IInv, TypeOK, Counted, Next, vars, workerVars, StartLoad, GetDataClone, SetConnected,
        MaintenanceStep, LoadNav, LoadNavFails, LoadDisruptions, LoadDisruptionsFails,
        ReloadNav, ApplyEntities, ApplyFails, Build, SetDataFlag, WaitExclusive,
        LockExclusive, Swap, PostLoad, Receive, WorkerStep, CopyPointer, CountReference,
        InitWorkerData, Dispatch, Respond, Release
  <2>2. /\ ptr[w] \in Addr /\ heap[ptr[w]].alive /\ ptr[w] # mt.data
        /\ heap'[ptr'[w]].alive
    BY <1>1, NextInv DEF IInv, PointerInv, Holding
  <2> QED
    BY <1>1, <2>1, <2>2, HeapStep
<1>2. IInv /\ [Next]_vars => StableStep
  BY <1>1 DEF StableStep
<1> QED
  BY <1>2, Invariance, PTL DEF Spec, SnapshotStable

-----------------------------------------------------------------------------
(* Refinement: the threads implement an atomic register of datasets *)

\* A step that leaves the published content, and the request threads, alone is invisible.
LEMMA InvisibleStep ==
    ASSUME IInv, [Next]_vars, UNCHANGED <<current_data, workerVars>>
    PROVE  UNCHANGED Service!vars
<1>1. UNCHANGED <<heap[current_data].serial, heap[current_data].loaded>>
  <2>1. Content(heap'[current_data]) = Content(heap[current_data])
    BY CurrentStep DEF Swap, IInv, MtInv
  <2> QED
    BY <2>1 DEF Content
<1>2. ASSUME NEW w \in Workers, wpc[w] \in {"copied"} \cup Counted
      PROVE  /\ heap'[ptr[w]].serial = heap[ptr[w]].serial
             /\ heap'[ptr[w]].loaded = heap[ptr[w]].loaded
  <2>1. /\ ptr[w] \in Addr /\ heap[ptr[w]].alive /\ ptr[w] # mt.data
        /\ heap'[ptr[w]].alive
    BY <1>2, NextInv DEF IInv, PointerInv, Holding, workerVars
  <2> QED
    BY <2>1, HeapStep DEF Content
<1>3. view' = view
  BY <1>2 DEF view, workerVars
<1>4. phase' = phase
  BY DEF phase, workerVars
<1> QED
  BY <1>1, <1>3, <1>4 DEF Service!vars, workerVars

\* The same of a step of thread w that changes neither its phase nor what it points to.
LEMMA InvisibleWorkerStep ==
    ASSUME IInv, NEW w \in Workers, CountReference(w) \/ InitWorkerData(w) \/ Respond(w)
    PROVE  UNCHANGED Service!vars
<1>1. /\ UNCHANGED <<heap, current_data, ptr, reply>>
      /\ \A v \in Workers : wpc'[v] = wpc[v] \/ v = w
  BY DEF IInv, TypeOK, CountReference, InitWorkerData, Respond
<1>2. \/ wpc[w] = "copied" /\ wpc'[w] = "acquired"
      \/ wpc[w] = "acquired" /\ wpc'[w] = "ready"
      \/ wpc[w] = "answered" /\ wpc'[w] = "sent"
  BY DEF IInv, TypeOK, CountReference, InitWorkerData, Respond
<1>3. view' = view
  BY <1>1, <1>2 DEF view, Counted
<1>4. phase' = phase
  BY <1>1, <1>2 DEF phase
<1> QED
  BY <1>1, <1>3, <1>4 DEF Service!vars

\* The swap of set_data is the publication of a newer dataset.
LEMMA SwapPublishes == ASSUME IInv, [Next]_vars, Swap PROVE Service!Publish
<1>1. heap'[current_data'] = heap[mt.data]
  BY DEF IInv, TypeOK, MtInv, Swap, Drop
<1>2. heap'[current_data'].serial > heap[current_data].serial
  BY <1>1 DEF IInv, TypeOK, Data, MtInv, IdInv, Swap
<1>3. heap[current_data].loaded => heap'[current_data'].loaded
  BY <1>1 DEF IInv, MtInv, LoadedInv, Swap
<1>4. ASSUME NEW w \in Workers, wpc[w] \in {"copied"} \cup Counted
      PROVE  /\ heap'[ptr[w]].serial = heap[ptr[w]].serial
             /\ heap'[ptr[w]].loaded = heap[ptr[w]].loaded
  <2>1. /\ ptr[w] \in Addr /\ heap[ptr[w]].alive /\ ptr[w] # mt.data
        /\ heap'[ptr[w]].alive
    BY <1>4, NextInv DEF IInv, PointerInv, Holding, Swap, workerVars
  <2> QED
    BY <2>1, HeapStep DEF Content
<1>5. UNCHANGED <<phase, view, reply>>
  BY <1>4 DEF Swap, workerVars, phase, view
<1> QED
  BY <1>2, <1>3, <1>5 DEF Service!Publish

\* Receiving a request is asking.
LEMMA ReceiveAsks == ASSUME IInv, NEW w \in Workers, Receive(w) PROVE Service!Ask(w)
<1>1. phase[w] = "idle" /\ phase' = [phase EXCEPT ![w] = "asked"]
  BY DEF IInv, TypeOK, Receive, phase
<1>2. view' = view
  BY DEF IInv, TypeOK, Receive, view, Counted
<1> QED
  BY <1>1, <1>2 DEF Service!Ask, Receive

\* Copying the pointer is the one read of the register.
LEMMA CopyPointerReads == ASSUME IInv, NEW w \in Workers, CopyPointer(w) PROVE Service!Read(w)
<1>1. phase[w] = "asked" /\ phase' = [phase EXCEPT ![w] = "reading"]
  BY DEF IInv, TypeOK, CopyPointer, phase
<1>2. view' = [view EXCEPT ![w] = [version |-> heap[current_data].serial,
                                   ready |-> heap[current_data].loaded]]
  BY DEF IInv, TypeOK, CopyPointer, view, Counted
<1> QED
  BY <1>1, <1>2 DEF Service!Read, CopyPointer

\* The answer is computed from that read, planner included.
LEMMA DispatchAnswers == ASSUME IInv, NEW w \in Workers, Dispatch(w) PROVE Service!Answer(w)
<1>1. phase[w] = "reading" /\ phase' = [phase EXCEPT ![w] = "answered"]
  BY DEF IInv, TypeOK, Dispatch, phase
<1>2. view' = view
  BY DEF IInv, TypeOK, Dispatch, view, Counted
<1>3. /\ view[w].version = heap[ptr[w]].serial
      /\ view[w].ready = heap[ptr[w]].loaded
  BY DEF view, Dispatch, Counted
<1>4. heap[planner[w].on].serial = heap[ptr[w]].serial
  BY DEF IInv, PointerInv, PlannerInv, Holding, Counted, Dispatch
<1>5. \E r \in Service!Replies(heap[ptr[w]].serial, heap[ptr[w]].loaded) :
         reply' = [reply EXCEPT ![w] = r]
  BY <1>4 DEF Dispatch, PublicationDate, Service!Replies
<1> QED
  BY <1>1, <1>2, <1>3, <1>5 DEF Service!Answer, Dispatch

\* Releasing the Data ends the request.
LEMMA ReleaseEnds == ASSUME IInv, [Next]_vars, NEW w \in Workers, Release(w) PROVE Service!Done(w)
<1>1. phase[w] = "answered" /\ phase' = [phase EXCEPT ![w] = "idle"]
  BY DEF IInv, TypeOK, Release, phase
<1>2. UNCHANGED <<heap[current_data].serial, heap[current_data].loaded>>
  BY CurrentStep DEF Content, Release, Swap, IInv, MtInv
<1>3. ASSUME NEW v \in Workers \ {w}, wpc[v] \in {"copied"} \cup Counted
      PROVE  /\ heap'[ptr[v]].serial = heap[ptr[v]].serial
             /\ heap'[ptr[v]].loaded = heap[ptr[v]].loaded
             /\ ptr'[v] = ptr[v] /\ wpc'[v] = wpc[v]
  <2>1. ptr'[v] = ptr[v] /\ wpc'[v] = wpc[v]
    BY <1>3 DEF IInv, TypeOK, Release
  <2>2. /\ ptr[v] \in Addr /\ heap[ptr[v]].alive /\ ptr[v] # mt.data
        /\ heap'[ptr[v]].alive
    BY <1>3, <2>1, NextInv DEF IInv, PointerInv, Holding
  <2> QED
    BY <2>1, <2>2, HeapStep DEF Content
<1>4. view' = [view EXCEPT ![w] = [version |-> 0, ready |-> FALSE]]
  BY <1>3 DEF IInv, TypeOK, Release, view, Counted
<1> QED
  BY <1>1, <1>2, <1>4 DEF Service!Done, Service!NoReply, NoReply, Release

\* Every request reads the register of datasets exactly once, at the instant get_data
\* copies the pointer, and its whole answer comes from that read.
THEOREM ImplementsDataService == Spec => AtomicSnapshots
<1>1. Init => Service!Init
  <2> SUFFICES ASSUME Init PROVE Service!Init
    OBVIOUS
  <2>1. heap[current_data].serial = 1 /\ heap[current_data].loaded = FALSE
    BY DEF Init, NewData
  <2>2. phase = [w \in Workers |-> "idle"]
    BY DEF Init, phase
  <2>3. view = [w \in Workers |-> [version |-> 0, ready |-> FALSE]]
    BY DEF Init, view, Counted
  <2> QED
    BY <2>1, <2>2, <2>3 DEF Init, Service!Init, Service!NoReply, NoReply
<1>2. ASSUME IInv, [Next]_vars PROVE [Service!Next]_(Service!vars)
  <2>1. CASE StartLoad \/ GetDataClone \/ (\E b \in BOOLEAN : SetConnected(b))
    BY <1>2, <2>1, InvisibleStep DEF StartLoad, GetDataClone, SetConnected
  <2>2. CASE MaintenanceStep
    <3>1. CASE Swap
      BY <1>2, <3>1, SwapPublishes DEF Service!Next
    <3> QED
      BY <1>2, <2>2, <3>1, InvisibleStep
      DEF MaintenanceStep, LoadNav, LoadNavFails, LoadDisruptions, LoadDisruptionsFails,
          ReloadNav, ApplyEntities, ApplyFails, Build, SetDataFlag, WaitExclusive,
          LockExclusive, PostLoad
  <2>3. CASE \E w \in Workers : Receive(w) \/ WorkerStep(w)
    <3>1. PICK w \in Workers : Receive(w) \/ WorkerStep(w)
      BY <2>3
    <3>2. CASE Receive(w)
      BY <1>2, <3>2, ReceiveAsks DEF Service!Next
    <3>3. CASE CopyPointer(w)
      BY <1>2, <3>3, CopyPointerReads DEF Service!Next
    <3>4. CASE CountReference(w) \/ InitWorkerData(w) \/ Respond(w)
      BY <1>2, <3>4, InvisibleWorkerStep
    <3>5. CASE Dispatch(w)
      BY <1>2, <3>5, DispatchAnswers DEF Service!Next
    <3>6. CASE Release(w)
      BY <1>2, <3>6, ReleaseEnds DEF Service!Next
    <3> QED
      BY <3>1, <3>2, <3>3, <3>4, <3>5, <3>6 DEF WorkerStep
  <2>4. CASE UNCHANGED vars
    BY <1>2, <2>4, InvisibleStep DEF vars
  <2> QED
    BY <1>2, <2>1, <2>2, <2>3, <2>4 DEF Next
<1> QED
  BY <1>1, <1>2, Invariance, PTL DEF Spec, AtomicSnapshots, Service!Spec

=============================================================================
