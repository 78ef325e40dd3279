-------------------------- MODULE ProviderManagers --------------------------
(***************************************************************************)
(* The managers of jormungandr that hold connectors to other services      *)
(* (bike and car park availability, equipments, external services,         *)
(* ridesharing, realtime proxies, street networks) and the tables of tyr   *)
(* that configure them.  A manager reads its table at most once per        *)
(* interval, keeps what it has when the database does not answer, and      *)
(* builds again the connectors whose row is newer than what it built.      *)
(***************************************************************************)
EXTENDS Integers, FiniteSets, Sequences, SequencesExt

CONSTANTS
  Rows,         \* ids of a table, a sequence: the order the query returns them in
  Kinds,        \* the managers to check
  Config,       \* the ids that the configuration file defines too (legacy)
  Classes,      \* what the class of a row may be: "good", "raises", "unknown"
  MaxVersion    \* bound on the changes of a row

Direct == {"bss", "street_network"}       \* reads its table; the others read the rows of their instance
Associated == {"bss_stations", "car_parking", "equipment", "external", "ridesharing", "realtime"}
Ids == Range(Rows)

VARIABLES
  kind,      \* which manager this is
  table,     \* id |-> its row; version 0: there is none
  assoc,     \* the rows the instance is associated with
  models,    \* the instance and its rows as memoize keeps them
  due,       \* the update interval is over
  built,     \* id |-> the version its connector was built from, 0: no connector
  broken,    \* the ids whose connector is None
  last,      \* id |-> last_update the manager knows, 0: none
  legacy,    \* the connectors of the configuration file still in use
  raised     \* the last update ended with an exception
vars == <<kind, table, assoc, models, due, built, broken, last, legacy, raised>>
tyr == <<table, assoc>>
manager == <<models, due, built, broken, last, legacy, raised>>

Row(v, c, d) == [version |-> v, class |-> c, discarded |-> d]
NoRow == Row(0, "good", FALSE)
NoModels == [kind |-> "none"]
None == [i \in Ids |-> 0]
Present(i) == table[i].version > 0
-----------------------------------------------------------------------------
(* tyr: the resources of a table and the services of an instance. *)

\* from_json: a put without discarded resets it for street networks and leaves it for
\* the others.
FromJson(i, class, discarded) ==
  Row(table[i].version + 1, class,
      IF discarded # "absent" THEN discarded = "true"
      ELSE IF kind = "street_network" THEN FALSE ELSE table[i].discarded)

\* post: only the tables of bike providers and of street networks have one; the primary
\* key refuses a row that is there.
PostProvider(i, class) ==
  /\ kind \in Direct /\ ~Present(i) /\ MaxVersion > 0
  /\ table' = [table EXCEPT ![i] = FromJson(i, class, "absent")]
  /\ UNCHANGED <<kind, assoc, manager>>

\* put: creates or updates.
PutProvider(i, class, discarded) ==
  /\ table[i].version < MaxVersion
  /\ table' = [table EXCEPT ![i] = FromJson(i, class, discarded)]
  /\ UNCHANGED <<kind, assoc, manager>>

\* delete: the row stays, discarded; a row that already is does not change.
DeleteProvider(i) ==
  /\ Present(i) /\ ~table[i].discarded /\ table[i].version < MaxVersion
  /\ table' = [table EXCEPT ![i].discarded = TRUE, ![i].version = @ + 1]
  /\ UNCHANGED <<kind, assoc, manager>>

\* Instance.put: a list of services that is not given is empty, where the other arguments
\* have the value of the instance.
InstanceArgs(given) == IF given.kind = "absent" THEN {} ELSE given.ids

\* An id without row answers 400 before the commit: nothing of the put is kept.  A
\* discarded row is accepted.
InstancePut(given) ==
  /\ kind \in Associated
  /\ \A i \in InstanceArgs(given) : Present(i)
  /\ assoc' = InstanceArgs(given)
  /\ UNCHANGED <<kind, table, manager>>
-----------------------------------------------------------------------------
(* jormungandr *)

\* The rows of the table that are not discarded, or every row of the instance: the
\* relationship does not look at discarded.
Current ==
  [kind |-> "rows",
   rows |-> IF kind \in Direct THEN {i \in Ids : Present(i) /\ ~table[i].discarded} ELSE assoc,
   table |-> table]

\* The getter: models.X.all asks the database, the rows of an instance come from
\* _get_models, that memoize keeps.
Views == IF kind \in Direct \/ models = NoModels THEN {Current} ELSE {Current, models}

\* The manager as update_config works on it.
State == [built |-> built, broken |-> broken, last |-> last, legacy |-> legacy, raised |-> FALSE]

\* Only rows that are not known.
NotKnown(st, i, view) == st.last[i] = 0

\* A row is new, or its last_update is later than the one known.
Newer(st, i, view) == view.table[i].version > st.last[i]

\* _init_class gives None for a class that cannot be imported; create_object, of street
\* networks, raises for it too.
Raises(class) == class = "raises" \/ (class = "unknown" /\ kind = "street_network")

\* update_provider, which keeps the connector of before when the new one cannot be built.
UpdateProvider(st, i, view) ==
  IF Raises(view.table[i].class) THEN st
  ELSE [st EXCEPT !.built[i] = view.table[i].version, !.last[i] = view.table[i].version,
                  !.broken = IF view.table[i].class = "unknown" THEN @ \cup {i} ELSE @ \ {i}]

\* Equipments: the id leaves the configuration whatever its connector became.
UpdateEquipment(st, i, view) == [UpdateProvider(st, i, view) EXCEPT !.legacy = @ \ {i}]

\* Ridesharing and realtime: a connector of the configuration equal to one of the
\* database leaves; comparing it with None is an exception.
UpdateDeduplicating(st, i, view) ==
  LET new == UpdateProvider(st, i, view)
      known == {j \in Ids : new.built[j] > 0}
  IN  IF st.legacy = {} \/ known = {} THEN new
      ELSE IF new.broken # {} /\ st.legacy \ (known \ new.broken) # {} THEN [new EXCEPT !.raised = TRUE]
      ELSE [new EXCEPT !.legacy = @ \ (known \ new.broken)]

Step(st, i, view) ==
  CASE kind = "equipment" -> UpdateEquipment(st, i, view)
    [] kind \in {"ridesharing", "realtime"} -> UpdateDeduplicating(st, i, view)
    [] OTHER -> UpdateProvider(st, i, view)

\* The loop over the rows: those that are new or newer; an exception ends it.
UpdateAll(st, view) ==
  FoldLeft(LAMBDA s, i : IF i \in view.rows /\ Newer(s, i, view) /\ ~s.raised THEN Step(s, i, view) ELSE s,
           st, Rows)

NeedUpdate(st, view) == \E i \in view.rows : Newer(st, i, view)

Cleared(st) == [st EXCEPT !.built = None, !.last = None, !.broken = {}]

\* The rows that went are dropped.
Forget(st, view) ==
  [st EXCEPT !.built = [i \in Ids |-> IF i \in view.rows THEN @[i] ELSE 0],
             !.last = [i \in Ids |-> IF i \in view.rows THEN @[i] ELSE 0],
             !.broken = @ \cap view.rows]

UpdateBss(st, view) ==
  IF view.rows = {} THEN Cleared(st) ELSE Forget(UpdateAll(st, view), view)

\* Car parks: nothing is done, deletions included, when no row is newer.
UpdateCarParking(st, view) ==
  IF view.rows = {} THEN Cleared(st)
  ELSE IF ~NeedUpdate(st, view) THEN st
  ELSE Forget(UpdateAll(st, view), view)

UpdateEquipments(st, view) == IF view.rows = {} THEN Cleared(st) ELSE UpdateAll(st, view)
UpdateRidesharing(st, view) == IF view.rows = {} THEN Cleared(st) ELSE UpdateAll(st, view)
UpdateRealtime(st, view) == IF view.rows = {} THEN Cleared(st) ELSE UpdateAll(st, view)
UpdateStreetNetworks(st, view) == IF view.rows = {} THEN Cleared(st) ELSE UpdateAll(st, view)

\* External services: all are built again when one is newer and replace those of the
\* configuration; without a row the connectors stay.
UpdateExternal(st, view) ==
  IF view.rows = {} THEN [st EXCEPT !.last = None]
  ELSE IF ~NeedUpdate(st, view) THEN st
  ELSE FoldLeft(LAMBDA s, i : IF i \in view.rows THEN UpdateProvider(s, i, view) ELSE s,
                [st EXCEPT !.built = None, !.broken = {}, !.legacy = {}], Rows)

Updated(st, view) ==
  CASE kind \in {"bss", "bss_stations"} -> UpdateBss(st, view)
    [] kind = "car_parking" -> UpdateCarParking(st, view)
    [] kind = "equipment" -> UpdateEquipments(st, view)
    [] kind = "external" -> UpdateExternal(st, view)
    [] kind = "ridesharing" -> UpdateRidesharing(st, view)
    [] kind = "realtime" -> UpdateRealtime(st, view)
    [] kind = "street_network" -> UpdateStreetNetworks(st, view)

\* A database that does not answer empties the manager.
UnreachableClears ==
  /\ due /\ due' = FALSE /\ built' = None /\ last' = None /\ broken' = {} /\ raised' = FALSE
  /\ UNCHANGED <<kind, tyr, models, legacy>>

\* can_connect_to_database fails or the getter raises: the values of before are used for
\* another interval.
UpdateUnreachable ==
  /\ due /\ due' = FALSE /\ raised' = FALSE
  /\ UNCHANGED <<kind, tyr, models, built, broken, last, legacy>>

UpdateFrom(view) ==
  LET new == Updated(State, view)
  IN  /\ due /\ due' = FALSE
      /\ models' = IF kind \in Direct THEN models ELSE view
      /\ built' = new.built /\ broken' = new.broken /\ last' = new.last
      /\ legacy' = new.legacy /\ raised' = new.raised
      /\ UNCHANGED <<kind, tyr>>
UpdateConfig == \E view \in Views : UpdateFrom(view)
UpdateFresh == UpdateFrom(Current)

IntervalOver == ~due /\ due' = TRUE /\ UNCHANGED <<kind, tyr, models, built, broken, last, legacy, raised>>

Init ==
  /\ kind \in Kinds
  /\ table = [i \in Ids |-> NoRow] /\ assoc = {} /\ models = NoModels
  /\ due = TRUE /\ built = None /\ broken = {} /\ last = None
  /\ legacy = Config /\ raised = FALSE

Lists == {[kind |-> "absent"]} \cup [kind : {"given"}, ids : SUBSET Ids]
TyrStep ==
  \/ \E i \in Ids, c \in Classes : PostProvider(i, c)
  \/ \E i \in Ids, c \in Classes, d \in {"absent", "true", "false"} : PutProvider(i, c, d)
  \/ \E i \in Ids : DeleteProvider(i)
  \/ \E given \in Lists : InstancePut(given)
Next == TyrStep \/ UpdateUnreachable \/ UpdateConfig \/ IntervalOver

Spec == Init /\ [][Next]_vars
-----------------------------------------------------------------------------
Wanted(i) == Present(i) /\ ~table[i].discarded /\ (kind \in Direct \/ i \in assoc)
Serves(i) == built[i] = table[i].version /\ i \notin broken
Served == {i \in Ids : built[i] > 0}

\* Types.
TypeOK ==
  /\ kind \in Kinds /\ assoc \subseteq {i \in Ids : Present(i)}
  /\ table \in [Ids -> [version : 0 .. MaxVersion, class : Classes \cup {"good"}, discarded : BOOLEAN]]
  /\ due \in BOOLEAN /\ raised \in BOOLEAN
  /\ built \in [Ids -> 0 .. MaxVersion] /\ last \in [Ids -> 0 .. MaxVersion]
  /\ broken \subseteq Served /\ legacy \subseteq Config

\* What was built from a row is used until the row changes or the instance leaves it: no
\* failure of the database, of another row or of an update loses it.
NothingLost ==
  \A i \in Ids : Serves(i) /\ Wanted(i) => (built'[i] = built[i] \/ models' # Current)

\* An update that reads the database leaves no connector of a row that is discarded or
\* that the instance left.
NothingDiscarded == UpdateFresh => Served' \subseteq {i \in Ids : Wanted(i)}

=============================================================================
