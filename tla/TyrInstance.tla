---------------------------- MODULE TyrInstance ----------------------------
(***************************************************************************)
(* The parameters of an instance and the request of tyr that changes them. *)
(* PUT loads the row with its associated services, gives every argument    *)
(* that is absent the value it loaded, assigns all of them and commits.    *)
(* The session writes the columns whose value differs from the one it      *)
(* loaded, and the differences of the associated services.                 *)
(***************************************************************************)
EXTENDS Integers, FiniteSets

CONSTANTS
  Puts,       \* the requests that may be under way together
  Given,      \* the arguments that requests give
  GivenModes, \* the modes of max_nb_crowfly_by_mode that requests give
  GivenLists, \* the lists of services that requests give
  Services,   \* ids of services
  Known,      \* those that have a row
  MaxPuts     \* bound on the requests

VARIABLES
  row,       \* column |-> value, for the columns that are not as InstancePost leaves them
  crowfly,   \* mode |-> value of max_nb_crowfly_by_mode
  lists,     \* list |-> the services associated with the instance
  put,       \* request |-> what it loaded
  answer,    \* the status of the last request that ended
  begun      \* how many requests were made
vars == <<row, crowfly, lists, put, answer, begun>>

(* The arguments, in the order put declares them. *)
CrowflyModes == {"car", "car_no_park", "walking", "bike", "bss", "ridesharing", "taxi"}
FallbackArgs ==
  {"scenario", "journey_order", "max_walking_duration_to_pt", "max_bike_duration_to_pt",
   "max_bss_duration_to_pt", "max_car_duration_to_pt", "max_car_no_park_duration_to_pt", "max_nb_transfers",
   "walking_speed", "bike_speed", "bss_speed", "car_speed", "car_no_park_speed", "taxi_speed",
   "min_bike", "min_bss", "min_car", "min_ridesharing", "min_taxi"}
FilterArgs ==
  {"successive_physical_mode_to_limit_id", "max_duration", "arrival_transfer_penalty",
   "walking_transfer_penalty", "night_bus_filter_max_factor", "night_bus_filter_base_factor", "priority",
   "bss_provider", "full_sn_geometries", "is_free", "is_open_data", "import_stops_in_mimir",
   "import_ntfs_in_mimir", "admins_from_cities_db", "min_nb_journeys", "min_journeys_calls",
   "final_line_filter", "max_extra_second_pass"}
TaxiArgs ==
  {"autocomplete_backend", "additional_time_after_first_section_taxi",
   "additional_time_before_last_section_taxi", "max_additional_connections", "car_park_provider"}
Backends ==
  {"street_network_car", "street_network_car_no_park", "street_network_walking", "street_network_bike",
   "street_network_bss", "street_network_ridesharing", "street_network_taxi"}
DirectPathArgs ==
  {"max_car_direct_path_duration", "max_car_no_park_direct_path_duration",
   "max_walking_direct_path_duration", "max_bike_direct_path_duration", "max_bss_direct_path_duration",
   "max_ridesharing_direct_path_duration", "max_taxi_direct_path_duration",
   "max_car_direct_path_distance", "max_car_no_park_direct_path_distance",
   "max_walking_direct_path_distance", "max_bike_direct_path_distance", "max_bss_direct_path_distance",
   "max_ridesharing_direct_path_distance", "max_taxi_direct_path_distance"}
RidesharingArgs ==
  {"poi_dataset", "max_taxi_duration_to_pt", "ridesharing_speed", "max_ridesharing_duration_to_pt",
   "stop_points_nearby_duration", "asynchronous_ridesharing", "greenlet_pool_for_ridesharing_services",
   "ridesharing_greenlet_pool_size", "max_waiting_duration", "places_proximity_radius",
   "bss_rent_duration", "bss_return_duration", "bss_rent_penalty", "bss_return_penalty"}
PlannerArgs ==
  {"language", "transfer_path", "access_points", "poi_access_points", "default_pt_planner",
   "pt_planners_configurations", "ghost_words", "filter_odt_journeys", "additional_parameters",
   "co2_emission_car_value", "co2_emission_car_unit"}

\* The arguments whose declaration has no default.
NoDefault == {"max_nb_journeys", "max_successive_physical_mode"}
Declared ==
  FallbackArgs \cup FilterArgs \cup TaxiArgs \cup Backends \cup DirectPathArgs \cup RidesharingArgs
    \cup PlannerArgs \cup NoDefault
\* The lists of services, whose default is [].
ListNames == {"equipment_details_providers", "ridesharing_services", "external_services"}

\* The columns that may be null.
Nullable == NoDefault \cup {"poi_dataset", "ghost_words"}
-----------------------------------------------------------------------------
(* What map_args_to_instance is called with. *)
AssignedJourneys ==
  {"scenario", "journey_order", "max_walking_duration_to_pt", "max_bike_duration_to_pt",
   "max_bss_duration_to_pt", "max_car_duration_to_pt", "max_car_no_park_duration_to_pt", "max_nb_transfers",
   "walking_speed", "bike_speed", "bss_speed", "car_speed", "car_no_park_speed", "taxi_speed",
   "min_bike", "min_bss", "min_car", "min_ridesharing", "min_taxi", "max_duration",
   "walking_transfer_penalty", "arrival_transfer_penalty", "night_bus_filter_max_factor",
   "night_bus_filter_base_factor", "successive_physical_mode_to_limit_id", "priority", "bss_provider",
   "full_sn_geometries", "is_free", "is_open_data", "import_stops_in_mimir", "import_ntfs_in_mimir",
   "admins_from_cities_db", "min_nb_journeys", "max_nb_journeys", "min_journeys_calls",
   "max_successive_physical_mode", "final_line_filter", "max_extra_second_pass", "autocomplete_backend",
   "additional_time_after_first_section_taxi", "additional_time_before_last_section_taxi",
   "max_additional_connections", "car_park_provider"}

AssignedServices ==
  Backends \cup DirectPathArgs
    \cup {"poi_dataset", "max_taxi_duration_to_pt", "ridesharing_speed", "stop_points_nearby_duration",
          "max_ridesharing_duration_to_pt", "asynchronous_ridesharing",
          "greenlet_pool_for_ridesharing_services", "ridesharing_greenlet_pool_size",
          "max_waiting_duration", "places_proximity_radius", "language", "transfer_path", "access_points",
          "poi_access_points", "bss_return_duration", "bss_rent_duration", "bss_rent_penalty",
          "bss_return_penalty", "default_pt_planner", "pt_planners_configurations", "ghost_words",
          "filter_odt_journeys", "additional_parameters", "co2_emission_car_value", "co2_emission_car_unit"}
Assigned == AssignedJourneys \cup AssignedServices
-----------------------------------------------------------------------------
Idle == [phase |-> "idle"]
Value(r, c) == IF c \in DOMAIN r THEN r[c] ELSE IF c \in NoDefault THEN "null" ELSE "initial"

\* An argument: the one of the request, or else its default.
Arg(q, c) ==
  IF c \in DOMAIN q.given.columns THEN q.given.columns[c]
  ELSE IF c \in NoDefault THEN "null" ELSE Value(q.row, c)
ListArg(q, l) == IF l \in DOMAIN q.given.lists THEN q.given.lists[l] ELSE {}

\* Every assignment is written.
AllColumns(q) == Assigned
\* The session writes the attributes whose value is not the one it loaded.
Dirty(q) == {c \in Assigned : Arg(q, c) # Value(q.row, c)}

\* A copy of the modes that were loaded, updated with the modes of the request.
Merged(q) == [m \in CrowflyModes |-> IF m \in DOMAIN q.given.modes THEN q.given.modes[m] ELSE q.crowfly[m]]

\* The list is emptied, then filled: when a service that was not loaded is looked up, what
\* is not in the list yet is flushed as deleted, and inserted again later.
Reinserted(q) ==
  {again \in [ListNames -> SUBSET UNION {q.lists[l] \cap ListArg(q, l) : l \in ListNames}] :
     \A l \in ListNames :
       /\ again[l] \subseteq q.lists[l] \cap ListArg(q, l)
       /\ ListArg(q, l) \subseteq q.lists[l] => again[l] = {}}
Removed(q, l, again) == (q.lists[l] \ ListArg(q, l)) \cup again[l]
Added(q, l, again) == (ListArg(q, l) \ q.lists[l]) \cup again[l]

\* A service without row answers 400.  A null or a street network without row breaks a
\* constraint of the columns; a service that another request associated since breaks the
\* primary key of the association.
Refused(q, again) ==
  \/ \E l \in ListNames : ~(ListArg(q, l) \subseteq Known)
  \/ \E c \in Dirty(q) : Arg(q, c) = "null" /\ c \notin Nullable
  \/ \E c \in Dirty(q) \cap Backends : Arg(q, c) = "unknown"
  \/ \E l \in ListNames : Added(q, l, again) \cap (lists[l] \ Removed(q, l, again)) # {}

\* The association to delete is gone: an error for the drivers that count the rows.
Stale(q, again) == \E l \in ListNames : ~(Removed(q, l, again) \subseteq lists[l])

\* get_from_id_or_name: the row and, joined, its services.
Load(p, given) ==
  /\ put[p] = Idle /\ begun < MaxPuts
  /\ begun' = begun + 1
  /\ put' = [put EXCEPT ![p] = [phase |-> "loaded", given |-> given, row |-> row, crowfly |-> crowfly,
                                lists |-> lists]]
  /\ UNCHANGED <<row, crowfly, lists, answer>>

Commit(p) ==
  LET q == put[p] IN
  /\ q.phase = "loaded"
  /\ row' = [c \in DOMAIN row \cup Dirty(q) |-> IF c \in Dirty(q) THEN Arg(q, c) ELSE row[c]]
  /\ crowfly' = IF Merged(q) = q.crowfly THEN crowfly ELSE Merged(q)
  /\ \E again \in Reinserted(q) :
       /\ ~Refused(q, again)
       /\ lists' = [l \in ListNames |-> (lists[l] \ Removed(q, l, again)) \cup Added(q, l, again)]
  /\ put' = [put EXCEPT ![p] = Idle] /\ answer' = "ok"
  /\ UNCHANGED begun

\* The session is rolled back.
Rollback(p) ==
  /\ put[p].phase = "loaded"
  /\ \E again \in Reinserted(put[p]) : Refused(put[p], again) \/ Stale(put[p], again)
  /\ put' = [put EXCEPT ![p] = Idle] /\ answer' = "error"
  /\ UNCHANGED <<row, crowfly, lists, begun>>

Init ==
  /\ row = [c \in {} |-> "initial"] /\ crowfly = [m \in CrowflyModes |-> "initial"]
  /\ lists = [l \in ListNames |-> {}]
  /\ put = [p \in Puts |-> Idle] /\ answer = "none" /\ begun = 0

Nothing == [x \in {} |-> "initial"]
Column(c, v) == [columns |-> [x \in {c} |-> v], modes |-> Nothing, lists |-> Nothing]
OneMode(m, v) == [columns |-> Nothing, modes |-> [x \in {m} |-> v], lists |-> Nothing]
OneList(columns, l, ids) == [columns |-> columns, modes |-> Nothing, lists |-> [x \in {l} |-> ids]]
PriorityB == [x \in {"priority"} |-> "b"]
Values(c) == {"a", "b", "null"} \cup (IF c \in Backends THEN {"unknown"} ELSE {})
\* One parameter, one mode, one list, or a parameter with a list.
PutRequests ==
  (UNION {{Column(c, v) : v \in Values(c)} : c \in Given})
    \cup {OneMode(m, v) : m \in GivenModes, v \in {"a", "b"}}
    \cup {OneList(columns, l, ids) : columns \in {Nothing, PriorityB}, l \in GivenLists, ids \in SUBSET Services}
Next ==
  \/ \E p \in Puts, given \in PutRequests : Load(p, given)
  \/ \E p \in Puts : Commit(p) \/ Rollback(p)
Spec == Init /\ [][Next]_vars
-----------------------------------------------------------------------------
Ends(p) == put[p].phase = "loaded" /\ put'[p] = Idle
Ok(p) == Ends(p) /\ answer' = "ok"
Undisturbed(p) == put[p].row = row /\ put[p].crowfly = crowfly /\ put[p].lists = lists

\* Types: nothing is null that may not be and no service without row is associated.
TypeOK ==
  /\ DOMAIN row \subseteq Declared
  /\ \A c \in DOMAIN row : row[c] = "null" => c \in Nullable
  /\ crowfly \in [CrowflyModes -> {"initial", "a", "b"}] /\ lists \in [ListNames -> SUBSET Known]
  /\ answer \in {"none", "ok", "error"} /\ begun \in 0 .. MaxPuts

\* A request changes no parameter it was not given, even one that another request changed
\* after it loaded the row; but for the two that have no default.
OnlyGiven ==
  \A p \in Puts : Ends(p) =>
    \A c \in Declared \ (NoDefault \cup DOMAIN put[p].given.columns) : Value(row', c) = Value(row, c)

\* Whatever declared argument a request that succeeds gives is what the instance then
\* has, unless the instance had it when the request loaded it and lost it since.
GivenTaken ==
  \A p \in Puts : Ok(p) =>
    LET q == put[p] IN
    /\ \A c \in DOMAIN q.given.columns :
         Value(row', c) = q.given.columns[c] \/ Value(q.row, c) = q.given.columns[c]
    /\ \A m \in DOMAIN q.given.modes :
         crowfly'[m] = q.given.modes[m] \/ q.crowfly[m] = q.given.modes[m]

\* When no other request ended since it loaded the instance, a request leaves the modes it
\* was not given and its lists become those of the instance.
AloneExact ==
  \A p \in Puts : Ok(p) /\ Undisturbed(p) =>
    LET given == put[p].given IN
    /\ \A m \in CrowflyModes \ DOMAIN given.modes : crowfly'[m] = crowfly[m]
    /\ \A l \in DOMAIN given.lists : lists'[l] = given.lists[l]

=============================================================================
