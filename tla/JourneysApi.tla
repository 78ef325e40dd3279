----------------------------- MODULE JourneysApi -----------------------------
(***************************************************************************)
(* /journeys: the parameters of a request (interfaces/v1/Journeys.py and   *)
(* journey_common.py).  What the query leaves out comes from the profile   *)
(* of the traveller (travelers_profile.py), then from the row of the       *)
(* instance in the database of tyr, read through the caches (instance.py), *)
(* then from default_values.py.  The possible regions are asked one after  *)
(* the other until one finds journeys in public transport.                 *)
(*                                                                         *)
(* A value is where it comes from: <<"query", n>>, <<"parser">>,           *)
(* <<"profile", coverage, type, version>>, <<"row", instance, version,     *)
(* column>>, <<"default", column>>...                                      *)
(***************************************************************************)
EXTENDS JourneysParams, SequencesExt, MemoCache

CONSTANTS
  Clients,      \* the requests that may be served at the same time
  Instances,    \* in the order of sort_regions
  RegionsOf,    \* place |-> the instances that know it
  TimeZone,     \* instance |-> its time zone
  Scenario,     \* instance |-> the scenario of each version of its row
  Nulls,        \* the columns that are null in the rows
  Requests,     \* [region, uri, from, to, scenario, given]: given is argument |-> number
  Answers,      \* what a kraken may answer: "pt", "non_pt" (direct paths only), "none", "unknown_object"
  Coverages,    \* those that have a traveler profile of their own
  MaxNow, MaxRequests, MaxVersion, MaxDowns

VARIABLES
  req,          \* client |-> its request
  version,      \* instance |-> version of its row
  changed,      \* instance |-> when it came
  known,        \* instance |-> the last row that the process read
  chosen,       \* instance |-> the scenario that is loaded
  crowfly,      \* default_values.max_nb_crowfly_by_mode: mode |-> value
  dbUp,
  mem, red, now, served, downs

vars == <<req, version, changed, known, chosen, crowfly, dbUp, mem, red, now, served, downs>>
shared == <<version, changed, known, chosen, crowfly, dbUp, mem, red, now, served, downs>>

All == Range(Instances)
Query(n) == <<"query", n>>
Classic == <<"classic">>
Off == <<"false">>
Walking == <<"walking">>
TaxiMode == 7
RidesharingMode == 8
Value(v) == [kind |-> "value", v |-> v]
Never == -1000
Row(v) == IF v = 0 THEN [kind |-> "none"] ELSE Value(v)
RowOf(value) == IF value.kind = "none" THEN 0 ELSE value.v
Keys == {<<"row", i>> : i \in All} \cup {<<"profile", i, t>> : i \in All \cup {""}, t \in {1, 2}}

-----------------------------------------------------------------------------
(* The arguments and the parameters of an instance *)

Parsed(given) ==
  [k \in ArgumentKeys |-> IF LastOf[k][1] \in DOMAIN given THEN Query(given[LastOf[k][1]]) ELSE LastOf[k][3]]

\* The column that a getter reads.
make_property_getter(getter) == IF getter = "bss_return_penalty" THEN "bss_rent_penalty" ELSE getter

\* row: the version that was read, 0 without a row.
get_value_or_default(i, row, getter) ==
  LET column == make_property_getter(getter)
  IN  IF row = 0 \/ column \in Nulls THEN <<"default", column>> ELSE <<"row", i, row, column>>

Filled(args, params, i, row) ==
  [k \in DOMAIN args |->
     IF args[k] = Absence /\ \E p \in params : p[1] = k
     THEN get_value_or_default(i, row, (CHOOSE p \in params : p[1] = k)[2]) ELSE args[k]]

-----------------------------------------------------------------------------
(* The traveller                                                           *)

Profiled == {"walking_speed", "bike_speed", "bss_speed", "car_speed", "max_walking_duration_to_pt", "max_bike_duration_to_pt",
  "max_bss_duration_to_pt", "max_car_duration_to_pt", "origin_mode", "destination_mode", "wheelchair"}

override_params(args, profile) == [k \in DOMAIN args |-> IF k \in Profiled /\ args[k] = Absence THEN profile ELSE args[k]]

\* Types: 1 is a standard traveller, 2 one in a wheelchair.  A coverage without
\* a profile of its own, or no coverage at all, has the default one.
make_traveler_profile(coverage, type) ==
  Memoize(mem, red, <<"profile", coverage, type>>, TRUE,
          Value(<<"profile", IF dbUp /\ coverage \in Coverages THEN coverage ELSE "", type>>))

-----------------------------------------------------------------------------
(* The request                                                             *)

compute_regions(r) ==
  SelectSeq(Instances, LAMBDA i : (r.from # "" => i \in RegionsOf[r.from]) /\ (r.to # "" => i \in RegionsOf[r.to]))
compute_possible_region(r) == IF r.region # "" THEN <<r.region>> ELSE IF r.from = "" /\ r.to = "" THEN <<>> ELSE compute_regions(r)

OverridenDurations == {"max_walking_duration_to_pt", "max_bike_duration_to_pt", "max_bss_duration_to_pt", "max_car_duration_to_pt",
  "max_car_no_park_duration_to_pt", "max_ridesharing_duration_to_pt", "max_taxi_duration_to_pt"}

\* from and to, and an object in the path for from.
Placed(args, r) ==
  [args EXCEPT !["origin"] = IF r.uri # "" THEN <<"query", r.uri>> ELSE IF r.from # "" THEN <<"query", r.from>> ELSE Absence,
               !["destination"] = IF r.to # "" THEN <<"query", r.to>> ELSE Absence]

parse_args(r) ==
  LET args == Placed(Parsed(r.given), r)
  IN  [k \in DOMAIN args |->
         CASE k \in OverridenDurations /\ args["max_duration_to_pt"] # Absence -> args["max_duration_to_pt"]
           [] k = "data_freshness" /\ args[k] = Absence ->
                IF args["disruption_active"] = Query(1) THEN <<"realtime">> ELSE <<"base_schedule">>
           [] k = "origin_mode" /\ args["first_section_mode"] # Absence -> args["first_section_mode"]
           [] k = "destination_mode" /\ args["last_section_mode"] # Absence -> args["last_section_mode"]
           [] k = "_use_excluded_zones" /\ args[k] = Absence -> <<"config">>
           [] k = "original_datetime" -> IF args["datetime"] # Absence THEN args["datetime"] ELSE args["_current_datetime"]
           [] k = "criteria" /\ args["wheelchair"] = Query(1) -> Classic
           [] OTHER -> args[k]]

Isochrone(args) == args["origin"] = Absence \/ args["destination"] = Absence

\* What holds for all the regions: count, isochrones, journey schedules.
Common(args) ==
  [k \in DOMAIN args |->
     CASE k \in {"min_nb_journeys", "max_nb_journeys"} /\ args["count"] \notin {Absence, Query(0)} -> args["count"]
       [] k = "max_duration" /\ args[k] = Absence /\ Isochrone(args) -> <<"isochrone">>
       [] k \in {"_final_line_filter", "no_shared_section"} /\ args["is_journey_schedules"] = Query(1) -> Off
       [] OTHER -> args[k]]

\* The early answers 400.
Invalid(args) ==
  \/ /\ args["min_nb_journeys"][1] = "query" /\ args["max_nb_journeys"][1] = "query"
     /\ args["max_nb_journeys"][2] # 0 /\ args["max_nb_journeys"][2] < args["min_nb_journeys"][2]
  \/ args["origin"] = Absence /\ args["destination"] = Absence
  \/ args["origin"] = args["destination"]
  \/ Isochrone(args) /\ \E k \in {"origin_mode", "destination_mode"} : args[k] = Query(RidesharingMode)

Idle == [pc |-> "idle"]
Over(r, result) == [r EXCEPT !.pc = "over", !.result = result]

get(c) ==
  /\ req[c].pc = "idle" /\ served < MaxRequests
  /\ \E r \in Requests :
       \E args \in {Common(parse_args(r))}, regions \in {compute_possible_region(r)} :
         LET new == [pc |-> "region", request |-> r, regions |-> regions, k |-> 1, args |-> args, base |-> args, start |-> args,
                     aliased |-> FALSE, tz |-> "", rows |-> [i \in All |-> -1], scenario |-> [i \in All |-> ""],
                     sent |-> Absence, crowfly |-> crowfly, responses |-> <<>>, result |-> "", at |-> now]
         IN  req' = [req EXCEPT ![c] = IF regions = <<>> THEN Over(new, "region not found")
                                       ELSE IF Invalid(args) THEN Over(new, "400") ELSE new]
  /\ served' = served + 1
  /\ UNCHANGED <<version, changed, known, chosen, crowfly, dbUp, mem, red, now, downs>>

Region(r) == r.regions[r.k]

\* The profile is looked up with the coverage of the URL, and then the modes
\* are completed.
TakeProfile(c) ==
  /\ req[c].pc = "region"
  /\ LET r == req[c]
         Complete(args) == [k \in DOMAIN args |->
           IF k \in {"origin_mode", "destination_mode"} /\ args[k] = Absence THEN Walking ELSE args[k]]
         Taken(args) == req' = [req EXCEPT ![c].pc = "params", ![c].args = Complete(args)]
     IN  IF r.args["traveler_type"] = Absence THEN Taken(r.args) /\ UNCHANGED <<mem, red>>
         ELSE \E m \in {make_traveler_profile(r.request.region, r.args["traveler_type"][2])} :
                Taken(override_params(r.args, m.value.v)) /\ mem' = m.mem /\ red' = m.red
  /\ UNCHANGED <<version, changed, known, chosen, crowfly, dbUp, now, served, downs>>

\* The request does not remember what it read.
RereadModels(r, i) == Memoize(mem, red, <<"row", i>>, TRUE, Row(IF dbUp THEN version[i] ELSE known[i]))

\* The row of the instance: what this request has already read, else through
\* the caches; without database, what the process last read.
get_models(r, i) ==
  IF r.rows[i] # -1 THEN [value |-> Row(r.rows[i]), mem |-> mem, red |-> red]
  ELSE Memoize(mem, red, <<"row", i>>, TRUE, Row(IF dbUp THEN version[i] ELSE known[i]))

\* What the process last read: only a call that reaches the database changes it.
LastRead(r, i) ==
  IF r.rows[i] = -1 /\ ~Holds(mem, <<"row", i>>) /\ ~Holds(red, <<"row", i>>) /\ dbUp THEN [known EXCEPT ![i] = version[i]] ELSE known

DefaultCrowfly == [m \in {"walking", "bike", "car", "car_no_park", "bss", "taxi"} |-> <<"default", m>>]
CrowflyArgument == [walking |-> "_max_nb_crowfly_by_walking", bike |-> "_max_nb_crowfly_by_bike",
  car |-> "_max_nb_crowfly_by_car", car_no_park |-> "_max_nb_crowfly_by_car_no_park", bss |-> "_max_nb_crowfly_by_bss",
  taxi |-> "_max_nb_crowfly_by_taxi"]

\* The limits of the request; car_no_park has no argument of its name.
CrowflyOf(r) == [m \in DOMAIN crowfly |->
  IF CrowflyArgument[m] \in ArgumentKeys /\ r.args[CrowflyArgument[m]] # Absence THEN r.args[CrowflyArgument[m]] ELSE crowfly[m]]

\* default_values after the request has its own limits: a copy was written.
max_nb_crowfly_by_mode(r) == crowfly

get_instance_scenario_name_or_default(i, row) == IF row = 0 THEN "distributed" ELSE Scenario[i][row]
replace_experimental_scenario(s) == IF s = "experimental" THEN "distributed" ELSE s
get_instance_scenario_name(r, i, row) ==
  IF r.request.scenario # "" THEN r.request.scenario ELSE get_instance_scenario_name_or_default(i, row)

\* The time zone is that of the first region asked.
tz(r) == IF r.tz # "" THEN r.tz ELSE TimeZone[Region(r)]

set_specific_params(c) ==
  /\ req[c].pc = "params"
  /\ LET r == req[c]
         i == Region(r)
     IN  \E m \in {get_models(r, i)} :
           LET row == RowOf(m.value)
               args == [Filled(r.args, SpecificParams \cup EngineParams, i, row) EXCEPT !["datetime"] = <<"utc", tz(r)>>]
               taxi == \E k \in {"origin_mode", "destination_mode"} : args[k] = Query(TaxiMode)
               new == [r EXCEPT !.pc = "dispatch", !.args = args, !.tz = tz(r), !.rows[i] = row, !.crowfly = CrowflyOf(r)]
           IN  /\ mem' = m.mem /\ red' = m.red /\ known' = LastRead(r, i)
               /\ crowfly' = max_nb_crowfly_by_mode(r)
               /\ req' = [req EXCEPT ![c] =
                    IF taxi /\ get_instance_scenario_name(r, i, row) = "new_default" THEN Over(new, "400") ELSE new]
  /\ UNCHANGED <<version, changed, chosen, dbUp, now, served, downs>>

scenario(r, i, row) ==
  IF r.scenario[i] # "" THEN r.scenario[i]
  ELSE IF r.request.scenario # "" THEN replace_experimental_scenario(r.request.scenario)
  ELSE replace_experimental_scenario(get_instance_scenario_name_or_default(i, row))

dispatch(c) ==
  /\ req[c].pc = "dispatch"
  /\ LET r == req[c]
         i == Region(r)
     IN  \E m \in {get_models(r, i)} :
           LET s == scenario(r, i, RowOf(m.value))
               args == Filled(r.args, ScenarioParams, i, RowOf(m.value))
           IN  /\ mem' = m.mem /\ red' = m.red /\ known' = LastRead(r, i)
               /\ chosen' = [chosen EXCEPT ![i] = s]
               /\ req' = [req EXCEPT ![c].pc = "asked", ![c].args = args, ![c].sent = args, ![c].scenario[i] = s]
  /\ UNCHANGED <<version, changed, crowfly, dbUp, now, served, downs>>

-----------------------------------------------------------------------------
(* The regions one after the other                                         *)

IsError(a) == a \in {"none", "unknown_object"}

NextRegion(r) == IF r.k < Len(r.regions) THEN [r EXCEPT !.pc = "region", !.k = @ + 1] ELSE [r EXCEPT !.pc = "choose"]

\* Before the next region the arguments are base_args: the copy itself.
Reset(r) == IF Len(r.regions) > 1 THEN [r EXCEPT !.args = IF r.aliased THEN @ ELSE r.base, !.aliased = TRUE] ELSE r

Answered(c) ==
  /\ req[c].pc = "asked"
  /\ \E a \in Answers :
       LET r == [req[c] EXCEPT !.responses = [k \in 1..req[c].k |-> IF k = req[c].k THEN a ELSE @[k]]]
       IN  req' = [req EXCEPT ![c] = IF a = "pt" THEN Over(r, Region(r)) ELSE NextRegion(Reset(r))]
  /\ UNCHANGED shared

\* No public transport: the first region without error, else the error that all gave.
first_response(r) ==
  LET paths == {k \in DOMAIN r.responses : ~IsError(r.responses[k])}
  IN  IF paths # {} THEN r.regions[CHOOSE k \in paths : \A l \in paths : k <= l]
      ELSE IF \A k \in DOMAIN r.responses : r.responses[k] = r.responses[1] THEN r.responses[1] ELSE "none"

Choose(c) ==
  /\ req[c].pc = "choose"
  /\ req' = [req EXCEPT ![c] = Over(@, first_response(@))]
  /\ UNCHANGED shared

Leave(c) ==
  /\ req[c].pc = "over"
  /\ req' = [req EXCEPT ![c] = Idle]
  /\ UNCHANGED shared

-----------------------------------------------------------------------------
(* Around                                                                  *)

\* tyr changes the parameters of an instance.
Configure ==
  \E i \in All :
    /\ version[i] < MaxVersion
    /\ version' = [version EXCEPT ![i] = @ + 1] /\ changed' = [changed EXCEPT ![i] = now]
    /\ UNCHANGED <<req, known, chosen, crowfly, dbUp, mem, red, now, served, downs>>

Database ==
  /\ IF dbUp THEN downs < MaxDowns /\ downs' = downs + 1 ELSE downs' = downs
  /\ dbUp' = ~dbUp
  /\ UNCHANGED <<req, version, changed, known, chosen, crowfly, mem, red, now, served>>

Tick ==
  /\ now < MaxNow
  /\ now' = now + 1 /\ mem' = Aged(mem) /\ red' = Aged(red)
  /\ UNCHANGED <<req, version, changed, known, chosen, crowfly, dbUp, served, downs>>

Init ==
  /\ req = [c \in Clients |-> Idle]
  /\ version = [i \in All |-> 1] /\ changed = [i \in All |-> Never] /\ known = [i \in All |-> 0]
  /\ chosen = [i \in All |-> ""] /\ dbUp = TRUE
  /\ crowfly = DefaultCrowfly
  /\ mem = Empty(Keys) /\ red = Empty(Keys)
  /\ now = 0 /\ served = 0 /\ downs = 0

Next ==
  \/ Configure \/ Database \/ Tick
  \/ \E c \in Clients : get(c) \/ TakeProfile(c) \/ set_specific_params(c) \/ dispatch(c) \/ Answered(c) \/ Choose(c) \/ Leave(c)
Spec == Init /\ [][Next]_vars

-----------------------------------------------------------------------------
(* Properties                                                              *)

Asked == {req[c] : c \in {d \in Clients : req[d].pc = "asked"}}
Params == SpecificParams \cup EngineParams \cup ScenarioParams
Kept == MemoryTimeout + RedisTimeout - 2

\* What a region is asked with only depends on the request and on that
\* region: the query, then the profile, then the row of the region
\* (_set_specific_params and updated_request_with_default), whatever the
\* regions asked before it had.
Own(r) ==
  \A p \in Params :
    r.sent[p[1]] =
      (IF r.start[p[1]] # Absence THEN r.start[p[1]]
       ELSE IF p[1] \in Profiled /\ r.args["traveler_type"] # Absence
            THEN <<"profile", r.sent[p[1]][2], r.args["traveler_type"][2]>>
       ELSE get_value_or_default(Region(r), r.rows[Region(r)], p[2]))
ArgsOfTheRegion == \A r \in Asked : Own(r)

\* All the parameters of a request for a region are of one version of its
\* row (g.instances_model), which was current at most a cache lifetime
\* before the request, as long as the database answers.
OneRecentRow ==
  \A r \in Asked :
    \E v \in 0..MaxVersion :
      /\ \A p \in Params :
           r.start[p[1]] = Absence /\ r.sent[p[1]][1] # "profile" => r.sent[p[1]] = get_value_or_default(Region(r), v, p[2])
      /\ downs = 0 => v = version[Region(r)] \/ changed[Region(r)] >= r.at - Kept

\* A request runs the scenario it asks for, or that of the row it read, even
\* though the loaded scenario of an instance is shared by all the requests.
ScenarioOfTheRequest ==
  \A r \in Asked :
    LET i == Region(r)
        name == IF r.request.scenario # "" THEN r.request.scenario
                ELSE IF r.rows[i] = 0 THEN "distributed" ELSE Scenario[i][r.rows[i]]
    IN  r.scenario[i] = IF name = "experimental" THEN "distributed" ELSE name

\* The limits that one request gives never become those of another
\* (max_nb_crowfly_by_mode is a dictionary of default_values).
CrowflyDefaultsKept == crowfly = DefaultCrowfly

\* The answer is that of the first region with public transport, else of the
\* first without error, else the error that all of them gave, else "none".
BestAnswer ==
  \A c \in Clients :
    (req[c].pc = "over" /\ req[c].responses # <<>> /\ req[c].result # "400") =>
      LET r == req[c]
          pt == {k \in DOMAIN r.responses : r.responses[k] = "pt"}
          paths == {k \in DOMAIN r.responses : r.responses[k] = "non_pt"}
      IN  \/ \E k \in pt : r.result = r.regions[k] /\ pt = {k} /\ k = Len(r.responses)
          \/ /\ pt = {} /\ Len(r.responses) = Len(r.regions)
             /\ \/ \E k \in paths : r.result = r.regions[k] /\ \A l \in paths : k <= l
                \/ paths = {} /\ r.result \in {"none", "unknown_object"}
                   /\ (r.result = "unknown_object" <=> Range(r.responses) = {"unknown_object"})

\* A region that is asked knows both places.
RegionsKnowThePlaces ==
  \A r \in Asked :
    r.request.region = "" => \A place \in {r.request.from, r.request.to} \ {""} : Region(r) \in RegionsOf[place]

\* Every request is answered, whatever its regions answer.
Served == \A c \in Clients : (req[c].pc = "region") ~> (req[c].pc = "over")

=============================================================================
