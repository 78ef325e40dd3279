--------------------------- MODULE JourneysParams ---------------------------
(***************************************************************************)
(* The arguments that the parser of /journeys declares, the parameters     *)
(* that an instance has, and which argument is filled from which of them.  *)
(***************************************************************************)
EXTENDS Integers, Sequences

Absence == <<"none">>       \* an argument that is absent
Parser == <<"parser">>      \* one with the default value of the parser

-----------------------------------------------------------------------------
(* The arguments: <<name in the query, key in args, value if it is absent>> *)

Plain(names) == [i \in DOMAIN names |-> <<names[i], names[i], Absence>>]
Preset(names) == [i \in DOMAIN names |-> <<names[i], names[i], Parser>>]

PlaceArguments == << <<"from", "origin", Absence>>, <<"to", "destination", Absence>>, <<"datetime", "datetime", Absence>>,
  <<"datetime_represents", "clockwise", Parser>>, <<"max_transfers", "max_transfers", Parser>>,
  <<"max_nb_transfers", "max_transfers", Absence>>, <<"min_nb_transfers", "min_nb_transfers", Parser>> >>
ModeArguments == << <<"first_section_mode[]", "origin_mode", Absence>>, <<"last_section_mode[]", "destination_mode", Absence>>,
  <<"first_section_mode", "first_section_mode", Absence>>, <<"last_section_mode", "last_section_mode", Absence>> >>
DurationArguments == Plain(<<"max_duration_to_pt", "max_walking_duration_to_pt", "max_bike_duration_to_pt",
  "max_bss_duration_to_pt", "max_car_duration_to_pt", "max_ridesharing_duration_to_pt", "max_car_no_park_duration_to_pt",
  "max_taxi_duration_to_pt", "max_walking_direct_path_distance", "max_bike_direct_path_distance",
  "max_bss_direct_path_distance", "max_car_direct_path_distance", "max_car_no_park_direct_path_distance",
  "max_ridesharing_direct_path_distance", "max_taxi_direct_path_distance">>)
SpeedArguments == Plain(<<"walking_speed", "bike_speed", "bss_speed", "car_speed", "ridesharing_speed",
  "car_no_park_speed", "taxi_speed">>)
ObjectArguments == Plain(<<"forbidden_uris[]", "allowed_id[]", "data_freshness", "max_duration", "wheelchair", "traveler_type">>)
  \o Preset(<<"type", "disruption_active", "_current_datetime", "direct_path">>)
FallbackArguments == Preset(<<"free_radius_from", "free_radius_to", "direct_path_mode[]">>)
  \o Plain(<<"_stop_points_nearby_duration", "partner_services[]", "_asynchronous_ridesharing", "_access_points",
             "_poi_access_points", "additional_time_after_first_section_taxi", "additional_time_before_last_section_taxi",
             "_pt_planner", "criteria">>)
OlympicArguments == Plain(<<"_keep_olympics_journeys", "_olympics_sites_virtual_fallback[]",
  "_olympics_sites_attractivities[]", "_show_natural_opg_journeys">>) \o Preset(<<"_deactivate_opg_scenario">>)
BikeArguments == Preset(<<"bike_use_roads", "bike_use_hills", "bike_use_ferry", "bike_avoid_bad_surfaces", "bike_shortest",
  "bicycle_type", "bike_use_living_streets", "bike_maneuver_penalty", "bike_service_penalty", "bike_service_factor",
  "bike_country_crossing_cost", "bike_country_crossing_penalty", "bike_destination_only_penalty">>)
WalkingArguments == Preset(<<"walking_walkway_factor", "walking_sidewalk_factor", "walking_alley_factor",
  "walking_driveway_factor", "walking_step_penalty", "walking_use_ferry", "walking_use_living_streets", "walking_use_tracks",
  "walking_use_hills", "walking_service_penalty", "walking_service_factor", "walking_max_hiking_difficulty",
  "walking_shortest", "walking_ignore_oneways", "walking_destination_only_penalty">>)
EngineArguments == Plain(<<"_use_excluded_zones", "_use_predicted_traffic">>)
  \o Preset(<<"_asgard_max_walking_duration_coeff", "_asgard_max_bike_duration_coeff", "_asgard_max_bss_duration_coeff",
              "_asgard_max_car_duration_coeff", "_global_max_speed", "_use_heuristic">>)
JourneysArguments == Plain(<<"count", "_min_journeys_calls", "_final_line_filter", "min_nb_journeys", "max_nb_journeys">>)
  \o << <<"_max_extra_second_pass", "max_extra_second_pass", Absence>>, <<"_no_shared_section", "no_shared_section", Parser>> >>
  \o Preset(<<"is_journey_schedules", "debug", "show_codes", "bss_stands", "add_poi_infos[]">>)
  \o Plain(<<"_filter_odt_journeys", "_override_scenario", "_street_network", "_walking_transfer_penalty",
             "_arrival_transfer_penalty", "_max_successive_physical_mode", "_max_additional_connections",
             "_night_bus_filter_base_factor", "_night_bus_filter_max_factor", "_min_car", "_min_bike", "_min_taxi",
             "_min_ridesharing", "timeframe_duration">>)
CrowflyArguments == Plain(<<"_max_nb_crowfly_by_walking", "_max_nb_crowfly_by_car", "_max_nb_crowfly_by_car_nor_park",
  "_max_nb_crowfly_by_taxi", "_max_nb_crowfly_by_bike", "_max_nb_crowfly_by_bss">>) \o Preset(<<"_car_park_duration">>)
OutputArguments == Preset(<<"_here_realtime_traffic", "_here_max_matrix_points", "equipment_details", "_enable_instructions", "depth">>)
  \o Plain(<<"language", "_here_matrix_type", "_here_exclusion_area[]", "max_waiting_duration",
             "max_walking_direct_path_duration", "max_bike_direct_path_duration", "max_bss_direct_path_duration",
             "max_car_direct_path_duration", "max_car_no_park_direct_path_duration", "max_ridesharing_direct_path_duration",
             "max_taxi_direct_path_duration">>)
BssArguments == Plain(<<"bss_rent_duration", "bss_rent_penalty", "bss_return_duration", "bss_return_penalty", "_transfer_path">>)
  \o Preset(<<"_loki_pt_journey_fare", "_loki_compute_pt_journey_fare">>)

Arguments == PlaceArguments \o ModeArguments \o DurationArguments \o SpeedArguments \o ObjectArguments \o FallbackArguments
  \o OlympicArguments \o BikeArguments \o WalkingArguments \o EngineArguments \o JourneysArguments \o CrowflyArguments
  \o OutputArguments \o BssArguments
ArgumentKeys == {Arguments[i][2] : i \in DOMAIN Arguments} \cup {"original_datetime"}

\* Two arguments may have one key: the last one is kept, given or not.
LastOf == [k \in ArgumentKeys |->
  LET same == {i \in DOMAIN Arguments : Arguments[i][2] = k}
  IN  IF same = {} THEN <<k, k, Absence>> ELSE Arguments[CHOOSE i \in same : \A j \in same : j <= i]]
-----------------------------------------------------------------------------
(* The parameters of an instance                                           *)

FallbackGetters == {"max_waiting_duration", "journey_order", "autocomplete_backend", "max_walking_duration_to_pt",
  "max_bss_duration_to_pt", "max_bike_duration_to_pt", "max_car_duration_to_pt", "max_car_no_park_duration_to_pt",
  "max_ridesharing_duration_to_pt", "max_taxi_duration_to_pt", "walking_speed", "bss_speed", "bike_speed", "car_speed",
  "car_no_park_speed", "ridesharing_speed"}
JourneyGetters == {"max_nb_transfers", "min_bike", "min_bss", "min_car", "min_taxi", "successive_physical_mode_to_limit_id",
  "priority", "bss_provider", "car_park_provider", "max_additional_connections", "is_free", "is_open_data", "max_duration",
  "walking_transfer_penalty", "arrival_transfer_penalty", "night_bus_filter_max_factor", "night_bus_filter_base_factor",
  "realtime_pool_size", "min_nb_journeys", "max_nb_journeys", "min_journeys_calls", "max_successive_physical_mode",
  "final_line_filter", "max_extra_second_pass"}
RidesharingGetters == {"asynchronous_ridesharing", "ridesharing_greenlet_pool_size", "greenlet_pool_for_ridesharing_services"}
DirectPathGetters == {"poi_dataset", "max_car_no_park_direct_path_duration", "min_ridesharing",
  "max_bike_direct_path_distance", "max_bss_direct_path_distance", "max_walking_direct_path_distance",
  "max_car_direct_path_distance", "max_car_no_park_direct_path_distance", "max_ridesharing_direct_path_distance",
  "max_taxi_direct_path_distance", "ghost_words", "additional_parameters"}
MadeGetters == {"taxi_speed", "additional_time_after_first_section_taxi", "additional_time_before_last_section_taxi",
  "max_walking_direct_path_duration", "max_bike_direct_path_duration", "max_bss_direct_path_duration",
  "max_car_direct_path_duration", "max_taxi_direct_path_duration", "max_ridesharing_direct_path_duration",
  "stop_points_nearby_duration", "bss_rent_duration", "bss_rent_penalty", "bss_return_duration", "bss_return_penalty",
  "language", "transfer_path", "access_points", "poi_access_points", "default_pt_planner", "loki_pt_journey_fare",
  "loki_compute_pt_journey_fare", "filter_odt_journeys", "co2_emission_car_value", "co2_emission_car_unit",
  "use_predicted_traffic"}
Getters == FallbackGetters \cup JourneyGetters \cup RidesharingGetters \cup DirectPathGetters \cup MadeGetters

DirectPathLimits == {"max_walking_direct_path_duration", "max_bike_direct_path_duration", "max_bss_direct_path_duration",
  "max_car_direct_path_duration", "max_car_no_park_direct_path_duration", "max_ridesharing_direct_path_duration",
  "max_taxi_direct_path_duration", "max_walking_direct_path_distance", "max_bike_direct_path_distance",
  "max_bss_direct_path_distance", "max_car_direct_path_distance", "max_car_no_park_direct_path_distance",
  "max_ridesharing_direct_path_distance", "max_taxi_direct_path_distance"}

\* <<argument, getter>>: what the API fills, then what the scenario fills.
SpecificParams == { <<"max_duration", "max_duration">>, <<"_arrival_transfer_penalty", "arrival_transfer_penalty">>,
  <<"_walking_transfer_penalty", "walking_transfer_penalty">>, <<"_night_bus_filter_base_factor", "night_bus_filter_base_factor">>,
  <<"_night_bus_filter_max_factor", "night_bus_filter_max_factor">>, <<"_max_additional_connections", "max_additional_connections">>,
  <<"min_nb_journeys", "min_nb_journeys">>, <<"max_nb_journeys", "max_nb_journeys">>, <<"_min_journeys_calls", "min_journeys_calls">>,
  <<"_max_successive_physical_mode", "max_successive_physical_mode">>, <<"_final_line_filter", "final_line_filter">>,
  <<"max_extra_second_pass", "max_extra_second_pass">>,
  <<"additional_time_after_first_section_taxi", "additional_time_after_first_section_taxi">>,
  <<"additional_time_before_last_section_taxi", "additional_time_before_last_section_taxi">>,
  <<"_stop_points_nearby_duration", "stop_points_nearby_duration">> }
EngineParams == { <<"_transfer_path", "transfer_path">>, <<"_access_points", "access_points">>, <<"_poi_access_points", "poi_access_points">>,
  <<"_pt_planner", "default_pt_planner">>, <<"language", "language">>, <<"bss_rent_duration", "bss_rent_duration">>,
  <<"bss_rent_penalty", "bss_rent_penalty">>, <<"bss_return_duration", "bss_return_duration">>,
  <<"bss_return_penalty", "bss_return_penalty">>, <<"_filter_odt_journeys", "filter_odt_journeys">>,
  <<"_loki_pt_journey_fare", "loki_pt_journey_fare">>, <<"_loki_compute_pt_journey_fare", "loki_compute_pt_journey_fare">>,
  <<"_use_predicted_traffic", "use_predicted_traffic">> }
  \cup {<<limit, limit>> : limit \in DirectPathLimits}
ScenarioParams == {<<g, g>> : g \in ArgumentKeys \cap FallbackGetters} \cup {<<"taxi_speed", "taxi_speed">>,
  <<"max_transfers", "max_nb_transfers">>, <<"_min_car", "min_car">>, <<"_min_bike", "min_bike">>, <<"_min_taxi", "min_taxi">>,
  <<"_min_ridesharing", "min_ridesharing">>}

\* What the API and the scenarios read exists.
ASSUME ParamsAssumption ==
  /\ {p[2] : p \in SpecificParams \cup EngineParams \cup ScenarioParams} \subseteq Getters
  /\ {p[1] : p \in SpecificParams \cup EngineParams \cup ScenarioParams} \subseteq ArgumentKeys
=============================================================================
