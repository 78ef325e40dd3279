---------------------------- MODULE MCScenarios ----------------------------
(***************************************************************************)
(* The two scenarios of jormungandr, for TLC.  A behaviour runs one        *)
(* scenario of the run: an instance of NewDefault or of Distributed, whose *)
(* variables are the ones of the same names declared here.                 *)
(***************************************************************************)
EXTENDS Integers, Sequences, FiniteSets, SequencesExt, TLC

CONSTANT Scenarios   \* the scenarios of the run

VARIABLES
  scenario,   \* the one that this behaviour runs
  \* NewDefault
  req, pc, calls, pending, date, tries, qualified, previously, lastChance, minCalls, journeys,
  errors, dates, fresh, merged, ranked, answer,
  \* Distributed
  k, todo, queue, fut, radius, empty, rounds, valid, elements, responses, directs, exc, error, here,
  missed

vars ==
  <<scenario, req, pc, calls, pending, date, tries, qualified, previously, lastChance, minCalls,
    journeys, errors, dates, fresh, merged, ranked, answer, k, todo, queue, fut, radius, empty,
    rounds, valid, elements, responses, directs, exc, error, here, missed>>

\* The variables of the components that a scenario does not run are off.
Off == "off"
NoNewDefault ==
  /\ req = Off /\ calls = Off /\ pending = Off /\ date = Off /\ tries = Off /\ qualified = Off
  /\ previously = Off /\ lastChance = Off /\ minCalls = Off /\ journeys = Off /\ errors = Off
  /\ dates = Off /\ fresh = Off /\ merged = Off /\ ranked = Off /\ answer = Off
NoDistributed ==
  /\ k = Off /\ todo = Off /\ queue = Off /\ fut = Off /\ radius = Off /\ empty = Off
  /\ rounds = Off /\ valid = Off /\ elements = Off /\ responses = Off /\ directs = Off /\ exc = Off
  /\ error = Off /\ here = Off /\ missed = Off
newDefaultVars ==
  <<req, calls, pending, date, tries, qualified, previously, lastChance, minCalls, journeys, errors,
    dates, fresh, merged, ranked, answer>>
distributedVars ==
  <<k, todo, queue, fut, radius, empty, rounds, valid, elements, responses, directs, exc, error,
    here, missed>>

OnlyNewDefault == NoDistributed
notNewDefault == <<scenario, distributedVars>>
OnlyDistributed == NoNewDefault
notDistributed == <<scenario, newDefaultVars>>
-----------------------------------------------------------------------------
\* The names that the tables below use.
Culling == INSTANCE JourneyCulling
Fallback == INSTANCE FallbackSections
Absent == -1      \* Absent and NoMax of NewDefault
NoMax == 1000

(* Journeys of kraken, the responses made of them, and requests *)

KrakenSection(type, mode, line, vj, from, to, duration, begin) ==
  [type |-> type, mode |-> mode, line |-> line, vj |-> vj, from |-> from, to |-> to, duration |-> duration,
   begin |-> begin, end |-> begin + duration, physical |-> IF line = "L1" THEN "Metro" ELSE "Bus",
   info |-> IF line = "odt" THEN "odt" ELSE "none"]
Sn(mode, d, at) == KrakenSection("STREET_NETWORK", mode, "", "", "", "", d, at)
CrowFly(mode, d, at) == KrakenSection("CROW_FLY", mode, "", "", "", "", d, at)
KrakenPt(line, vj, from, to, d, at) ==
  KrakenSection(IF line = "odt" THEN "ON_DEMAND_TRANSPORT" ELSE "PUBLIC_TRANSPORT", "Walking", line, vj, from, to, d, at)
Wait(d, at) == KrakenSection("WAITING", "Walking", "", "", "", "", d, at)
Bss(type, at) == KrakenSection(type, "Walking", "", "", "", "", 1, at)
Park(at) == KrakenSection("PARK", "Walking", "", "", "", "", 1, at)
NbPt(sections) == Len(SelectSeq(sections, LAMBDA s : s.type \in Culling!PtTypes))
KrakenJourney(id, dep, arr, sections, tickets, co2) ==
  [id |-> id, dep |-> dep, arr |-> arr, duration |-> arr - dep, transfers |-> IF NbPt(sections) = 0 THEN 0 ELSE NbPt(sections) - 1,
   sections |-> sections, tags |-> {}, type |-> "", dead |-> FALSE, tickets |-> tickets, co2 |-> co2,
   disrupted |-> id = "bus", resp |-> 0]

metro == KrakenJourney("metro", 10, 20, <<Sn("Walking", 2, 10), KrakenPt("L1", "vj1", "a", "b", 6, 12), Sn("Walking", 2, 18)>>, {"t1"}, 4)
metroFar == KrakenJourney("metroFar", 9, 21, <<Sn("Walking", 3, 9), KrakenPt("L1", "vj1", "a", "b", 6, 12), Sn("Walking", 3, 18)>>, {"t1"}, 4)
later == KrakenJourney("later", 20, 30, <<Sn("Walking", 2, 20), KrakenPt("L1", "vj2", "a", "b", 6, 22), Sn("Walking", 2, 28)>>, {"t1"}, 4)
bus == KrakenJourney("bus", 10, 24, <<Sn("Walking", 1, 10), KrakenPt("L2", "vj3", "a", "b", 12, 11), Sn("Walking", 1, 23)>>, {"t2"}, 8)
change == KrakenJourney("change", 10, 19, <<Sn("Walking", 1, 10), KrakenPt("L1", "vj1", "a", "c", 3, 12), Wait(2, 15),
                   KrakenPt("L2", "vj4", "c", "d", 1, 17), Sn("Walking", 1, 18)>>, {"t1", "t2"}, 4)
twoBus == KrakenJourney("twoBus", 9, 26, <<Sn("Walking", 1, 9), KrakenPt("L3", "vj5", "a", "c", 3, 10), Wait(9, 13),
                   KrakenPt("L2", "vj4", "c", "d", 3, 22), Sn("Walking", 1, 25)>>, {"t2"}, 4)
onDemand == KrakenJourney("onDemand", 11, 25, <<Sn("Walking", 1, 11), KrakenPt("odt", "vj6", "a", "b", 12, 12), Sn("Walking", 1, 24)>>, {}, 4)
walk == KrakenJourney("walk", 10, 40, <<Sn("Walking", 30, 10)>>, {}, 0)
bike == KrakenJourney("bike", 10, 27, <<Sn("Bike", 17, 10)>>, {}, 0)
drive == KrakenJourney("drive", 10, 16, <<Sn("Car", 6, 10)>>, {}, 40)
parkRide == KrakenJourney("parkRide", 10, 18, <<Sn("Car", 2, 10), Park(12), Sn("Walking", 1, 13), KrakenPt("L1", "vj1", "c", "b", 3, 14),
                   Sn("Walking", 1, 17)>>, {"t1"}, 0)
sharedBike == KrakenJourney("sharedBike", 10, 22, <<Bss("BSS_RENT", 10), Sn("Bike", 3, 11), Bss("BSS_PUT_BACK", 14),
                   Sn("Walking", 1, 15), KrakenPt("L1", "vj7", "c", "b", 4, 16), Sn("Walking", 2, 20)>>, {"t1"}, 4)
flown == KrakenJourney("flown", 10, 20, <<CrowFly("Walking", 2, 10), KrakenPt("L1", "vj1", "a", "b", 6, 12), CrowFly("Walking", 2, 18)>>, {"t1"}, 4)
ride == KrakenJourney("ride", 10, 17, <<Sn("Car", 2, 10), KrakenPt("L1", "vj1", "c", "b", 3, 13), Sn("Walking", 1, 16)>>, {"t1"}, 4)

Gives(js, next) == [journeys |-> js, error |-> "none", next |-> next]
NoSolution == [journeys |-> <<>>, error |-> "no_solution", next |-> FALSE]
OutOfBounds == [journeys |-> <<>>, error |-> "date_out_of_bounds", next |-> FALSE]

MixedResponses ==
  {Gives(<<metro, bus>>, TRUE), Gives(<<metroFar, twoBus>>, TRUE), Gives(<<change, walk>>, TRUE), Gives(<<later>>, TRUE),
   Gives(<<onDemand, bike, flown>>, FALSE), NoSolution}
ModesResponses ==
  {Gives(<<drive, parkRide>>, TRUE), Gives(<<sharedBike, bike>>, TRUE), Gives(<<metro, walk>>, FALSE), Gives(<<ride>>, TRUE),
   NoSolution, OutOfBounds}
ManyResponses == {Gives(<<metro, bus, change, later>>, TRUE), Gives(<<bike, walk, twoBus>>, TRUE), Gives(<<later, onDemand>>, FALSE)}
FewResponses == {Gives(<<metro>>, TRUE), Gives(<<twoBus>>, TRUE), Gives(<<walk>>, TRUE), Gives(<<>>, TRUE), NoSolution}
NoOlympics == [applicable |-> FALSE, strict |-> FALSE, show_natural |-> FALSE, origin |-> FALSE, destination |-> FALSE,
               exempted |-> {}, min_pt_duration |-> 0, arrival |-> FALSE, stops |-> <<>>]
KnownPlace == [coord |-> FALSE, stop_point |-> FALSE, known |-> {"instance"}]
Asked ==
  [api |-> "journeys", clockwise |-> TRUE, debug |-> FALSE, datetime |-> 9, min_nb_journeys |-> 0, max_nb_journeys |-> NoMax, min_journeys_calls |-> 1,
   timeframe |-> FALSE, origin |-> KnownPlace, destination |-> KnownPlace, geocodejson |-> TRUE,
   origin_mode |-> <<"walking">>, destination_mode |-> <<"walking">>, direct_path |-> "indifferent", direct_path_mode |-> {},
   min_duration |-> [Car |-> 0, Taxi |-> 0, Ridesharing |-> 0, Bike |-> Absent], max_waiting |-> Absent, min_nb_transfers |-> 0,
   distributed |-> FALSE, max_direct_path |-> 100, max_successive |-> Culling!NoLimit, limited_mode |-> "Bus",
   final_line_filter |-> FALSE, no_shared_section |-> FALSE, filter_odt |-> FALSE, max_additional |-> Absent, keep_olympics |-> FALSE,
   wheelchair |-> FALSE, olympic |-> NoOlympics, journey_order |-> "arrival_time", crowfly_co2 |-> 30, co2_of_car |-> 5,
   ridesharing_services |-> FALSE, asynchronous_ridesharing |-> FALSE, partner_ridesharing |-> FALSE]
TheInstance == [max_waiting |-> 100, max_additional |-> 2, min_duration |-> [Car |-> 1, Taxi |-> 1, Ridesharing |-> 1, Bike |-> 0]]
StopPoint == [coord |-> FALSE, stop_point |-> TRUE, known |-> {"instance"}]
InBragi == [coord |-> FALSE, stop_point |-> FALSE, known |-> {"bragi"}]

LoopRequests ==
  {Asked, [Asked EXCEPT !.min_nb_journeys = 3], [Asked EXCEPT !.min_nb_journeys = 4, !.max_nb_journeys = 1, !.clockwise = FALSE],
   [Asked EXCEPT !.min_journeys_calls = 2, !.max_nb_journeys = 2], [Asked EXCEPT !.timeframe = TRUE, !.min_nb_journeys = 3],
   [Asked EXCEPT !.max_nb_journeys = 0], [Asked EXCEPT !.origin = StopPoint], [Asked EXCEPT !.destination = InBragi],
   [Asked EXCEPT !.destination = InBragi, !.geocodejson = FALSE], [Asked EXCEPT !.max_waiting = 5, !.min_nb_journeys = 2],
   [Asked EXCEPT !.min_nb_transfers = 1, !.min_nb_journeys = 2]}
FilterRequests ==
  LET Two == [Asked EXCEPT !.min_journeys_calls = 2]
  IN  {[Two EXCEPT !.final_line_filter = TRUE], [Two EXCEPT !.no_shared_section = TRUE, !.clockwise = FALSE],
       [Two EXCEPT !.filter_odt = TRUE, !.max_additional = 0], [Two EXCEPT !.filter_odt = TRUE, !.clockwise = FALSE, !.max_additional = 0],
       [Two EXCEPT !.max_successive = 1, !.journey_order = "departure_time"], [Two EXCEPT !.direct_path = "none"],
       [Two EXCEPT !.direct_path = "only", !.distributed = TRUE, !.max_direct_path = 20],
       [Two EXCEPT !.debug = TRUE, !.max_nb_journeys = 1]}
ModesRequests ==
  LET Both == [Asked EXCEPT !.origin_mode = <<"walking", "car">>]
      Ride == [Asked EXCEPT !.origin_mode = <<"walking", "ridesharing">>]
  IN  {Both, [Both EXCEPT !.max_nb_journeys = 2, !.min_duration = [Car |-> 3, Taxi |-> 0, Ridesharing |-> 0, Bike |-> 4]],
       [Asked EXCEPT !.origin_mode = <<"car">>], [Asked EXCEPT !.origin_mode = <<"car", "bike">>, !.destination_mode = <<"car">>],
       [Asked EXCEPT !.direct_path_mode = {"bike"}], [Asked EXCEPT !.direct_path_mode = {"bike", "car"}, !.direct_path = "only"],
       [Both EXCEPT !.direct_path_mode = {"car"}, !.origin_mode = <<"walking", "car">>, !.destination_mode = <<"ridesharing">>],
       Ride, [Ride EXCEPT !.ridesharing_services = TRUE], [Ride EXCEPT !.ridesharing_services = TRUE, !.asynchronous_ridesharing = TRUE],
       [Ride EXCEPT !.ridesharing_services = TRUE, !.partner_ridesharing = TRUE, !.max_nb_journeys = 1]}
CullRequests ==
  {[Asked EXCEPT !.min_journeys_calls = 3, !.max_nb_journeys = n, !.clockwise = c, !.max_additional = 5] : n \in 1 .. 5, c \in BOOLEAN}
  \cup {[Asked EXCEPT !.api = "isochrone", !.max_nb_journeys = 2]}

(* Requests, places and answers of the services of the distributed scenario *)

Place(type, children, stops, odt) == [type |-> type, children |-> children, stops |-> stops, odt |-> odt, coord |-> TRUE]
Near(uri, distance) == [uri |-> uri, distance |-> distance]
Pt(mode, from, to, begin, end) == Fallback!Section("pt", mode, from, to, begin, end)
Journey(sections) ==
  [id |-> <<>>, modes |-> <<>>, sections |-> sections, dep |-> Head(sections).begin, arr |-> Last(sections).end,
   duration |-> Last(sections).end - Head(sections).begin, dead |-> FALSE, fare |-> FALSE]
PtAnswer(js) == [error |-> "none", journeys |-> js]
Failing(e) == [error |-> e, journeys |-> <<>>]
Modes == {"walking", "bike", "bss", "car"}
NoMatrix == [c \in {} |-> 0]

\* Two stops at the origin, s2 behind two access points; z at the destination.
Base == [
  req |-> [type |-> "planner", calls |-> {<<"walking", "walking", "indifferent">>}, max_duration |-> 1, direct_path |-> "indifferent",
           origin |-> "o", destination |-> "d", modes |-> [orig |-> {"walking"}, dest |-> {"walking"}],
           max_to_pt |-> [m \in Modes |-> 12], crowfly |-> 9, bss_duration |-> 2, radius |-> [orig |-> 0, dest |-> 0],
           access_points |-> TRUE, poi_access_points |-> FALSE, car_park_duration |-> 3, transfer_path |-> FALSE,
           loki_fare |-> FALSE, debug |-> FALSE],
  place |-> ("o" :> Place("address", <<>>, {}, {})) @@ ("d" :> Place("address", <<>>, {}, {})) @@
            ("s1" :> Place("stop_point", <<>>, {}, {})),
  near |-> [orig |-> [m \in Modes |-> IF m = "car" THEN <<Near("p1", 3), Near("p2", 20)>> ELSE <<Near("s1", 4), Near("s2", 6)>>],
            dest |-> [m \in Modes |-> IF m = "car" THEN <<Near("p3", 3)>> ELSE <<Near("z", 5)>>]],
  stop |-> [s1 |-> [points |-> {}], s2 |-> [points |-> {"a", "b"}], z |-> [points |-> {}], t |-> [points |-> {}], t2 |-> [points |-> {}], m |-> [points |-> {"a", "b"}]],
  point |-> [a |-> [entrance |-> TRUE, exit |-> FALSE, traversal |-> 3], b |-> [entrance |-> TRUE, exit |-> TRUE, traversal |-> 1]],
  park |-> [p1 |-> [park_ride |-> TRUE, nearby |-> [s1 |-> 2, s2 |-> 1]], p2 |-> [park_ride |-> TRUE, nearby |-> [s1 |-> 1]],
            p3 |-> [park_ride |-> TRUE, nearby |-> [z |-> 2]]],
  matrix |-> [orig |-> [m \in Modes |-> "o" :> [s1 |-> 5, a |-> 2, b |-> 5, p1 |-> 2]],
              dest |-> [m \in Modes |-> "d" :> [z |-> 4, p3 |-> 2]]],
  transfer |-> [a |-> 3, b |-> 4], max_places |-> 0, geovelo |-> {}, dead |-> {},
  dp |-> [p \in {<<m, "o", "d">> : m \in Modes} |-> 20],
  pt |-> [c \in Modes \X Modes |->
            PtAnswer(<<Journey(<<Pt("bus", "s1", "z", 100, 110)>>),
                     Journey(<<Pt("bus", "s2", "t", 101, 104), Fallback!Section("transfer", "walking", "t", "t2", 104, 105), Pt("bus", "t2", "z", 105, 109)>>)>>)],
  path |-> [p \in (Modes \X {"o", "o1", "o2"} \X {"s1", "s2", "a", "b", "p1"}) \cup (Modes \X {"d"} \X {"z", "p3"}) |-> 5]]

\* A request with the modes of its calls.
With(case, pairs) ==
  [case EXCEPT !.req.calls = pairs, !.req.modes = [orig |-> {c[1] : c \in pairs}, dest |-> {c[2] : c \in pairs}]]
WW == <<"walking", "walking", "indifferent">>
BW == <<"bike", "walking", "indifferent">>
SW == <<"bss", "walking", "indifferent">>
CW == <<"car", "walking", "indifferent">>
CC == <<"car", "car", "indifferent">>

\* What may happen to the services and to the direct paths.
Twists(c) == {c,
  [c EXCEPT !.dp = [p \in DOMAIN @ |-> 8]], [c EXCEPT !.dp = [p \in DOMAIN @ |-> Fallback!NoPath]],
  [c EXCEPT !.dp = [p \in DOMAIN @ |-> IF p[1] = "walking" THEN Fallback!Geovelo ELSE 20]],
  [c EXCEPT !.matrix.orig = [m \in Modes |-> NoMatrix]], [c EXCEPT !.geovelo = {<<"orig", "walking">>}],
  [c EXCEPT !.matrix.orig = [m \in Modes |-> "o" :> <<>>], !.dp = [p \in DOMAIN @ |-> Fallback!NoPath]],
  [c EXCEPT !.pt = [p \in DOMAIN @ |-> Failing("date_out_of_bounds")]],
  [c EXCEPT !.pt = [p \in DOMAIN @ |-> Failing("no_solution")]],
  [c EXCEPT !.dead = {"prox"}], [c EXCEPT !.dead = {"pt"}],
  [c EXCEPT !.req.radius.orig = 5], [c EXCEPT !.place["o"].odt = {"s1"}],
  [c EXCEPT !.path = [p \in DOMAIN @ |-> Fallback!NoPath]], [c EXCEPT !.path = [p \in DOMAIN @ |-> Fallback!Geovelo]],
  [c EXCEPT !.matrix.orig["walking"]["o"]["s1"] = Fallback!Unknown]}

CasesWalking == Twists(With(Base, {WW})) \cup
  {[With(Base, {WW, <<"bike", "bike", "only">>}) EXCEPT !.req.transfer_path = TRUE, !.req.loki_fare = TRUE]}
CasesModes == {With(Base, {WW, BW}),
  [With(Base, {SW, WW}) EXCEPT !.matrix.orig["bss"]["o"]["s1"] = 7, !.matrix.orig["bss"]["o"]["a"] = 1, !.dp = [p \in DOMAIN @ |-> 30]],
  With(Base, {CW}), With(Base, {CC}),
  [With(Base, {BW}) EXCEPT !.req.origin = "s1", !.req.max_to_pt["bike"] = 0]}
\* A POI with two entrances; s2 is nearer from the second.
Poi == [With(Base, {WW}) EXCEPT !.req.poi_access_points = TRUE, !.place["o"] = Place("poi", <<"o1", "o2">>, {}, {}),
          !.place = @ @@ ("o1" :> Place("poi", <<>>, {}, {})) @@ ("o2" :> Place("poi", <<>>, {}, {})),
          !.matrix.orig["walking"] = ("o1" :> [s1 |-> 5, a |-> 7, b |-> 6]) @@ ("o2" :> [s1 |-> 6, a |-> 2, b |-> 8]),
          !.dp = [p \in {"walking"} \X {"o1", "o2"} \X {"d"} |-> IF p[2] = "o1" THEN 20 ELSE 25]]
CasesPoi == {Poi, [Poi EXCEPT !.matrix.orig["walking"]["o2"]["s1"] = 4]}
CasesOther == {
  [With(Base, {WW}) EXCEPT !.req.type = "isochrone"], [With(Base, {WW}) EXCEPT !.req.type = "graphical"],
  [With(Base, {WW}) EXCEPT !.req.type = "graphical", !.matrix.orig["walking"]["o"] = <<>>],
  [With(Base, {WW}) EXCEPT !.req.max_duration = 0], [With(Base, {BW, WW}) EXCEPT !.req.direct_path = "only", !.dp[<<"bike", "o", "d">>] = Fallback!NoPath],
  [With(Base, {WW}) EXCEPT !.req.direct_path = "only", !.dp[<<"walking", "o", "d">>] = Fallback!Geovelo],
  [With(Base, {BW, WW}) EXCEPT !.req.direct_path = "only", !.dp[<<"bike", "o", "d">>] = Fallback!Geovelo],
  [With(Base, {WW}) EXCEPT !.max_places = 1]}
\* A bus, then the metro at m, which has two entrances.
Change(case) == [With(case, {WW}) EXCEPT !.req.transfer_path = TRUE,
  !.pt = [c \in DOMAIN @ |-> PtAnswer(<<Journey(<<Pt("bus", "s1", "t", 100, 103), Fallback!Section("transfer", "walking", "t", "m", 103, 105),
     Fallback!Section("waiting", "none", "m", "m", 105, 106), Pt("metro", "m", "z", 106, 109)>>)>>)]]
CasesTransfer == {Change(Base), [Change(Base) EXCEPT !.transfer = [a |-> Fallback!Unreached, b |-> Fallback!Unreached]],
  [Change(Base) EXCEPT !.transfer = [a |-> Fallback!Unknown, b |-> Fallback!Unreached]], [Change(Base) EXCEPT !.point.a.entrance = FALSE],
  [With(Base, {WW}) EXCEPT !.req.transfer_path = TRUE, !.req.loki_fare = TRUE]}

\* Requests that call kraken again: too few journeys, empty answers, errors.
Loop == INSTANCE NewDefault WITH
  MaxCalls <- 3, Instance <- TheInstance, Requests <- LoopRequests, Responses <- FewResponses
\* Two calls, each of the filters between journeys.
Filters == INSTANCE NewDefault WITH
  MaxCalls <- 3, Instance <- TheInstance, Requests <- FilterRequests, Responses <- MixedResponses
\* Several fallback modes, direct path modes and ridesharing.
ModePairs == INSTANCE NewDefault WITH
  MaxCalls <- 3, Instance <- TheInstance, Requests <- ModesRequests, Responses <- ModesResponses
\* More journeys than the answer may have.
Cull == INSTANCE NewDefault WITH
  MaxCalls <- 3, Instance <- TheInstance, Requests <- CullRequests, Responses <- ManyResponses
\* Two calls on foot, each service failing in its turn.
WalkingCases == INSTANCE Distributed WITH
  PoolSize <- 2, MaxRounds <- 2, Cases <- CasesWalking
\* Several fallback modes, three greenlets.
ModeCases == INSTANCE Distributed WITH
  PoolSize <- 3, MaxRounds <- 1, Cases <- CasesModes
\* The same with a pool of one greenlet.
OneGreenlet == INSTANCE Distributed WITH
  PoolSize <- 1, MaxRounds <- 1, Cases <- CasesModes
\* A POI with two entrances.
PoiCases == INSTANCE Distributed WITH
  PoolSize <- 2, MaxRounds <- 1, Cases <- CasesPoi
\* Isochrones, and requests for direct paths only.
OtherCases == INSTANCE Distributed WITH
  PoolSize <- 3, MaxRounds <- 1, Cases <- CasesOther
\* Transfers through the access points of a stop.
TransferCases == INSTANCE Distributed WITH
  PoolSize <- 3, MaxRounds <- 1, Cases <- CasesTransfer
-----------------------------------------------------------------------------
Init ==
  /\ scenario \in Scenarios
  /\ \/ scenario = "loop" /\ Loop!Init /\ OnlyNewDefault
     \/ scenario = "filters" /\ Filters!Init /\ OnlyNewDefault
     \/ scenario = "modes" /\ ModePairs!Init /\ OnlyNewDefault
     \/ scenario = "culling" /\ Cull!Init /\ OnlyNewDefault
     \/ scenario = "services" /\ WalkingCases!Init /\ OnlyDistributed
     \/ scenario = "fallbacks" /\ ModeCases!Init /\ OnlyDistributed
     \/ scenario = "one greenlet" /\ OneGreenlet!Init /\ OnlyDistributed
     \/ scenario = "poi" /\ PoiCases!Init /\ OnlyDistributed
     \/ scenario = "direct" /\ OtherCases!Init /\ OnlyDistributed
     \/ scenario = "transfer" /\ TransferCases!Init /\ OnlyDistributed

Next ==
  \/ scenario = "loop" /\ Loop!Next /\ UNCHANGED notNewDefault
  \/ scenario = "filters" /\ Filters!Next /\ UNCHANGED notNewDefault
  \/ scenario = "modes" /\ ModePairs!Next /\ UNCHANGED notNewDefault
  \/ scenario = "culling" /\ Cull!Next /\ UNCHANGED notNewDefault
  \/ scenario = "services" /\ WalkingCases!Next /\ UNCHANGED notDistributed
  \/ scenario = "fallbacks" /\ ModeCases!Next /\ UNCHANGED notDistributed
  \/ scenario = "one greenlet" /\ OneGreenlet!Next /\ UNCHANGED notDistributed
  \/ scenario = "poi" /\ PoiCases!Next /\ UNCHANGED notDistributed
  \/ scenario = "direct" /\ OtherCases!Next /\ UNCHANGED notDistributed
  \/ scenario = "transfer" /\ TransferCases!Next /\ UNCHANGED notDistributed

Spec == Init /\ [][Next]_vars
-----------------------------------------------------------------------------
\* Whatever kraken answers and in whatever order, the answer of new_default has no two journeys
\* of the same vehicles, has one best journey and none ahead of it, loses every journey that
\* passes the filters only to another one, covers as many sections as any answer of its size
\* could, and has the tickets of its journeys; kraken is called for each direct path mode and
\* a bounded number of times (new_default.py, journey_filter.py, helpers.py).
BestAnswer ==
  /\ scenario = "loop" => Loop!CallsBounded /\ Loop!NothingLost
  /\ scenario = "filters" => Filters!NoTwins /\ Filters!NothingLost /\ Filters!BestIsKept
  /\ scenario = "modes" => ModePairs!CallsCoverModes /\ ModePairs!TicketsMatch
  /\ scenario = "culling" => /\ Cull!AnswerIsBounded /\ Cull!BestIsKept /\ Cull!TicketsMatch
                             /\ Cull!CullingIsOptimal /\ Cull!CombinationsComplete

\* Whatever order the greenlets of the distributed scenario end in and whichever service fails:
\* a journey that kraken found is kept, its fallbacks are the best paths that were asked and
\* follow its vehicles without a gap; a greenlet waits only for earlier ones and none outlives
\* its scope; the error that is given is that of what failed (distributed.py, helper_classes/).
JourneysAreWhole ==
  /\ scenario = "services" => WalkingCases!ScopeIsClean /\ WalkingCases!ErrorsAreTrue /\ WalkingCases!JourneysAreWhole
  /\ scenario = "fallbacks" => /\ ModeCases!NothingLost /\ ModeCases!JourneysAreWhole /\ ModeCases!PathsWereAsked
                               /\ ModeCases!DurationsAreBest /\ ModeCases!WaitsForEarlier
  /\ scenario = "one greenlet" => OneGreenlet!NothingLost /\ OneGreenlet!WaitsForEarlier
  /\ scenario = "poi" => PoiCases!DurationsAreBest /\ PoiCases!PathsWereAsked
  /\ scenario = "direct" => OtherCases!ScopeIsClean
  /\ scenario = "transfer" => TransferCases!TransferIsBest /\ TransferCases!JourneysAreWhole
=============================================================================
