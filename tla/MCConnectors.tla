--------------------------- MODULE MCConnectors ----------------------------
(***************************************************************************)
(* The connectors of jormungandr to outside services, for TLC.  A          *)
(* behaviour runs one scenario: an instance of one component, whose        *)
(* variables are the ones of the same names declared here.                 *)
(***************************************************************************)
EXTENDS Integers, Sequences, FiniteSets, TLC

CONSTANT Scenarios   \* the scenarios of the run

VARIABLES
  scenario,   \* the one that this behaviour runs
  \* RealtimeSchedule
  api, from, phase, task, board, total, breaker, cache, served,
  \* ParkingProviders
  work, local, version, replaced, epoch, revoked, now,
  \* ExternalServices
  req,
  \* Ridesharing
  call, tried,
  \* StreetNetworkServices
  caller, pool, config

vars ==
  <<scenario, api, from, phase, task, board, total, breaker, cache, served, work, local, version,
    replaced, epoch, revoked, now, req, call, tried, caller, pool, config>>

\* The variables of the components that a scenario does not run are off.
Off == "off"
NoRealtime == api = Off /\ from = Off /\ phase = Off /\ task = Off /\ board = Off /\ total = Off
NoParking == work = Off /\ local = Off /\ epoch = Off /\ revoked = Off
NoRidesharing == call = Off /\ tried = Off
NoStreets == caller = Off /\ pool = Off /\ config = Off
realtimeVars == <<api, from, phase, task, board, total>>
parkingVars == <<work, local, epoch, revoked>>
ridesharingVars == <<call, tried>>
streetsVars == <<caller, pool, config>>

OnlyRealtime ==
  /\ NoParking /\ NoRidesharing /\ NoStreets /\ version = Off /\ replaced = Off /\ now = Off
  /\ req = Off
notRealtime == <<scenario, parkingVars, ridesharingVars, streetsVars, version, replaced, now, req>>
OnlyParking == NoRealtime /\ NoRidesharing /\ NoStreets /\ req = Off
notParking == <<scenario, realtimeVars, ridesharingVars, streetsVars, req>>
OnlyExternal == NoRealtime /\ NoParking /\ NoRidesharing /\ NoStreets
notExternal == <<scenario, realtimeVars, parkingVars, ridesharingVars, streetsVars>>
OnlyRidesharing ==
  /\ NoRealtime /\ NoParking /\ NoStreets /\ cache = Off /\ served = Off /\ version = Off
  /\ replaced = Off /\ now = Off
notRidesharing == <<scenario, realtimeVars, parkingVars, streetsVars, cache, served, version, replaced, now>>
OnlyStreets ==
  /\ NoRealtime /\ NoParking /\ NoRidesharing /\ cache = Off /\ served = Off /\ version = Off
  /\ replaced = Off /\ req = Off
notStreets == <<scenario, realtimeVars, parkingVars, ridesharingVars, cache, served, version, replaced, req>>
-----------------------------------------------------------------------------
\* Null of ParkingProviders
None == -1

(* Realtime schedules *)

Dep(rp, t, rt, dest) == [rp |-> rp, time |-> t, rt |-> rt, toDest |-> dest]
Resp(s, body, deps) == [status |-> s, body |-> body, deps |-> deps]
\* Two routes of a line at a stop, and a line without realtime at another.
LineABC == "a" :> "l1" @@ "b" :> "l1" @@ "c" :> "l2"
StopABC == "a" :> "s1" @@ "b" :> "s1" @@ "c" :> "s2"
BaseABC == "a" :> <<1, 3>> @@ "b" :> <<2>> @@ "c" :> <<2>>
TimeoSytral == "a" :> "timeo" @@ "b" :> "sytral" @@ "c" :> "no_proxy"
SiriSynthese == "a" :> "siri" @@ "b" :> "synthese" @@ "c" :> "cleverage"
AllCodes == [rp \in {"a", "b", "c"} |-> {"stop", "line", "route"}]
Answers == {Resp(200, "data", <<>>), Resp(503, "data", <<>>), Resp(204, "data", <<>>), Resp(200, "invalid", <<>>),
            Resp(200, "error", <<>>), Resp(200, "data", <<Dep("a", 0, TRUE, TRUE), Dep("a", 2, TRUE, FALSE), Dep("b", 3, FALSE, TRUE), Dep("a", 3, TRUE, TRUE)>>)}

(* Bike stations and car parks: two versions of what the services publish *)

Provider(class, network, ops) ==
  [class |-> class, network |-> network, operators |-> ops, geometry |-> "none", shape |-> {}, feed |-> class]
Poi(type, network, operator, ref, coord) ==
  [type |-> type, network |-> network, operator |-> operator, ref |-> ref, coord |-> coord, amenity |-> TRUE, number |-> 3]
Stands(state, places, bikes, electric) ==
  [state |-> state, places |-> places, bikes |-> bikes, electric |-> electric]
CarPlaces(available, occupied, all) ==
  [available |-> available, occupied |-> occupied, total |-> all, aPRM |-> 1, oPRM |-> 0, tPRM |-> 2, new |-> FALSE]
NearPlace(coord, places, bikes) == [coord |-> coord, places |-> places, bikes |-> bikes, availability |-> places > 0]

Names == "Velib" :> "velib" @@ "velib" :> "velib" @@ "Keolis" :> "keolis" @@ "keolis" :> "keolis"
         @@ "" :> "" @@ "tcl" :> "tcl"
Stripped == "01" :> "1" @@ "1" :> "1" @@ "2" :> "2" @@ "" :> ""
NearPairs == {<<"x", "x">>, <<"y", "y">>, <<"y", "z">>}

\* Bike stations of each provider.
BssArgs ==
  "atos" :> Provider("atos", "velib", {"Keolis"}) @@ "cykleo" :> Provider("cykleo", "tcl", {"keolis"}) @@
  "forseti" :> [Provider("forseti", "Forseti", {}) EXCEPT !.feed = ""]
BssPois ==
  "a1" :> Poi("bss", "Velib", "keolis", "01", "x") @@ "a2" :> Poi("bss", "velib", "Keolis", "2", "x") @@
  "c1" :> Poi("bss", "tcl", "keolis", "1", "x") @@ "f" :> Poi("bss", "", "", "", "y") @@
  "park" :> Poi("car", "", "tcl", "1", "x") @@ "nowhere" :> Poi("bss", "", "", "", "")
BssBlocks ==
  << [kind |-> "bss", providers |-> <<"atos", "cykleo">>], [kind |-> "bss", providers |-> <<"forseti">>] >>
BssOrdered ==
  << [kind |-> "bss", providers |-> <<>>], [kind |-> "bss", providers |-> <<"atos", "cykleo", "forseti">>] >>
BssStations ==
  "atos" :> << "1" :> Stands("CONNECTEE", 2, 3, 0) @@ "2" :> Stands("LOST", 4, 4, 0),
               "1" :> Stands("CONNECTEE", 1, 4, 0) @@ "2" :> Stands("CONNECTEE", 4, 4, 0) >> @@
  "cykleo" :> << "1" :> Stands("IN_SERVICE", 2, 1, 1), "1" :> Stands("DECOMMISSIONED", 2, 1, 1) >> @@
  "forseti" :> << <<NearPlace("z", 5, 2), NearPlace("y", 1, 1)>>, <<NearPlace("x", 1, 0)>> >>
Query(pois) == [pois |-> pois, wanted |-> {"bss", "car"}, feeds |-> TRUE]
BssQueries == {Query(<<"a2", "a1", "c1", "park", "f">>), Query(<<"c1", "nowhere">>), [Query(<<"a1", "f">>) EXCEPT !.feeds = FALSE]}
OneProcess == "w1" :> "p1"
TwoProcesses == "w1" :> "p1" @@ "w2" :> "p2"

\* jcdecaux and cykleo, whose numbers go through several levels.
LevelArgs == "jcdecaux" :> Provider("jcdecaux", "velib", {"keolis"})
LevelPois == "j1" :> Poi("bss", "velib", "keolis", "1", "x") @@ "j2" :> Poi("bss", "velib", "keolis", "2", "x")
LevelBlocks == << [kind |-> "bss", providers |-> <<"jcdecaux">>] >>
LevelStations == "jcdecaux" :> << "1" :> Stands("OPEN", 2, 3, 0) @@ "2" :> Stands("CLOSED", 2, 3, 0),
                                  "1" :> Stands("CLOSED", 1, 3, 0) @@ "2" :> Stands("BROKEN", 2, 3, 0) >>
LevelQueries == {Query(<<"j1", "j2">>)}

TokenArgs == "cykleo" :> Provider("cykleo", "tcl", {"keolis"})
TokenPois == "c1" :> Poi("bss", "tcl", "keolis", "01", "x")
TokenBlocks == << [kind |-> "bss", providers |-> <<"cykleo">>] >>
TokenStations == "cykleo" :> << "1" :> Stands("IN_SERVICE", 2, 1, 1), "1" :> Stands("OUT_OF_SERVICE", 2, 1, 1) >>
TokenQueries == {Query(<<"c1">>)}

\* Car parks.
CarArgs ==
  "divia" :> [Provider("divia", "", {"keolis"}) EXCEPT !.geometry = "valid", !.shape = {"x"}] @@
  "sytral" :> [Provider("sytral", "", {"keolis"}) EXCEPT !.geometry = "invalid", !.shape = {"y"}] @@
  "star" :> Provider("star", "", {"tcl"}) @@ "forseti_car" :> Provider("forseti_car", "", {})
CarPois ==
  "in" :> Poi("car", "", "Keolis", "1", "x") @@ "out" :> Poi("car", "", "keolis", "2", "y") @@
  "new" :> Poi("car", "", "tcl", "2", "x") @@ "old" :> Poi("car", "", "tcl", "1", "x") @@
  "other" :> Poi("car", "", "", "", "y") @@ "bss" :> Poi("bss", "", "", "", "y") @@
  "plain" :> [Poi("car", "", "", "", "y") EXCEPT !.amenity = FALSE] @@ "noref" :> Poi("car", "", "tcl", "", "x")
CarBlocks ==
  << [kind |-> "car", providers |-> <<"divia", "sytral">>],
     [kind |-> "car", providers |-> <<"star", "forseti_car">>] >>
CarStations ==
  "divia" :> << "1" :> CarPlaces(3, None, 10), "1" :> CarPlaces(12, None, 10) >> @@
  "sytral" :> << "2" :> CarPlaces(3, 4, None), "1" :> CarPlaces(3, 4, None) >> @@
  "star" :> << "1" :> CarPlaces(0, 2, None) @@ "2" :> [CarPlaces(4, None, 6) EXCEPT !.new = TRUE],
               "1" :> CarPlaces(None, None, None) @@ "2" :> [CarPlaces(None, None, None) EXCEPT !.new = TRUE] >> @@
  "forseti_car" :> << <<NearPlace("z", 5, 2), NearPlace("y", 0, 1)>>, <<NearPlace("x", 1, 0)>> >>
CarQueries ==
  {Query(<<"in", "out", "new">>), Query(<<"other", "bss", "plain">>), Query(<<"noref", "old">>)}

\* A provider whose class is not found.
BrokenBlocks == << [kind |-> "bss", providers |-> <<"None", "atos">>], [kind |-> "bss", providers |-> <<"forseti", "cykleo">>] >>

(* Equipments and vehicles *)

Code(type, value) == [type |-> type, value |-> value]
Equipments(id, types) == [id |-> id, types |-> types]
Sytral == <<Equipments("sytral", {"TCL_ASCENSEUR", "TCL_ESCALIER"})>>
NoProvider == <<>>

LiftStates ==
  "sytral" :> << "1" :> "available" @@ "2" :> "unavailable", "1" :> "unavailable" >> @@
  "other" :> << "2" :> "available", "2" :> "available" >>
ForsetiData == "forseti" :> << "a" :> "x1" @@ "b" :> "y1", "b" :> "y2" @@ "a" :> "x2" >>

Place(codes) == [codes |-> codes, details |-> <<>>]
Vehicle(codes) == [codes |-> codes, stop |-> <<>>, pc |-> "waiting", position |-> "", of |-> 0, at |-> 0]
Response(name, items) == [api |-> name, items |-> items, count |-> 5, given |-> <<>>]

LiftCode == Code("TCL_ASCENSEUR", "1")
StairsCode == Code("TCL_ESCALIER", "2")
UnknownCode == Code("TCL_ESCALIER", "3")
OtherCode == Code("gtfs", "1")

EquipmentRequests ==
  {Response("journeys", <<Place(<<LiftCode, OtherCode>>), Place(<<UnknownCode, StairsCode>>)>>),
   Response("equipment_reports", <<Place(<<LiftCode, StairsCode, LiftCode, UnknownCode>>), Place(<<OtherCode>>)>>)}
VehicleRequests ==
  {Response("vehicle_positions", <<Vehicle(<<Code("source", "a")>>), Vehicle(<<Code("source", "b"), Code("gtfs", "a")>>), Vehicle(<<Code("gtfs", "a")>>), Vehicle(<<Code("source", "c")>>)>>),
   Response("vehicle_positions", <<Vehicle(<<Code("source", "b"), Code("gtfs", "a")>>)>>),
   Response("vehicle_occupancies", <<[Vehicle(<<Code("source", "a")>>) EXCEPT !.stop = <<Code("source", "s")>>],
                              [Vehicle(<<Code("source", "b")>>) EXCEPT !.stop = <<Code("gtfs", "s")>>]>>),
   Response("free_floatings", <<>>),
   [Response("obstacles", <<>>) EXCEPT !.given = <<[on |-> 1, per |-> 1, total |-> 2]>>]}

(* Ridesharing *)

Service(class) == [class |-> class, feed |-> class]

InstantAds == << [pickup |-> 510, paths |-> <<[mode |-> "WALK"], [mode |-> "RIDESHARINGAD", pickup |-> 510, dropoff |-> 550, dist1 |-> 3, dist2 |-> 0, price |-> 170]>>],
                 [pickup |-> 0, paths |-> <<[mode |-> "WALK"]>>] >>
BlablaAds == << [pickup |-> 0, walk1 |-> 5, walk2 |-> 0, duration |-> 40, price |-> 2], [pickup |-> 0, walk1 |-> 0, walk2 |-> 7, duration |-> 45, price |-> 3] >>
DriverAds == << [pickup |-> 520, walk1 |-> 10, walk2 |-> 4, duration |-> 30, price |-> 1, shape1 |-> 2, shape2 |-> 5] >>
OuestAds == << [days |-> {"monday"}, min |-> 500, max |-> 541, duration |-> 20, price |-> 2],
               [days |-> {}, min |-> 500, max |-> 541, duration |-> 20, price |-> 2] >>

ThreeServices == <<Service("instant_system"), Service("blablalines"), Service("ouestgo")>>
ThreeAds == <<InstantAds, BlablaAds, OuestAds>>
TwoServices == <<Service("karos"), [Service("klaxit") EXCEPT !.feed = "karos"]>>
TwoAds == <<DriverAds, <<[DriverAds[1] EXCEPT !.pickup = 530]>> >>
Walks == [d \in 0 .. 3 |-> 4 * d]

Sec(mode, b, e) == [mode |-> mode, begin |-> b, end |-> e, offers |-> <<>>]
Journey(rs, dead, sections) == [ridesharing |-> rs, dead |-> dead, sections |-> sections]

Both == Journey(TRUE, FALSE, <<Sec("ridesharing", 440, 500), Sec("pt", 500, 505), Sec("ridesharing", 505, 560)>>)
Direct == Journey(TRUE, FALSE, <<Sec("ridesharing", 500, 560)>>)
Plain == Journey(FALSE, FALSE, <<Sec("pt", 500, 560)>>)
Gone == Journey(TRUE, TRUE, <<Sec("ridesharing", 500, 560)>>)

ToDecorate(clockwise, one, js) == [date |-> 505, day |-> "monday", clockwise |-> clockwise, pool |-> one, journeys |-> js]
PoolRequests == {ToDecorate(TRUE, TRUE, <<Plain, Direct>>), ToDecorate(TRUE, FALSE, <<Direct, Gone, Both>>), ToDecorate(TRUE, TRUE, <<Gone, Plain>>)}
TwoRequests == {ToDecorate(TRUE, TRUE, <<Both>>), ToDecorate(TRUE, FALSE, <<Both, Direct>>), [ToDecorate(TRUE, TRUE, <<Direct>>) EXCEPT !.date = 900]}

(* Streets: a home h, a work place w, three stops and two car parks *)

Connector(class, backup) ==
  [class |-> class, backup |-> backup, zone |-> TRUE, max |-> 3, park |-> 0, module |-> "augeas", walking |-> "",
   modes |-> CASE class = "taxi" -> {"taxi"} [] class = "ridesharing" -> {"ridesharing"} [] OTHER -> {"walking"}]

AllPlaces == {"h", "w", "a", "b", "c", "p", "r"}
ZonePart  == {"h", "a", "b"}
Weights   == "a" :> 2 @@ "c" :> 1 @@ "b" :> 3

\* Seconds: odd by bike and on foot, so that halves are rounded; no path to
\* b by car, a park from which nobody walks.
Rank == [x \in AllPlaces |-> CASE x = "h" -> 1 [] x = "w" -> 2 [] x = "a" -> 3 [] x = "b" -> 5
                               [] x = "c" -> 7 [] x = "p" -> 11 [] OTHER -> 13]
Gap(x, y) == IF Rank[x] > Rank[y] THEN 2 * (Rank[x] - Rank[y]) + 1 ELSE 2 * (Rank[y] - Rank[x]) + 1
TimeTable == [m \in {"walking", "bike", "car", "car_no_park", "taxi"} |->
  [x \in AllPlaces |-> [y \in AllPlaces |->
    CASE m = "car" /\ "b" \in {x, y} -> 0
      [] m = "walking" /\ "r" \in {x, y} -> 0
      [] OTHER -> Gap(x, y)]]]
TrafficOf == 100 :> 0 @@ 200 :> 4
ParkTimes == [x \in AllPlaces |-> Rank[x]]
Waits     == [after |-> 3, before |-> 6]

\* A question: places of a matrix, ends of a path.
MatrixOf(s, mode, froms, tos) ==
  [api |-> "matrix", s |-> s, mode |-> mode, from |-> froms, to |-> tos, type |-> "none",
   date |-> 100, start |-> TRUE, wheelchair |-> TRUE, max |-> 40]
PathOf(s, mode, o, d, type, at, start) ==
  [api |-> "path", s |-> s, mode |-> mode, from |-> <<o>>, to |-> <<d>>, type |-> type,
   date |-> at, start |-> start, wheelchair |-> TRUE, max |-> 40]

Types == {"direct", "beginning", "ending"}

\* The connectors that answer themselves or through a backup.
ConfigPlain ==
  "geovelo" :> Connector("geovelo", "asgard") @@ "andyamo" :> Connector("andyamo", "asgard") @@
  "handimap" :> Connector("handimap", "") @@ "here" :> Connector("here", "") @@
  "valhalla" :> [Connector("valhalla", "") EXCEPT !.park = 5] @@ "asgard" :> Connector("asgard", "") @@
  "kraken" :> Connector("kraken", "") @@ "alone" :> Connector("andyamo", "") @@ "wide" :> [Connector("geovelo", "asgard") EXCEPT !.zone = FALSE]

ModeOf == "geovelo" :> "bike" @@ "andyamo" :> "walking" @@ "handimap" :> "walking" @@ "here" :> "car_no_park"
          @@ "alone" :> "walking" @@ "wide" :> "bike" @@ "valhalla" :> "car" @@ "asgard" :> "car" @@ "kraken" :> "car"

MatrixQuestions ==
  UNION {{MatrixOf(s, ModeOf[s], <<"h">>, <<"a", "b", "c">>), MatrixOf(s, ModeOf[s], <<"a", "b", "c">>, <<"w">>),
          MatrixOf(s, ModeOf[s], <<"a", "c">>, <<"h", "w">>)} : s \in {"valhalla", "kraken"}}
  \cup UNION {{MatrixOf(s, ModeOf[s], <<"h">>, <<"a", "b", "c">>), MatrixOf(s, ModeOf[s], <<"a", "b", "c">>, <<"w">>)}
              : s \in DOMAIN ModeOf}
  \cup {MatrixOf("valhalla", "taxi", <<"h">>, <<"a">>)}

PathQuestions ==
  {PathOf(s, ModeOf[s], o, "c", t, d, st) :
     s \in DOMAIN ModeOf, o \in {"h", "b"}, t \in Types, d \in {100, 200}, st \in BOOLEAN}

\* The connectors around another one.
ConfigWrapped ==
  "asgard" :> Connector("asgard", "") @@ "kraken" :> Connector("kraken", "") @@ "valhalla" :> Connector("valhalla", "") @@
  "taxi" :> Connector("taxi", "kraken") @@ "ridesharing" :> Connector("ridesharing", "kraken") @@
  "parking" :> Connector("with_parking", "asgard") @@
  "car" :> [Connector("car_with_park", "kraken") EXCEPT !.walking = "asgard"]

WrappedQuestions ==
  {MatrixOf(s, m, <<"h">>, <<"a", "b", "c">>) : s \in {"taxi", "ridesharing"}, m \in {"taxi"}}
  \cup {MatrixOf(s, "car", <<"h">>, <<"b", "a", "c">>) : s \in {"parking", "car"}}
  \cup {MatrixOf("parking", "car", <<"b", "a", "c">>, <<"w">>)}
  \cup {PathOf("taxi", "taxi", "h", "w", t, 100, TRUE) : t \in Types}
  \cup {PathOf("parking", "car", "h", "c", t, 100, TRUE) : t \in Types}
  \cup {PathOf("car", "car", "h", "w", t, d, st) : t \in Types, d \in {100}, st \in BOOLEAN}
  \cup {PathOf("car", "car", "h", "b", "direct", 100, FALSE)}

\* One connector of each kind, for callers that share them.
SharedQuestions ==
  {MatrixOf("here", "car", <<"h">>, <<"a", "c">>), PathOf("here", "car", "h", "c", "direct", 200, FALSE),
   PathOf("valhalla", "car", "h", "c", "ending", 100, TRUE), PathOf("valhalla", "taxi", "h", "c", "ending", 100, TRUE)}

\* Timeo and Sytral at one stop, two requests, a pool of one call.
Timeo == INSTANCE RealtimeSchedule WITH
  RoutePoints <- {"a", "b", "c"}, LineOf <- LineABC, StopOf <- StopABC, BaseTimes <- BaseABC,
  CodesOf <- AllCodes, Responses <- Answers, FailMax <- 2, Limited <- {"timeo", "synthese"},
  Count <- 4, ItemsPerSchedule <- 2, Froms <- {0, 1}, Duration <- 2, DayEnd <- 8, Step <- 2,
  SystemOf <- TimeoSytral, PoolSize <- 1, MaxRequests <- 2
\* Siri, Synthese and Cleverage, two calls at a time.
Siri == INSTANCE RealtimeSchedule WITH
  RoutePoints <- {"a", "b", "c"}, LineOf <- LineABC, StopOf <- StopABC, BaseTimes <- BaseABC,
  CodesOf <- AllCodes, Responses <- Answers, FailMax <- 2, Limited <- {"timeo", "synthese"},
  Count <- 4, ItemsPerSchedule <- 2, Froms <- {0, 1}, Duration <- 2, DayEnd <- 8, Step <- 2,
  SystemOf <- SiriSynthese, PoolSize <- 2, MaxRequests <- 1
\* Bike stations of three providers.
Bss == INSTANCE ParkingProviders WITH
  FailMax <- 2, ResetTimeout <- 1, MemoryTimeout <- 1, RedisTimeout <- 1, Lower <- Names,
  LStrip <- Stripped, Near <- NearPairs, TokenTimeout <- 2, Interval <- 1, Faults <- {},
  MaxVersion <- 2, MaxNow <- 1, MaxRequests <- 2, Workers <- {"w1"}, Process <- OneProcess,
  Args <- BssArgs, Blocks <- BssOrdered, Pois <- BssPois, Station <- BssStations,
  Queries <- BssQueries
\* The same in two blocks, with services that fail.
Failing == INSTANCE ParkingProviders WITH
  FailMax <- 2, ResetTimeout <- 1, MemoryTimeout <- 1, RedisTimeout <- 1, Lower <- Names,
  LStrip <- Stripped, Near <- NearPairs, TokenTimeout <- 2, Interval <- 1,
  Faults <- {"timeout", "500"}, MaxVersion <- 1, MaxNow <- 1, MaxRequests <- 1, Workers <- {"w1"},
  Process <- OneProcess, Args <- BssArgs, Blocks <- BssBlocks, Pois <- BssPois,
  Station <- BssStations, Queries <- BssQueries
\* The same with a provider whose class is not found.
BrokenClass == INSTANCE ParkingProviders WITH
  FailMax <- 2, ResetTimeout <- 1, MemoryTimeout <- 1, RedisTimeout <- 1, Lower <- Names,
  LStrip <- Stripped, Near <- NearPairs, TokenTimeout <- 2, Interval <- 1, Faults <- {},
  MaxVersion <- 2, MaxNow <- 1, MaxRequests <- 1, Workers <- {"w1"}, Process <- OneProcess,
  Args <- BssArgs, Blocks <- BrokenBlocks, Pois <- BssPois, Station <- BssStations,
  Queries <- BssQueries
\* Jcdecaux, whose numbers go through three levels, in two processes.
Levels == INSTANCE ParkingProviders WITH
  FailMax <- 2, ResetTimeout <- 1, MemoryTimeout <- 1, RedisTimeout <- 1, Lower <- Names,
  LStrip <- Stripped, Near <- NearPairs, TokenTimeout <- 2, Interval <- 1, Faults <- {"timeout"},
  MaxVersion <- 2, MaxNow <- 3, MaxRequests <- 2, Workers <- {"w1", "w2"}, Process <- TwoProcesses,
  Args <- LevelArgs, Blocks <- LevelBlocks, Pois <- LevelPois, Station <- LevelStations,
  Queries <- LevelQueries
\* Cykleo, whose token is revoked, in two processes.
OldTokens == INSTANCE ParkingProviders WITH
  FailMax <- 2, ResetTimeout <- 1, MemoryTimeout <- 1, RedisTimeout <- 1, Lower <- Names,
  LStrip <- Stripped, Near <- NearPairs, TokenTimeout <- 2, Interval <- 1, Faults <- {"timeout"},
  MaxVersion <- 2, MaxNow <- 4, MaxRequests <- 2, Workers <- {"w1", "w2"}, Process <- TwoProcesses,
  Args <- TokenArgs, Blocks <- TokenBlocks, Pois <- TokenPois, Station <- TokenStations,
  Queries <- TokenQueries
\* Car parks of four providers.
CarParks == INSTANCE ParkingProviders WITH
  FailMax <- 2, ResetTimeout <- 1, MemoryTimeout <- 1, RedisTimeout <- 1, Lower <- Names,
  LStrip <- Stripped, Near <- NearPairs, TokenTimeout <- 2, Interval <- 1, Faults <- {"500"},
  MaxVersion <- 2, MaxNow <- 1, MaxRequests <- 1, Workers <- {"w1"}, Process <- OneProcess,
  Args <- CarArgs, Blocks <- CarBlocks, Pois <- CarPois, Station <- CarStations,
  Queries <- CarQueries
\* Lifts and stairs of journeys and of reports.
Lifts == INSTANCE ExternalServices WITH
  FailMax <- 2, ResetTimeout <- 1, MemoryTimeout <- 1, RedisTimeout <- 1, PoolSize <- 2,
  MaxVersion <- 2, Providers <- Sytral, Published <- LiftStates, Faults <- {"timeout", "500"},
  MaxNow <- 3, MaxRequests <- 3, Requests <- EquipmentRequests
\* Positions and occupancies of vehicles, two calls at a time.
Vehicles == INSTANCE ExternalServices WITH
  FailMax <- 2, ResetTimeout <- 1, MemoryTimeout <- 1, RedisTimeout <- 1, PoolSize <- 2,
  MaxVersion <- 2, Providers <- NoProvider, Published <- ForsetiData, Faults <- {"timeout"},
  MaxNow <- 2, MaxRequests <- 2, Requests <- VehicleRequests
\* Three ridesharing services asked in a pool or one by one.
Offers == INSTANCE Ridesharing WITH
  FailMax <- 2, ResetTimeout <- 5, WalkTime <- Walks, Present <- 490, Frame <- 40, Delta <- 60,
  MinMargin <- 15, MaxMargin <- 300, Services <- ThreeServices, Ads <- ThreeAds, Faults <- {"500"},
  Requests <- PoolRequests
\* Two services that fail, and offers that come too late.
Lateness == INSTANCE Ridesharing WITH
  FailMax <- 2, ResetTimeout <- 5, WalkTime <- Walks, Present <- 490, Frame <- 40, Delta <- 60,
  MinMargin <- 15, MaxMargin <- 300, Services <- TwoServices, Ads <- TwoAds,
  Faults <- {"timeout", "malformed"}, Requests <- TwoRequests
\* A matrix of each connector.
Matrices == INSTANCE StreetNetworkServices WITH
  FailMax <- 2, ResetTimeout <- 2, Callers <- {"c1"}, Zone <- ZonePart, Modes4Geovelo <- Weights,
  Time <- TimeTable, Traffic <- TrafficOf, ParkTime <- ParkTimes, Parks <- {"p", "r"},
  TaxiWaits <- Waits, MaxMatrixPoints <- 2, CarPark <- 10, MaxPolls <- 1, MaxNow <- 0, Faults <- {},
  MaxPaths <- 2, Args <- ConfigPlain, Questions <- MatrixQuestions
\* Two paths of one request.
Paths == INSTANCE StreetNetworkServices WITH
  FailMax <- 2, ResetTimeout <- 2, Callers <- {"c1"}, Zone <- ZonePart, Modes4Geovelo <- Weights,
  Time <- TimeTable, Traffic <- TrafficOf, ParkTime <- ParkTimes, Parks <- {"p", "r"},
  TaxiWaits <- Waits, MaxMatrixPoints <- 2, CarPark <- 10, MaxPolls <- 1, MaxNow <- 0, Faults <- {},
  MaxPaths <- 2, Args <- ConfigPlain, Questions <- PathQuestions
\* The connectors around another one.
Wrappers == INSTANCE StreetNetworkServices WITH
  FailMax <- 2, ResetTimeout <- 2, Callers <- {"c1"}, Zone <- ZonePart, Modes4Geovelo <- Weights,
  Time <- TimeTable, Traffic <- TrafficOf, ParkTime <- ParkTimes, Parks <- {"p", "r"},
  TaxiWaits <- Waits, MaxMatrixPoints <- 2, CarPark <- 10, MaxPolls <- 1, MaxNow <- 0,
  Faults <- {"pb_error", "500"}, MaxPaths <- 1, Args <- ConfigWrapped, Questions <- WrappedQuestions
\* Two callers that share breakers.
SharedBreakers == INSTANCE StreetNetworkServices WITH
  FailMax <- 2, ResetTimeout <- 1, Callers <- {"c1", "c2"}, Zone <- ZonePart,
  Modes4Geovelo <- Weights, Time <- TimeTable, Traffic <- TrafficOf, ParkTime <- ParkTimes,
  Parks <- {"p", "r"}, TaxiWaits <- Waits, MaxMatrixPoints <- 2, CarPark <- 10, MaxPolls <- 1,
  MaxNow <- 2, Faults <- {"timeout", "500"}, MaxPaths <- 1, Args <- ConfigPlain,
  Questions <- SharedQuestions
-----------------------------------------------------------------------------
Init ==
  /\ scenario \in Scenarios
  /\ \/ scenario = "timeo" /\ Timeo!Init /\ OnlyRealtime
     \/ scenario = "siri" /\ Siri!Init /\ OnlyRealtime
     \/ scenario = "bss" /\ Bss!Init /\ OnlyParking
     \/ scenario = "failing" /\ Failing!Init /\ OnlyParking
     \/ scenario = "broken" /\ BrokenClass!Init /\ OnlyParking
     \/ scenario = "levels" /\ Levels!Init /\ OnlyParking
     \/ scenario = "tokens" /\ OldTokens!Init /\ OnlyParking
     \/ scenario = "car parks" /\ CarParks!Init /\ OnlyParking
     \/ scenario = "equipments" /\ Lifts!Init /\ OnlyExternal
     \/ scenario = "vehicles" /\ Vehicles!Init /\ OnlyExternal
     \/ scenario = "offers" /\ Offers!Init /\ OnlyRidesharing
     \/ scenario = "late offers" /\ Lateness!Init /\ OnlyRidesharing
     \/ scenario = "matrix" /\ Matrices!Init /\ OnlyStreets
     \/ scenario = "path" /\ Paths!Init /\ OnlyStreets
     \/ scenario = "wrapped" /\ Wrappers!Init /\ OnlyStreets
     \/ scenario = "shared" /\ SharedBreakers!Init /\ OnlyStreets

Next ==
  \/ scenario = "timeo" /\ Timeo!Next /\ UNCHANGED notRealtime
  \/ scenario = "siri" /\ Siri!Next /\ UNCHANGED notRealtime
  \/ scenario = "bss" /\ Bss!Next /\ UNCHANGED notParking
  \/ scenario = "failing" /\ Failing!Next /\ UNCHANGED notParking
  \/ scenario = "broken" /\ BrokenClass!Next /\ UNCHANGED notParking
  \/ scenario = "levels" /\ Levels!Next /\ UNCHANGED notParking
  \/ scenario = "tokens" /\ OldTokens!Next /\ UNCHANGED notParking
  \/ scenario = "car parks" /\ CarParks!Next /\ UNCHANGED notParking
  \/ scenario = "equipments" /\ Lifts!Next /\ UNCHANGED notExternal
  \/ scenario = "vehicles" /\ Vehicles!Next /\ UNCHANGED notExternal
  \/ scenario = "offers" /\ Offers!Next /\ UNCHANGED notRidesharing
  \/ scenario = "late offers" /\ Lateness!Next /\ UNCHANGED notRidesharing
  \/ scenario = "matrix" /\ Matrices!Next /\ UNCHANGED notStreets
  \/ scenario = "path" /\ Paths!Next /\ UNCHANGED notStreets
  \/ scenario = "wrapped" /\ Wrappers!Next /\ UNCHANGED notStreets
  \/ scenario = "shared" /\ SharedBreakers!Next /\ UNCHANGED notStreets

Spec == Init /\ [][Next]_vars
-----------------------------------------------------------------------------
\* While the answers of realtime systems come in, in any order and with any of them failing, a
\* route point shows only realtime passages of the window of the request, or its whole base
\* schedule; no answer makes the request fail, and the cut of next_departures keeps the
\* earliest (schedule.py, realtime_schedule/*.py).
SchedulesAreWhole ==
  [][/\ scenario = "timeo" => /\ Timeo!NoMix' /\ Timeo!InWindow' /\ Timeo!NeverCrashes'
                            /\ Timeo!EarliestKept
     /\ scenario = "siri" => Siri!NoMix' /\ Siri!NeverCrashes']_vars

\* The places of bike stations and car parks are those of a moment within the lifetimes of the
\* caches of both processes, and a revoked token is used no longer than it is cached; the
\* numbers add up, each POI that a provider handles is completed whoever fails, and the feeds
\* are those of the providers used (parking_space_availability/).
PlacesAreRecent ==
  /\ scenario = "levels" => Levels!ShownIsRecent
  /\ scenario = "tokens" => OldTokens!TokenIsRenewed
  /\ scenario = "bss" => Bss!NumbersAgree /\ Bss!FeedsAreOfProvidersUsed
  /\ scenario = "failing" => Failing!EveryPoiIsCompleted
  /\ scenario = "broken" => BrokenClass!FeedsAreOfProvidersUsed
  /\ scenario = "car parks" => CarParks!NumbersAgree /\ CarParks!EveryPoiIsCompleted /\ CarParks!FeedsAreOfProvidersUsed

\* A report has one detail for each code of a stop area, as recent as the cache allows, and
\* each vehicle gets the position of its own codes, whatever order the calls of the pool end in
\* (equipments/, external_services/).
VehiclesAndLiftsMatch ==
  /\ scenario = "equipments" => Lifts!ReportsAreComplete /\ Lifts!DetailsAreRecent
  /\ scenario = "vehicles" => Vehicles!PositionsAreTheirOwn

\* The offers of a ridesharing section are those asked for it, in order and without a gap, each
\* with its ticket; a journey is kept only with offers for each of its ridesharing sections, and
\* the journeys without ridesharing are kept (ridesharing_service_manager.py).
OffersBelong ==
  /\ scenario = "offers" => Offers!OffersInOrder /\ Offers!TicketsMatch
  /\ scenario = "late offers" => Lateness!KeptHasOffers /\ Lateness!OthersAreKept /\ Lateness!OffersAreContinuous

\* Through any chain of street network connectors, the cells of a matrix are those of its
\* places, the sections of a path follow each other to its arrival, a path found under a key is
\* the one that would be asked, and an error is one the scenario knows (street_network/).
StreetAnswersMatch ==
  /\ scenario = "matrix" => Matrices!MatrixIsAligned
  /\ scenario = "path" => Paths!PathIsContinuous /\ Paths!KeysTellPathsApart
  /\ scenario = "wrapped" => /\ Wrappers!MatrixIsAligned /\ Wrappers!PathIsContinuous
                             /\ Wrappers!ArrivesInTime /\ Wrappers!ParksNearest
  /\ scenario = "shared" => SharedBreakers!ErrorsAreKnown
=============================================================================
