---------------------------- MODULE MCRequests -----------------------------
(***************************************************************************)
(* What jormungandr does with a request before its scenario and after it:  *)
(* authentication, choice of the region, parameters of the query, calls to *)
(* kraken, rate limits, excluded zones and statistics.  A behaviour runs   *)
(* one scenario: KrakenClient with the constants of the configuration, or  *)
(* an instance of one component.                                           *)
(***************************************************************************)
EXTENDS JourneysParams, KrakenClient, TLC

CONSTANT Scenarios   \* the scenarios of the run

VARIABLES
  scenario,   \* the one that this behaviour runs
  \* Authentication
  db, redis, failures, user, region, granted, mem, red, req, age,
  \* Regions
  grant, alive, version, changed, date, seen, served,
  \* JourneysApi
  known, chosen, crowfly, dbUp,
  \* RateLimiter
  log, logLeft, block, lock, proc,
  \* StatManager
  thread, producer, rabbit, published,
  \* ExcludedZones
  shapes, failed, answer, restarts

mcVars ==
  <<scenario, db, redis, failures, user, region, granted, mem, red, req, age, grant, alive, version,
    changed, date, seen, now, served, downs, sockets, call, breaker, inst, kraken, ping, calls,
    breaks, known, chosen, crowfly, dbUp, log, logLeft, block, lock, proc, thread, producer, rabbit,
    published, shapes, failed, answer, restarts>>

\* The variables of the components that a scenario does not run are off.
Off == "off"
NoAuthentication == db = Off /\ redis = Off /\ user = Off /\ region = Off /\ age = Off
NoRegions == grant = Off /\ alive = Off /\ date = Off /\ seen = Off
NoClient ==
  /\ sockets = [s \in {} |-> Nothing] /\ call = [g \in Callers |-> Idle] /\ inst = NewInstance
  /\ kraken = [up |-> TRUE, version |-> 1] /\ ping = "on" /\ breaks = 0
NoJourneys == known = Off /\ chosen = Off /\ crowfly = Off /\ dbUp = Off
NoLimiter == log = Off /\ logLeft = Off /\ block = Off /\ proc = Off
NoStatistics == thread = Off /\ producer = Off /\ rabbit = Off /\ published = Off
NoZones == shapes = Off /\ failed = Off /\ answer = Off /\ restarts = Off
authenticationVars == <<db, redis, user, region, age>>
regionsVars == <<grant, alive, date, seen>>
clientVars == <<sockets, call, inst, kraken, ping, breaks>>
journeysVars == <<known, chosen, crowfly, dbUp>>
limiterVars == <<log, logLeft, block, proc>>
statisticsVars == <<thread, producer, rabbit, published>>
zonesVars == <<shapes, failed, answer, restarts>>

OnlyAuthentication ==
  /\ NoRegions /\ NoClient /\ NoJourneys /\ NoLimiter /\ NoStatistics /\ NoZones /\ version = Off
  /\ changed = Off /\ now = Off /\ served = Off /\ downs = Off /\ breaker = Off /\ calls = Off
  /\ lock = Off
notAuthentication ==
  <<scenario, regionsVars, clientVars, journeysVars, limiterVars, statisticsVars, zonesVars,
    version, changed, now, served, downs, breaker, calls, lock>>
OnlyRegions ==
  /\ NoAuthentication /\ NoClient /\ NoJourneys /\ NoLimiter /\ NoStatistics /\ NoZones
  /\ failures = Off /\ granted = Off /\ breaker = Off /\ calls = Off /\ lock = Off
notRegions ==
  <<scenario, authenticationVars, clientVars, journeysVars, limiterVars, statisticsVars, zonesVars,
    failures, granted, breaker, calls, lock>>
OnlyClient ==
  /\ NoAuthentication /\ NoRegions /\ NoJourneys /\ NoLimiter /\ NoStatistics /\ NoZones
  /\ failures = Off /\ granted = Off /\ mem = Off /\ red = Off /\ req = Off /\ version = Off
  /\ changed = Off /\ served = Off /\ lock = Off
notClient ==
  <<scenario, authenticationVars, regionsVars, journeysVars, limiterVars, statisticsVars, zonesVars,
    failures, granted, mem, red, req, version, changed, served, lock>>
OnlyJourneys ==
  /\ NoAuthentication /\ NoRegions /\ NoClient /\ NoLimiter /\ NoStatistics /\ NoZones
  /\ failures = Off /\ granted = Off /\ breaker = Off /\ calls = Off /\ lock = Off
notJourneys ==
  <<scenario, authenticationVars, regionsVars, clientVars, limiterVars, statisticsVars, zonesVars,
    failures, granted, breaker, calls, lock>>
OnlyLimiter ==
  /\ NoAuthentication /\ NoRegions /\ NoClient /\ NoJourneys /\ NoStatistics /\ NoZones
  /\ failures = Off /\ mem = Off /\ red = Off /\ req = Off /\ version = Off /\ changed = Off
  /\ now = Off /\ served = Off /\ downs = Off /\ breaker = Off /\ calls = Off
notLimiter ==
  <<scenario, authenticationVars, regionsVars, clientVars, journeysVars, statisticsVars, zonesVars,
    failures, mem, red, req, version, changed, now, served, downs, breaker, calls>>
OnlyStatistics ==
  /\ NoAuthentication /\ NoRegions /\ NoClient /\ NoJourneys /\ NoLimiter /\ NoZones
  /\ failures = Off /\ granted = Off /\ mem = Off /\ red = Off /\ req = Off /\ version = Off
  /\ changed = Off /\ served = Off
notStatistics ==
  <<scenario, authenticationVars, regionsVars, clientVars, journeysVars, limiterVars, zonesVars,
    failures, granted, mem, red, req, version, changed, served>>
OnlyZones ==
  /\ NoAuthentication /\ NoRegions /\ NoClient /\ NoJourneys /\ NoLimiter /\ NoStatistics
  /\ granted = Off /\ req = Off /\ served = Off /\ downs = Off /\ breaker = Off /\ lock = Off
notZones ==
  <<scenario, authenticationVars, regionsVars, clientVars, journeysVars, limiterVars,
    statisticsVars, granted, req, served, downs, breaker, lock>>
-----------------------------------------------------------------------------
(* The regions that Authentication and Regions know. *)
ClosedRegion == [exists |-> TRUE, free |-> FALSE]
FreeRegion == [exists |-> TRUE, free |-> TRUE]
NoRegion == [exists |-> FALSE, free |-> FALSE]
Setting(priority, free, shape) == [priority |-> priority, free |-> free, shape |-> shape]
Ranked ==
  "a" :> Setting(0, TRUE, {"p", "q"}) @@ "b" :> Setting(0, FALSE, {"p", "z"}) @@ "c" :> Setting(1, TRUE, {"q"})
OldObjects == [n \in {"a", "b", "c"} |-> << "x" :> "p" >>]
TwoSettings == "a" :> Setting(0, TRUE, {"p"}) @@ "b" :> Setting(0, FALSE, {"q"})
TwoObjects == "a" :> << "x" :> "p" @@ "y" :> "", "y" :> "" >> @@ "b" :> << <<>> >>
ByPlace ==
  [kind : {"name"}, value : {"a", "d"}] \cup [kind : {"lonlat"}, value : {"p", "q", "r"}] \cup {[kind |-> "all", value |-> ""]}

(* The queries of JourneysApi: what each gives, argument by argument; mode 7 is the taxi, 8
   ridesharing. *)
Coverages == {"idf", "fr", "world"}
TwoRegions == "a" :> {"idf", "fr"} @@ "b" :> {"idf", "fr"} @@ "c" :> {"idf"} @@ "d" :> {}
Ask(area, from, to, name, given) ==
  [region |-> area, uri |-> "", from |-> from, to |-> to, scenario |-> name, given |-> given]
GuessedQueries ==
  {Ask("", "a", "b", "", g) : g \in {<<>>, "traveler_type" :> 1, "max_duration_to_pt" :> 3, "count" :> 2,
                                       "is_journey_schedules" :> 1, "wheelchair" :> 1,
                                       "min_nb_journeys" :> 4 @@ "max_nb_journeys" :> 3,
                                       "max_transfers" :> 5 @@ "bss_return_penalty" :> 6}}
  \cup {Ask("", "a", to, "", <<>>) : to \in {"", "c", "d"}}
  \cup {Ask("", "", "", "", <<>>), Ask("fr", "a", "a", "", <<>>),
        Ask("", "a", "", "", "first_section_mode[]" :> 8),
        [Ask("idf", "", "b", "", "last_section_mode" :> 7) EXCEPT !.uri = "a"]}
SharedQueries ==
  {Ask("idf", "a", "b", "", <<>>),
   Ask("idf", "a", "b", "new_default", "_max_nb_crowfly_by_bike" :> 9)}

(* The conditions of RateLimiter. *)
Condition(requests, seconds) == [requests |-> requests, seconds |-> seconds]

(* The calls whose statistics are published. *)
Admin(id, level) == [id |-> id, level |-> level]
Place(type, id, area, admins) == [type |-> type, id |-> id, area |-> area, admins |-> admins]
Home == Place("address", "home", "", <<Admin("region", 4), Admin("city", 8)>>)
Stop == Place("stop_point", "sp", "sa", <<Admin("city", 8)>>)
Lone == Place("stop_point", "lone", "", <<>>)
Section(type, mode, from, to) ==
  [type |-> type, mode |-> mode, from |-> from, to |-> to, links |-> <<[type |-> "line", id |-> "l"]>>]
Walk == Section("street_network", "walking", Home, Stop)
Ride == Section("public_transport", "", Stop, Lone)
Rent == Section("bss_rent", "", Stop, Stop)
Bike == Section("street_network", "bike", Stop, Home)
StatCall(id, api, args, journeys) ==
  [id |-> id, api |-> api, args |-> args, journeys |-> journeys, error |-> "", coverages |-> {},
   filter |-> <<[parsed |-> TRUE], [parsed |-> FALSE]>>, user |-> "u", forwarded |-> <<"proxy">>,
   address |-> "ip", items |-> 1, wellFormed |-> TRUE]
JourneysCall ==
  StatCall(1, "journeys", {"from", "to"}, <<[sections |-> <<Walk, Ride, Bike>>, tags |-> {"best", "to_delete"}],
                                            [sections |-> <<Walk, Rent, Bike>>, tags |-> {"odd"}]>>)
IsochroneCall ==
  [StatCall(2, "journeys", {"from"}, <<[sections |-> <<Walk, Ride>>, tags |-> {}]>>) EXCEPT !.coverages = {"fr"}]
BrokenCall ==
  [StatCall(3, "lines", {}, <<>>) EXCEPT !.wellFormed = FALSE, !.error = "unknown_object", !.forwarded = <<>>]

(* The files of the bucket of excluded zones: versions that move a zone, or give it to
   another mode. *)
Zone(poi, shape, modes, from, to) ==
  [poi |-> poi, shape |-> shape, modes |-> modes, periods |-> {[from |-> from, to |-> to]}]
MovedZone ==
  << <<Zone("a", {"x"}, {"walking"}, 1, 2), Zone("b", {"no shape"}, {"walking", "bike"}, 1, 3)>>,
     <<Zone("a", {"y"}, {"bike"}, 1, 3)>> >>
GivenZone == << <<Zone("a", {"y"}, {"walking"}, 1, 2)>>, <<Zone("a", {"y"}, {"bike"}, 1, 3)>> >>

\* Access to a closed region while tyr, the database and redis change.
Access == INSTANCE Authentication WITH
  Processes <- {"p1"}, MemoryTimeout <- 1, RedisTimeout <- 2, FailMax <- 1, Apis <- {"region"},
  UserTypes <- {"super"}, Regions <- {ClosedRegion}, Databases <- {"up", "down", "broken"}
\* A region that becomes free and closed again.
FreeAccess == INSTANCE Authentication WITH
  Processes <- {"p1"}, MemoryTimeout <- 1, RedisTimeout <- 2, FailMax <- 1, Apis <- {"region"},
  UserTypes <- {"with_free"}, Regions <- {ClosedRegion, FreeRegion}, Databases <- {"up"}
\* The regions of an api without region, one of which is removed.
PlacesAccess == INSTANCE Authentication WITH
  Processes <- {"p1"}, MemoryTimeout <- 1, RedisTimeout <- 2, FailMax <- 1, Apis <- {"places"},
  UserTypes <- {"with_free"}, Regions <- {ClosedRegion, NoRegion}, Databases <- {"up"}
\* Two processes that share redis.
TwoProcesses == INSTANCE Authentication WITH
  Processes <- {"p1", "p2"}, MemoryTimeout <- 1, RedisTimeout <- 2, FailMax <- 1,
  Apis <- {"region"}, UserTypes <- {"super"}, Regions <- {ClosedRegion}, Databases <- {"up"}
\* Requests by name, by coordinate and without region, while the rights of the user change.
Coordinates == INSTANCE Regions WITH
  MemoryTimeout <- 1, RedisTimeout <- 2, Names <- <<"a", "b", "c">>, Settings <- Ranked,
  Objects <- OldObjects, Requests <- ByPlace, Zero <- {"z"},
  PerGrant <- {{}, {"a", "b", "c"}, {"a"}}, MaxNow <- 3, MaxRequests <- 2, MaxDowns <- 0
\* Objects looked up in krakens that stop, start and change their data.
ById == INSTANCE Regions WITH
  MemoryTimeout <- 1, RedisTimeout <- 1, Names <- <<"a", "b">>, Settings <- TwoSettings,
  Objects <- TwoObjects, Requests <- [kind : {"id"}, value : {"x", "y", "w"}], Zero <- {"z"},
  PerGrant <- {{"a", "b"}}, MaxNow <- 3, MaxRequests <- 3, MaxDowns <- 1
\* The data of kraken change while calls are on their way, and the breaker opens.
Metadata == INSTANCE KrakenClient WITH
  FailMax <- 1, ResetTimeout <- 1, Greenlets <- {"a", "b"}, Ttl <- 2, Timeout <- 1,
  Apis <- {"metadatas", "other"}, MaxSockets <- 2, MaxVersion <- 2, MaxNow <- 1, MaxCalls <- 2,
  MaxBreaks <- 0, MaxDowns <- 0
\* Fifteen queries over two regions that answer anything.
Queries == INSTANCE JourneysApi WITH
  MemoryTimeout <- 1, RedisTimeout <- 2, Clients <- {"c1"}, Instances <- <<"idf", "fr">>,
  RegionsOf <- TwoRegions, TimeZone <- [i \in Coverages |-> "paris"],
  Scenario <- [i \in Coverages |-> <<"experimental", "new_default">>], Nulls <- {"language"},
  Requests <- GuessedQueries, Answers <- {"pt", "non_pt", "none", "unknown_object"},
  Coverages <- {"idf"}, MaxNow <- 0, MaxRequests <- 1, MaxVersion <- 2, MaxDowns <- 0
\* Two requests at once for an instance whose row tyr changes, with a database that stops.
Rows == INSTANCE JourneysApi WITH
  MemoryTimeout <- 1, RedisTimeout <- 2, Clients <- {"c1", "c2"}, Instances <- <<"idf">>,
  RegionsOf <- [p \in {"a", "b"} |-> {"idf"}], TimeZone <- [i \in Coverages |-> "paris"],
  Scenario <- [i \in Coverages |-> <<"experimental", "new_default">>], Nulls <- {"language"},
  Requests <- SharedQueries, Answers <- {"pt"}, Coverages <- {"idf"}, MaxNow <- 2, MaxRequests <- 2,
  MaxVersion <- 2, MaxDowns <- 1
\* One query over three regions.
Reset == INSTANCE JourneysApi WITH
  MemoryTimeout <- 1, RedisTimeout <- 2, Clients <- {"c1"}, Instances <- <<"idf", "fr", "world">>,
  RegionsOf <- [p \in {"a", "b"} |-> Coverages], TimeZone <- [i \in Coverages |-> "paris"],
  Scenario <- [i \in Coverages |-> <<"experimental", "new_default">>], Nulls <- {"language"},
  Requests <- {Ask("", "a", "b", "", <<>>)}, Answers <- {"pt", "non_pt", "none", "unknown_object"},
  Coverages <- {"idf"}, MaxNow <- 0, MaxRequests <- 1, MaxVersion <- 1, MaxDowns <- 0
\* Two processes under two conditions, given out of order with a void one.
Windows == INSTANCE RateLimiter WITH
  Conditions <- <<Condition(3, 4), Condition(1, 1), Condition(2, 0)>>, Processes <- {"p", "q"},
  Patient <- {"p"}, Blocks <- {}, LockTimeout <- 2, InTime <- TRUE
\* Manual blocks, and a lock that may expire while it is held.
Blocked == INSTANCE RateLimiter WITH
  Conditions <- <<Condition(1, 2)>>, Processes <- {"p", "q"}, Patient <- {"p"}, Blocks <- {0, 2},
  LockTimeout <- 2, InTime <- FALSE
\* A condition of no request beside another.
Void == INSTANCE RateLimiter WITH
  Conditions <- <<Condition(2, 3), Condition(0, 2)>>, Processes <- {"p", "q"}, Patient <- {"p"},
  Blocks <- {1}, LockTimeout <- 2, InTime <- TRUE
\* Two threads publish to a broker that stops.
Statistics == INSTANCE StatManager WITH
  FailMax <- 2, ResetTimeout <- 1, Threads <- {"t", "u"},
  Calls <- {JourneysCall, IsochroneCall, BrokenCall}, SaveStat <- TRUE, KnownTags <- {"best"},
  MaxNow <- 2, MaxCalls <- 3, MaxDowns <- 1
\* A process alone, a bucket that changes and readings that fail.
Zones == INSTANCE ExcludedZones WITH
  MemoryTimeout <- 1, RedisTimeout <- 2, Processes <- {"p1"}, Bucket <- MovedZone,
  Modes <- {"walking", "bike"}, Dates <- {1, 2}, Places <- {"x"}, MaxNow <- 5, MaxCalls <- 3,
  MaxFailures <- 1, MaxRestarts <- 0
\* Two processes that share redis, one of which restarts.
SharedZones == INSTANCE ExcludedZones WITH
  MemoryTimeout <- 1, RedisTimeout <- 2, Processes <- {"p1", "p2"}, Bucket <- GivenZone,
  Modes <- {"walking", "bike"}, Dates <- {2}, Places <- {"y"}, MaxNow <- 3, MaxCalls <- 3,
  MaxFailures <- 0, MaxRestarts <- 1
-----------------------------------------------------------------------------
MCInit ==
  /\ scenario \in Scenarios
  /\ \/ scenario = "access" /\ Access!Init /\ OnlyAuthentication
     \/ scenario = "free" /\ FreeAccess!Init /\ OnlyAuthentication
     \/ scenario = "places" /\ PlacesAccess!Init /\ OnlyAuthentication
     \/ scenario = "processes" /\ TwoProcesses!Init /\ OnlyAuthentication
     \/ scenario = "coordinates" /\ Coordinates!Init /\ OnlyRegions
     \/ scenario = "objects" /\ ById!Init /\ OnlyRegions
     \/ scenario = "sockets" /\ Init /\ OnlyClient
     \/ scenario = "metadata" /\ Metadata!Init /\ OnlyClient
     \/ scenario = "queries" /\ Queries!Init /\ OnlyJourneys
     \/ scenario = "rows" /\ Rows!Init /\ OnlyJourneys
     \/ scenario = "reset" /\ Reset!Init /\ OnlyJourneys
     \/ scenario = "windows" /\ Windows!Init /\ OnlyLimiter
     \/ scenario = "blocks" /\ Blocked!Init /\ OnlyLimiter
     \/ scenario = "void" /\ Void!Init /\ OnlyLimiter
     \/ scenario = "statistics" /\ Statistics!Init /\ OnlyStatistics
     \/ scenario = "zones" /\ Zones!Init /\ OnlyZones
     \/ scenario = "shared zones" /\ SharedZones!Init /\ OnlyZones

MCNext ==
  \/ scenario = "access" /\ Access!Next /\ UNCHANGED notAuthentication
  \/ scenario = "free" /\ FreeAccess!Next /\ UNCHANGED notAuthentication
  \/ scenario = "places" /\ PlacesAccess!Next /\ UNCHANGED notAuthentication
  \/ scenario = "processes" /\ TwoProcesses!Next /\ UNCHANGED notAuthentication
  \/ scenario = "coordinates" /\ Coordinates!Next /\ UNCHANGED notRegions
  \/ scenario = "objects" /\ ById!Next /\ UNCHANGED notRegions
  \/ scenario = "sockets" /\ Next /\ UNCHANGED notClient
  \/ scenario = "metadata" /\ Metadata!Next /\ UNCHANGED notClient
  \/ scenario = "queries" /\ Queries!Next /\ UNCHANGED notJourneys
  \/ scenario = "rows" /\ Rows!Next /\ UNCHANGED notJourneys
  \/ scenario = "reset" /\ Reset!Next /\ UNCHANGED notJourneys
  \/ scenario = "windows" /\ Windows!Next /\ UNCHANGED notLimiter
  \/ scenario = "blocks" /\ Blocked!Next /\ UNCHANGED notLimiter
  \/ scenario = "void" /\ Void!Next /\ UNCHANGED notLimiter
  \/ scenario = "statistics" /\ Statistics!Next /\ UNCHANGED notStatistics
  \/ scenario = "zones" /\ Zones!Next /\ UNCHANGED notZones
  \/ scenario = "shared zones" /\ SharedZones!Next /\ UNCHANGED notZones

MCSpec == MCInit /\ [][MCNext]_mcVars
-----------------------------------------------------------------------------
\* Authentication answers from two levels of cache in several processes.  What is granted, listed
\* or refused was so in the database less than the two timeouts ago (twice that for what comes
\* from the user in a memoized access), or the database could not be read; and a refusal of a
\* region is never the memory of an older one.
AccessIsRecent ==
  [][/\ scenario = "access" => /\ Access!AccessIsRecent' /\ Access!RefusalIsRecent'
                               /\ Access!DenialIsFresh
     /\ scenario = "free" => FreeAccess!AccessIsRecent'
     /\ scenario = "places" => PlacesAccess!ListIsRecent'
     /\ scenario = "processes" => TwoProcesses!AccessIsRecent' /\ TwoProcesses!RefusalIsRecent']_mcVars

\* The instance that a request without region is given (instance_manager.py) contains the place,
\* is one that the user may use and the best of those; an object is found in it if it has been
\* there for longer than a cached answer lives, and is not once its new data are known.
RegionIsRight ==
  /\ scenario = "coordinates" => Coordinates!ChosenIsBest /\ Coordinates!ChosenIsGranted /\ Coordinates!ChosenContains
  /\ scenario = "objects" => ById!ObjectsAreFound /\ ById!DateInvalidates

\* A region is asked with what the query gives and the parameters of one recent version of its own
\* row, whatever other regions and other requests have; it knows the places; and the answer is the
\* best of those the regions gave.
JourneysOfTheRegion ==
  /\ scenario = "queries" => Queries!ArgsOfTheRegion /\ Queries!BestAnswer /\ Queries!RegionsKnowThePlaces
  /\ scenario = "reset" => Reset!BestAnswer /\ Reset!RegionsKnowThePlaces
  /\ scenario = "rows" => Rows!OneRecentRow /\ Rows!ScenarioOfTheRequest /\ Rows!CrowflyDefaultsKept

\* "Before requesting the next region, reset args before region specific settings" (Journeys.py).
ArgsAreReset == scenario = "reset" => Reset!ArgsOfTheRegion

\* Whoever calls and however the redis lock expires, no window of a condition has more calls than it
\* allows (as long as the lock holds), a condition of no request allows none, nothing is allowed
\* while a block lasts, and no one waits longer than the longest period or block.
LimitsAreRespected ==
  /\ scenario = "windows" => Windows!TypeOK /\ Windows!WindowsAreRespected
  /\ scenario = "blocks" => Blocked!TypeOK /\ Blocked!BlockHolds /\ Blocked!WaitIsBounded
  /\ scenario = "void" => Void!TypeOK /\ Void!NothingIsAllowed

\* What is published in the broker is about its own call, although two threads share the
\* producer, and with the breaker open no thread tries to publish.
StatisticsAreTrue ==
  [][scenario = "statistics" => Statistics!MessagesMatch' /\ Statistics!OpenIsRespected]_mcVars

\* A place is excluded as recent files say, however three nested caches age and readings fail; with
\* several processes it is at least for a zone that recent files give to the mode and the date.
ExclusionIsRecent ==
  /\ scenario = "zones" => Zones!ExclusionIsRecent /\ Zones!PublishedZones
  /\ scenario = "shared zones" => SharedZones!ExclusionIsJustified
=============================================================================
