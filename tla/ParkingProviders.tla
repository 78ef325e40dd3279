-------------------------- MODULE ParkingProviders --------------------------
(***************************************************************************)
(* How jormungandr adds the places of car parks and bike stations to the   *)
(* POIs of a response (parking_space_availability/): the managers pick the *)
(* first provider that handles a POI, and each provider asks its service   *)
(* through caches, tokens and a circuit breaker.  Workers of two processes *)
(* share the cache of the providers that have a name for it.  The services *)
(* publish new numbers, revoke tokens and fail.                            *)
(*                                                                         *)
(* A unit of time is longer than the timeout of any call: no time passes   *)
(* while a call is on its way.                                             *)
(***************************************************************************)
EXTENDS Integers, Sequences, FiniteSets, SequencesExt, CircuitBreaker, MemoCache

CONSTANTS
  Workers,       \* greenlets that serve requests
  Process,       \* worker |-> its process
  Args,          \* provider |-> the arguments of its configuration
  Blocks,        \* the managers of the instance, in order: [kind, providers]
  Pois,          \* poi |-> its type, properties and coordinates
  Queries,       \* the responses that are completed
  Station,       \* provider |-> version |-> what its service publishes
  Lower, LStrip, \* str.lower and str.lstrip('0') of the names and of the refs
  Near,          \* pairs of coordinates that are near
  TokenTimeout,  \* how long a token of cykleo is kept
  Interval,      \* _update_interval of jcdecaux
  Faults,        \* how the services fail in this instance
  MaxVersion, MaxNow, MaxRequests  \* bounds

VARIABLES
  work,      \* worker |-> the request it serves
  cache,     \* the cache shared by the processes
  breaker,   \* <<process, provider>> |-> its circuit breaker
  local,     \* <<process, provider>> |-> _data and _last_update of jcdecaux
  version,   \* provider |-> what its service publishes now
  replaced,  \* provider |-> version |-> when it was replaced
  epoch,     \* provider |-> tokens of an older epoch are refused
  revoked,   \* provider |-> when tokens were last revoked
  now,
  served     \* requests so far

vars == <<work, cache, breaker, local, version, replaced, epoch, revoked, now, served>>

Null == -1     \* None
Never == -1000 \* 1970

Class(p) == Args[p].class
Or0(n) == IF n = Null THEN 0 ELSE n

-----------------------------------------------------------------------------
(* Providers as they are created: names lose their case.                   *)

Lowered(a) == [a EXCEPT !.network = Lower[@], !.operators = {Lower[o] : o \in @}]

AtosProvider(a) == Lowered(a)
JcdecauxProvider(a) == Lowered(a)
CykleoProvider(a) == Lowered(a)
DummyProvider(a) == Lowered(a)
ForsetiProvider(a) == [a EXCEPT !.network = "Forseti"]

\* Only the providers of car parks set a shape, from a geometry that is valid.
BoundaryShape(a) == IF a.geometry = "valid" THEN a.shape ELSE {}

CommonCarParkProvider(a) == [a EXCEPT !.operators = {Lower[o] : o \in @}, !.shape = BoundaryShape(a)]

Create(a) ==
  CASE a.class = "atos" -> AtosProvider(a)
    [] a.class = "jcdecaux" -> JcdecauxProvider(a)
    [] a.class = "cykleo" -> CykleoProvider(a)
    [] a.class = "dummy" -> DummyProvider(a)
    [] a.class = "forseti" -> ForsetiProvider(a)
    [] OTHER -> CommonCarParkProvider(a)

Provider == [p \in DOMAIN Args |-> Create(Args[p])]

IsBss(p) == Class(p) \in {"atos", "jcdecaux", "cykleo", "forseti", "dummy"}

-----------------------------------------------------------------------------
(* Which provider handles a POI                                            *)

\* A provider without a shape takes any POI, others those inside; a POI whose
\* coordinates cannot be read is in no shape.
is_poi_coords_within_shape(p, poi) ==
  ~IsBss(p) /\ Provider[p].shape # {} => poi.coord \in Provider[p].shape

\* Operator and network, without case.
SupportsStation(p, poi) ==
  /\ Lower[poi.operator] \in Provider[p].operators
  /\ Lower[poi.network] = Provider[p].network

SupportsOperator(p, poi) == Lower[poi.operator] \in Provider[p].operators

SupportsDummy(p, poi) ==
  \/ Provider[p].network = "" /\ poi.ref = "" /\ Provider[p].operators = {}
  \/ Provider[p].network # "" /\ SupportsStation(p, poi)

support_poi(p, poi) ==
  CASE Class(p) \in {"atos", "jcdecaux", "cykleo"} -> SupportsStation(p, poi)
    [] Class(p) \in {"forseti", "forseti_car"} -> TRUE
    [] Class(p) = "dummy" -> SupportsDummy(p, poi)
    [] OTHER -> SupportsOperator(p, poi)

handle_poi(p, poi) == support_poi(p, poi) /\ is_poi_coords_within_shape(p, poi)

\* The first provider that handles the POI; a class that cannot be imported
\* leaves a None among the providers, on which the search fails.
find_provider(ps, poi) ==
  LET stops == {i \in 1 .. Len(ps) : ps[i] = "None" \/ handle_poi(ps[i], poi)}
  IN  IF stops = {} THEN "" ELSE ps[CHOOSE i \in stops : \A j \in stops : i <= j]

-----------------------------------------------------------------------------
(* What is read in the answers                                             *)

Numbers(v) == [kind |-> "data", v |-> v]
Failed == [kind |-> "error"]
Token(e) == [kind |-> "data", v |-> e]
Nothing == [kind |-> "none"]

\* The stations of an answer; version 0 is an answer without any.
StationsOf(p, d) == IF d.v = 0 THEN <<>> ELSE Station[p][d.v]

Stands(places, bikes, status) ==
  [is |-> "stands", places |-> places, bikes |-> bikes, total |-> places + bikes, status |-> status]
Unavailable == Stands(0, 0, "unavailable")

\* Atos: a station that is not connected has nothing, whatever it counts.
AtosStands(p, poi, d) ==
  LET ref == LStrip[poi.ref]
      s == StationsOf(p, d)
      st == IF s[ref].state = "CONNECTEE" THEN "open" ELSE "unavailable"
      read == Stands(s[ref].places, s[ref].bikes, st)
  IN  IF poi.ref = "" \/ ref \notin DOMAIN s THEN Unavailable
      ELSE IF read.status # "open" THEN [read EXCEPT !.bikes = 0, !.places = 0, !.total = 0]
      ELSE read

JcdecauxStands(p, poi, d) ==
  LET s == StationsOf(p, d)
  IN  CASE poi.ref \notin DOMAIN s -> Unavailable
        [] s[poi.ref].state = "OPEN" -> Stands(s[poi.ref].places, s[poi.ref].bikes, "open")
        [] s[poi.ref].state = "CLOSED" -> Stands(0, 0, "closed")
        [] OTHER -> Unavailable

CykleoStands(p, poi, d) ==
  LET ref == LStrip[poi.ref]
      s == StationsOf(p, d)
  IN  CASE ref \notin DOMAIN s -> Unavailable
        [] s[ref].state = "IN_SERVICE" -> Stands(s[ref].places, s[ref].bikes + s[ref].electric, "open")
        [] s[ref].state \in {"OUT_OF_SERVICE", "DECOMMISSIONED"} -> Stands(0, 0, "closed")
        [] OTHER -> Unavailable

\* Forseti: the first station of those near the POI.
ForsetiStands(p, poi, d) ==
  LET near == SelectSeq(StationsOf(p, d), LAMBDA s : <<poi.coord, s.coord>> \in Near)
  IN  IF near = <<>> THEN Unavailable ELSE Stands(near[1].places, near[1].bikes, "open")

\* A failure of the service gives an unavailable station.
StandsOf(p, poi, d) ==
  CASE Class(p) = "atos" -> AtosStands(p, poi, d)
    [] Class(p) = "jcdecaux" -> JcdecauxStands(p, poi, d)
    [] Class(p) = "cykleo" -> CykleoStands(p, poi, d)
    [] OTHER -> ForsetiStands(p, poi, d)

Raises(p, poi, d) == IF d.kind = "error" THEN [is |-> "exception"] ELSE StandsOf(p, poi, d)

get_informations(p, poi, d) == IF d.kind = "error" THEN Unavailable ELSE StandsOf(p, poi, d)

\* Places of a car park; the total is the sum when it is not given.
ParkingPlaces(available, occupied, aPRM, oPRM, total) ==
  [is |-> "places", available |-> available, occupied |-> occupied, aPRM |-> aPRM, oPRM |-> oPRM,
   total |-> IF Or0(total) = 0 /\ {available, occupied, aPRM, oPRM} # {Null}
             THEN Or0(available) + Or0(occupied) + Or0(aPRM) + Or0(oPRM) ELSE total]

NoPlaces == [is |-> "None"]

DiviaPlaces(park) ==
  LET known == park.available # Null /\ park.total # Null /\ park.total >= park.available
  IN  ParkingPlaces(park.available, IF known THEN park.total - park.available ELSE Null, Null, Null, Null)

get_old_items(park) == ParkingPlaces(park.available, park.occupied, park.aPRM, park.oPRM, Null)

\* Occupied places are counted from a capacity that may be missing: the
\* subtraction fails.
get_new_items(park) ==
  LET fails(a, t) == a # Null /\ t = Null
      occupied(a, t) == IF t = Null THEN 0 ELSE t - Or0(a)
  IN  IF fails(park.available, park.total) \/ fails(park.aPRM, park.tPRM) THEN [is |-> "exception"]
      ELSE ParkingPlaces(park.available, occupied(park.available, park.total),
                         park.aPRM, occupied(park.aPRM, park.tPRM), park.total)

\* STAR has two formats.
StarPlaces(park) == IF park.new THEN get_new_items(park) ELSE get_old_items(park)

SytralPlaces(park) == ParkingPlaces(park.available, park.occupied, park.aPRM, park.oPRM, Null)

\* Forseti: whether there are places, of the first car park that is near.
ForsetiPlaces(p, poi, d) ==
  LET near == SelectSeq(StationsOf(p, d), LAMBDA s : <<poi.coord, s.coord>> \in Near)
  IN  IF near = <<>> THEN NoPlaces
      ELSE [is |-> "availability", availability |-> near[1].availability]

process_data(p, poi, d) ==
  IF Class(p) = "forseti_car" THEN ForsetiPlaces(p, poi, d)
  ELSE LET s == StationsOf(p, d)
       IN  CASE poi.ref \notin DOMAIN s -> NoPlaces
             [] Class(p) = "divia" -> DiviaPlaces(s[poi.ref])
             [] Class(p) = "star" -> StarPlaces(s[poi.ref])
             [] OTHER -> SytralPlaces(s[poi.ref])

\* A failure of the service gives no information.
CarInformations(p, poi, d) == IF d.kind # "data" THEN NoPlaces ELSE process_data(p, poi, d)

\* The dummy: numbers from the ref, a station that is closed when it is odd.
DummyStands(poi) ==
  IF poi.ref = "" THEN NoPlaces ELSE Stands(poi.number, 2 * poi.number, IF poi.number % 2 = 1 THEN "closed" ELSE "open")

Information(p, poi, d) ==
  IF IsBss(p) THEN get_informations(p, poi, d) ELSE CarInformations(p, poi, d)

\* POIs for which a provider answers without asking anything.
AnswersAlone(p, poi) ==
  CASE Class(p) = "dummy" -> TRUE
    [] Class(p) = "forseti" -> poi.coord = ""
    [] Class(p) = "forseti_car" -> ~poi.amenity
    [] IsBss(p) -> FALSE
    [] OTHER -> poi.ref = ""

Alone(p, poi) ==
  CASE Class(p) = "dummy" -> DummyStands(poi)
    [] IsBss(p) -> Unavailable
    [] OTHER -> NoPlaces

-----------------------------------------------------------------------------
(* Caches and calls                                                        *)

\* Cached calls have the name of the provider in their key when it has one,
\* its address in the process otherwise; forseti asks about coordinates.
Key(w, p, poi) ==
  <<IF Class(p) \in {"atos", "jcdecaux", "cykleo"} THEN "all" ELSE Process[w], p,
    IF Class(p) = "forseti" THEN poi.coord ELSE "all">>
TokenKey(p) == <<"all", p, "token">>

Coords == {Pois[x].coord : x \in DOMAIN Pois}
Processes == {Process[w] : w \in Workers}
Keys == ({"all"} \cup Processes) \X (DOMAIN Args) \X ({"all", "token"} \cup Coords)

Here(w, p) == <<Process[w], p>>

LocalForEver(w, p) == Class(p) = "jcdecaux" /\ local[Here(w, p)].data.kind = "data"

\* jcdecaux keeps its numbers for _update_interval.
LocalFresh(w, p) ==
  /\ Class(p) = "jcdecaux"
  /\ local[Here(w, p)].data.kind = "data"
  /\ local[Here(w, p)].at + Interval >= now

\* The worker has d for the POI it looks at: the information is set and the
\* provider remembered, or an exception ends the block.
HandlePoi(r, p, d) ==
  LET x == r.pois[r.i]
      info == IF d.kind = "alone" THEN Alone(p, Pois[x]) ELSE Information(p, Pois[x], d)
  IN  IF info.is = "exception"
      THEN [r EXCEPT !.pc = "block", !.b = @ + 1]
      ELSE [r EXCEPT !.pc = "poi", !.i = @ + 1, !.used = @ \cup {p},
                     !.infos = [@ EXCEPT ![r.i] = [info |-> info, by |-> p, at |-> now,
                                                   of |-> IF d.kind = "data" THEN d.v ELSE 0]]]

Gives(w, p, d) == work' = [work EXCEPT ![w] = HandlePoi(work[w], p, d)]

Poi(w) == Pois[work[w].pois[work[w].i]]
Candidates(w) == Blocks[work[w].b].providers

\* The POI is not of the type of the manager, or nobody handles it.
Skip(w) ==
  /\ work[w].pc = "poi" /\ work[w].i <= Len(work[w].pois)
  /\ Poi(w).type # Blocks[work[w].b].kind \/ find_provider(Candidates(w), Poi(w)) = ""
  /\ work' = [work EXCEPT ![w].i = @ + 1]
  /\ UNCHANGED <<cache, breaker, local, version, replaced, epoch, revoked, now, served>>

\* A None among the providers: the error ends the block.
Broken(w) ==
  /\ work[w].pc = "poi" /\ work[w].i <= Len(work[w].pois)
  /\ Poi(w).type = Blocks[work[w].b].kind /\ find_provider(Candidates(w), Poi(w)) = "None"
  /\ work' = [work EXCEPT ![w].pc = "block", ![w].b = @ + 1]
  /\ UNCHANGED <<cache, breaker, local, version, replaced, epoch, revoked, now, served>>

\* Memorised numbers come first, for atos behind the breaker; the open
\* breaker fails a call; cykleo needs a token.
Visit(w) ==
  /\ work[w].pc = "poi" /\ work[w].i <= Len(work[w].pois)
  /\ Poi(w).type = Blocks[work[w].b].kind
  /\ \E p \in {find_provider(Candidates(w), Poi(w))} \ {"", "None"} :
       \E k \in {Key(w, p, Poi(w))}, b \in {breaker[Here(w, p)]} :
         CASE AnswersAlone(p, Poi(w)) -> Gives(w, p, [kind |-> "alone"]) /\ UNCHANGED <<breaker, local>>
           [] LocalFresh(w, p) -> Gives(w, p, local[Here(w, p)].data) /\ UNCHANGED <<breaker, local>>
           [] Class(p) = "atos" /\ ~MayCall(b, now) -> Gives(w, p, Failed) /\ UNCHANGED <<breaker, local>>
           [] Holds(cache, k) ->
                /\ Gives(w, p, cache[k].value)
                /\ breaker' = IF Class(p) = "atos" THEN [breaker EXCEPT ![Here(w, p)] = AfterSuccess(b)] ELSE breaker
                /\ local' = IF Class(p) = "jcdecaux"
                            THEN [local EXCEPT ![Here(w, p)] = [data |-> cache[k].value, at |-> now]] ELSE local
           [] ~MayCall(b, now) -> Gives(w, p, Failed) /\ UNCHANGED <<breaker, local>>
           [] OTHER ->
                /\ work' = [work EXCEPT ![w].by = p,
                      ![w].token = IF Class(p) = "cykleo" /\ Holds(cache, TokenKey(p)) THEN cache[TokenKey(p)].value.v ELSE Null,
                      ![w].pc = IF Class(p) = "cykleo" /\ ~Holds(cache, TokenKey(p)) THEN "auth" ELSE "call"]
                /\ UNCHANGED <<breaker, local>>
  /\ UNCHANGED <<cache, version, replaced, epoch, revoked, now, served>>

\* Only an exception of the call itself counts for the breaker; of atos,
\* everything is one.
Counts(p, o) == o = "timeout" \/ Class(p) = "atos"
AfterCall(p, b, o) ==
  CASE o = "ok" -> AfterSuccess(b)
    [] Counts(p, o) -> AfterFailure(b, now)
    [] OTHER -> AfterSuccess(b)

\* The token is kept for the next calls; an answer without token is not.
get_access_token(w) ==
  /\ work[w].pc = "auth"
  /\ \E p \in {work[w].by}, o \in {"ok", "no_token"} \cup Faults :
       /\ o = "no_token" => Faults # {}
       /\ breaker' = [breaker EXCEPT ![Here(w, p)] = AfterCall(p, @, o)]
       /\ CASE o = "ok" ->
                 /\ cache' = Store(cache, TokenKey(p), Token(epoch[p]), TokenTimeout)
                 /\ work' = [work EXCEPT ![w].pc = "call", ![w].token = epoch[p]]
            [] o = "no_token" ->
                 /\ cache' = Store(cache, TokenKey(p), Nothing, TokenTimeout)
                 /\ work' = [work EXCEPT ![w].pc = "call", ![w].token = Null]
            [] OTHER -> Gives(w, p, Failed) /\ UNCHANGED cache
  /\ UNCHANGED <<local, version, replaced, epoch, revoked, now, served>>

\* The answers of the services: a car park service whose error has a body in
\* json is an answer without any car park.
AnswersOf(w, p) ==
  LET refused == Class(p) = "cykleo" /\ work[w].token # epoch[p]
  IN  (IF refused THEN {"401"} ELSE {"ok"}) \cup Faults

ResultOf(p, o) ==
  CASE o = "ok" -> Numbers(version[p])
    [] o = "500" /\ ~IsBss(p) -> Numbers(0)
    [] o # "ok" /\ ~IsBss(p) -> Nothing
    [] OTHER -> Failed

\* The answer is kept, unless it is a failure.
call_webservice(w) ==
  /\ work[w].pc = "call"
  /\ \E p \in {work[w].by} : \E o \in AnswersOf(w, p) : \E d \in {ResultOf(p, o)} :
       /\ breaker' = [breaker EXCEPT ![Here(w, p)] = AfterCall(p, @, o)]
       /\ cache' = IF d.kind = "error" THEN cache ELSE Store(cache, Key(w, p, Poi(w)), d, RedisTimeout)
       /\ local' = IF Class(p) = "jcdecaux" /\ d.kind = "data"
                   THEN [local EXCEPT ![Here(w, p)] = [data |-> d, at |-> now]] ELSE local
       /\ work' = [work EXCEPT ![w] = HandlePoi([work[w] EXCEPT !.refusedAt = IF o = "401" /\ work[w].token # Null THEN now ELSE @], p, d)]
  /\ UNCHANGED <<version, replaced, epoch, revoked, now, served>>

-----------------------------------------------------------------------------
(* A response                                                              *)

Idle == [pc |-> "idle"]

\* A response is ready to be completed.
Begin(w) ==
  /\ work[w].pc \in {"idle", "done"} /\ served < MaxRequests
  /\ \E q \in Queries :
       work' = [work EXCEPT ![w] =
         [pc |-> "block", b |-> 1, i |-> 1, pois |-> q.pois, wanted |-> q.wanted, feeds |-> <<>>, hasFeeds |-> q.feeds,
          used |-> {}, by |-> "", token |-> Null, refusedAt |-> Never,
          infos |-> [j \in 1 .. Len(q.pois) |-> [info |-> [is |-> "unset"], by |-> "", at |-> now, of |-> 0]]]]
  /\ served' = served + 1
  /\ UNCHANGED <<cache, breaker, local, version, replaced, epoch, revoked, now>>

\* The managers one after the other: the one of the configuration and the one
\* of the instance, for the stations then for the car parks, if asked for and
\* if they have providers.
ManageParkingPlaces(w) ==
  /\ work[w].pc = "block"
  /\ work' = [work EXCEPT ![w] =
       IF work[w].b > Len(Blocks) THEN [@ EXCEPT !.pc = "done"]
       ELSE IF Blocks[work[w].b].kind \in work[w].wanted /\ Blocks[work[w].b].providers # <<>>
            THEN [@ EXCEPT !.pc = "poi", !.i = 1, !.used = {}]
            ELSE [@ EXCEPT !.b = work[w].b + 1]]
  /\ UNCHANGED <<cache, breaker, local, version, replaced, epoch, revoked, now, served>>

\* The publishers of the providers of the block, for a response that has the
\* list.
add_feed_publisher(r) ==
  IF r.hasFeeds
  THEN r.feeds \o SelectSeq([j \in 1 .. Cardinality(r.used) |-> Args[SetToSeq(r.used)[j]].feed], LAMBDA f : f # "")
  ELSE r.feeds

EndOfBlock(w) ==
  /\ work[w].pc = "poi" /\ work[w].i > Len(work[w].pois)
  /\ work' = [work EXCEPT ![w].pc = "block", ![w].b = @ + 1, ![w].feeds = add_feed_publisher(work[w])]
  /\ UNCHANGED <<cache, breaker, local, version, replaced, epoch, revoked, now, served>>

\* The services.
Publish(p) ==
  /\ version[p] < MaxVersion
  /\ version' = [version EXCEPT ![p] = @ + 1]
  /\ replaced' = [replaced EXCEPT ![p][version[p]] = now]
  /\ UNCHANGED <<work, cache, breaker, local, epoch, revoked, now, served>>

Revoke(p) ==
  /\ Class(p) = "cykleo" /\ epoch[p] < MaxVersion
  /\ epoch' = [epoch EXCEPT ![p] = @ + 1]
  /\ revoked' = [revoked EXCEPT ![p] = now]
  /\ UNCHANGED <<work, cache, breaker, local, version, replaced, now, served>>

Tick ==
  /\ now < MaxNow
  /\ \A w \in Workers : work[w].pc \notin {"auth", "call"}
  /\ now' = now + 1 /\ cache' = Aged(cache)
  /\ UNCHANGED <<work, breaker, local, version, replaced, epoch, revoked, served>>

Init ==
  /\ work = [w \in Workers |-> Idle]
  /\ cache = Empty(Keys)
  /\ breaker = [x \in Processes \X (DOMAIN Args) |-> Closed]
  /\ local = [x \in Processes \X (DOMAIN Args) |-> [data |-> Nothing, at |-> Never]]
  /\ version = [p \in DOMAIN Args |-> 1]
  /\ replaced = [p \in DOMAIN Args |-> [v \in 0 .. MaxVersion |-> Never]]
  /\ epoch = [p \in DOMAIN Args |-> 1]
  /\ revoked = [p \in DOMAIN Args |-> Never]
  /\ now = 0 /\ served = 0

Step(w) ==
  \/ Skip(w) \/ Broken(w) \/ Visit(w) \/ get_access_token(w) \/ call_webservice(w)
  \/ ManageParkingPlaces(w) \/ EndOfBlock(w)

Next ==
  \/ \E w \in Workers : Begin(w) \/ Step(w)
  \/ \E p \in DOMAIN Args : Publish(p) \/ Revoke(p)
  \/ Tick

Spec == Init /\ [][Next]_vars

-----------------------------------------------------------------------------
(* Properties                                                              *)

\* Requests are at a step of theirs, what is cached is data with time left.
TypeOK ==
  /\ \A w \in Workers : work[w].pc \in {"idle", "block", "poi", "auth", "call", "done"}
  /\ \A k \in Keys : cache[k].kind = "entry" => cache[k].value.kind = "data" /\ cache[k].left > 0
  /\ now \in 0 .. MaxNow

\* Numbers are shown at most so long after they were replaced: as long as
\* they are cached, and for jcdecaux kept on top of that.
Stale(p) == RedisTimeout + (IF Class(p) = "jcdecaux" THEN Interval ELSE 0)

\* The places shown are those of a moment within the lifetimes of the caches
\* they went through (memoize of _call_webservice, _update_interval), however
\* processes fill the shared cache and calls fail.
ShownIsRecent ==
  \A w \in Workers : "infos" \in DOMAIN work[w] =>
    \A i \in DOMAIN work[w].infos :
      LET x == work[w].infos[i]
      IN  x.of # 0 /\ x.of # version[x.by] => replaced[x.by][x.of] >= x.at - Stale(x.by)

\* Whoever fails, every POI that some provider handles is completed, with
\* unavailable at worst: the failure of a service is contained by
\* get_informations, and does not end the block of the others.
EveryPoiIsCompleted ==
  \A w \in Workers : work[w].pc = "done" =>
    \A i \in DOMAIN work[w].pois :
      (\E b \in DOMAIN Blocks :
         /\ Blocks[b].kind = Pois[work[w].pois[i]].type /\ Blocks[b].kind \in work[w].wanted
         /\ find_provider(Blocks[b].providers, Pois[work[w].pois[i]]) # "")
      => work[w].infos[i].info.is # "unset"

\* Numbers agree: the total of a station or of a car park is the sum of its
\* places, none is negative, and only a station that is open has any.
NumbersAgree ==
  \A w \in Workers : "infos" \in DOMAIN work[w] =>
    \A i \in DOMAIN work[w].infos :
      LET x == work[w].infos[i].info
      IN  /\ x.is = "stands" => /\ x.total = x.places + x.bikes /\ x.places >= 0 /\ x.bikes >= 0
                                /\ work[w].infos[i].of # 0 /\ x.status # "open" => x.total = 0
          /\ x.is = "places" => /\ Or0(x.available) + Or0(x.occupied) <= x.total
                                /\ x.occupied >= Null

\* A token that the service no longer takes is used for at most as long as
\* get_access_token is memoized.
TokenIsRenewed ==
  \A w \in Workers : "refusedAt" \in DOMAIN work[w] /\ work[w].refusedAt # Never =>
    \E p \in DOMAIN Args : Class(p) = "cykleo" /\ work[w].refusedAt - revoked[p] <= TokenTimeout

\* The publishers of a completed response are those of the providers that
\* gave it something, once for each block.
FeedsAreOfProvidersUsed ==
  \A w \in Workers : work[w].pc = "done" =>
    /\ \A f \in Range(work[w].feeds) : \E p \in DOMAIN Args :
         /\ Args[p].feed = f
         /\ \E i \in DOMAIN work[w].pois, b \in DOMAIN Blocks :
              find_provider(Blocks[b].providers, Pois[work[w].pois[i]]) = p
    /\ Len(work[w].feeds) <= Len(Blocks) * Cardinality(DOMAIN Args)
    /\ \A i \in DOMAIN work[w].infos :
         LET x == work[w].infos[i]
         IN  work[w].hasFeeds /\ x.by # "" /\ Args[x.by].feed # "" =>
               Cardinality({j \in DOMAIN work[w].feeds : work[w].feeds[j] = Args[x.by].feed}) = 1

=============================================================================
