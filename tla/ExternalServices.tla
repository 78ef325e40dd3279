-------------------------- MODULE ExternalServices --------------------------
(***************************************************************************)
(* Realtime information that jormungandr adds to its responses from other  *)
(* services: the state of elevators and escalators (equipments/), and from *)
(* forseti the positions and the occupancy of vehicles, free floating      *)
(* vehicles and obstacles (external_services/).  Calls go through a cache  *)
(* and a circuit breaker; positions are asked for in greenlets.            *)
(* No time passes while a call is on its way.                              *)
(***************************************************************************)
EXTENDS Integers, Sequences, FiniteSets, SequencesExt, CircuitBreaker, MemoCache

CONSTANTS
  Providers,   \* the equipment providers, in order: [id, types]
  Published,   \* service |-> version |-> what it publishes
  Requests,    \* the responses to complete
  PoolSize,    \* realtime_pool_size
  Faults, MaxVersion, MaxNow, MaxRequests

VARIABLES
  req,       \* the response that is completed
  cache,     \* the shared cache
  breaker,   \* equipment provider or kind of forseti service |-> its circuit breaker
  version,   \* service |-> what it publishes now
  replaced,  \* service |-> version |-> when it was replaced
  now, served

vars == <<req, cache, breaker, version, replaced, now, served>>

ServiceIds == DOMAIN Published
NoData == [kind |-> "none"]
Data(v) == [kind |-> "data", v |-> v]
Never == -1000

-----------------------------------------------------------------------------
(* Equipments                                                              *)

\* A detail about a code: what the service says, or unknown.
Detail(code, d, p) ==
  [code |-> code, by |-> p, of |-> d.v, at |-> now,
   status |-> IF code.value \in DOMAIN Published[p][d.v] THEN Published[p][d.v][code.value] ELSE "unknown"]

Types(p) == (CHOOSE x \in Range(Providers) : x.id = p).types

\* The details of a stop point: its codes that the service knows.
process_for_journeys(p, d, sp) ==
  LET known == SelectSeq(sp.codes, LAMBDA c : c.type \in Types(p) /\ c.value \in DOMAIN Published[p][d.v])
  IN  [sp EXCEPT !.details = @ \o [k \in DOMAIN known |-> Detail(known[k], d, p)]]

\* The details of a stop area: each code of its stop points once, known or not.
process_for_equipment_reports(p, d, sa) ==
  LET codes == SetToSeq({c \in Range(sa.codes) : c.type \in Types(p)})
  IN  [sa EXCEPT !.details = @ \o [k \in DOMAIN codes |-> Detail(codes[k], d, p)]]

\* The places of a response are read from a generator: the first provider
\* that has data exhausts it.
ProcessAll(r, p, d) ==
  [r EXCEPT !.items = [k \in DOMAIN @ |-> IF r.read THEN @[k]
                                         ELSE IF r.api = "journeys" THEN process_for_journeys(p, d, @[k])
                                         ELSE process_for_equipment_reports(p, d, @[k])],
            !.read = TRUE, !.used = @ \cup {p}]

AfterProvider(r, p, d) ==
  LET next == [r EXCEPT !.i = @ + 1, !.pc = "provider"]
  IN  IF d.kind = "data" THEN ProcessAll(next, p, d) ELSE next

-----------------------------------------------------------------------------
(* Calls                                                                   *)

\* A call that fails gives None, and so does an answer in error.
Outcomes == {"ok"} \cup Faults
AfterCall(b, o) == IF o = "timeout" THEN AfterFailure(b, now) ELSE AfterSuccess(b)
response_marshaller(s, o) == IF o = "ok" THEN Data(version[s]) ELSE NoData

\* The call of a memoized function with its outcome: None is not kept.
CallService(s, key, o, d) ==
  /\ breaker' = [breaker EXCEPT ![s] = AfterCall(@, o)]
  /\ cache' = Store(cache, key, d, RedisTimeout)

manage_equipments ==
  /\ req.pc = "provider" /\ req.i <= Len(Providers)
  /\ LET p == Providers[req.i].id
     IN  CASE Holds(cache, <<p, "all">>) ->
                req' = AfterProvider(req, p, cache[<<p, "all">>].value) /\ UNCHANGED <<breaker, cache>>
           [] ~Holds(cache, <<p, "all">>) /\ ~MayCall(breaker[p], now) ->
                req' = AfterProvider(req, p, NoData) /\ UNCHANGED <<breaker, cache>>
           [] OTHER -> \E o \in Outcomes : \E d \in {response_marshaller(p, o)} :
                CallService(p, <<p, "all">>, o, d) /\ req' = AfterProvider(req, p, d)
  /\ UNCHANGED <<version, replaced, now, served>>

-----------------------------------------------------------------------------
(* Vehicles                                                                *)

\* The codes that forseti knows: those of type source.
get_codes(codes) == {c.value : c \in {x \in Range(codes) : x.type = "source"}}

\* What is asked about a vehicle, at a stop for its occupancy: nothing when
\* either has no code.
ArgsOf(v) ==
  IF get_codes(v.codes) = {} \/ (v.stop # <<>> /\ get_codes(v.stop) = {}) THEN {}
  ELSE get_codes(v.codes) \cup get_codes(v.stop)

\* What forseti answers about codes: a vehicle at most.
PositionOf(d, codes) ==
  LET found == {c \in codes : c \in DOMAIN Published["forseti"][d.v]}
  IN  IF found = {} THEN "" ELSE Published["forseti"][d.v][CHOOSE c \in found : TRUE]

\* The position is set if there is one.
vehicle_journey_position(r, k, d) ==
  IF d.kind = "none" \/ PositionOf(d, ArgsOf(r.items[k])) = "" THEN r
  ELSE [r EXCEPT !.items[k].position = PositionOf(d, ArgsOf(r.items[k])), !.items[k].of = d.v, !.items[k].at = now]

\* The occupancy of a stop time: that of the first vehicle that forseti gives.
FirstOccupancy(r, k, d) ==
  LET found == IF d.kind = "none" THEN "" ELSE PositionOf(d, ArgsOf(r.items[k]))
  IN  IF found = "" THEN r ELSE [r EXCEPT !.items[k].position = found, !.items[k].of = d.v, !.items[k].at = now]

Apply(r, k, d) == IF r.api = "vehicle_positions" THEN vehicle_journey_position(r, k, d) ELSE FirstOccupancy(r, k, d)

\* An empty list of positions is kept in the cache, no occupancy is not.
AnswerAbout(d, codes) ==
  IF req.api = "vehicle_occupancies" /\ d.kind = "data" /\ PositionOf(d, codes) = "" THEN NoData ELSE d

Running == {k \in DOMAIN req.items : req.items[k].pc = "calling"}

\* A greenlet starts: cached, refused by the breaker, or calling.  Vehicles
\* without code are not asked about.
StartVehicle(k) ==
  /\ req.pc = "vehicles" /\ req.items[k].pc = "waiting" /\ Cardinality(Running) < PoolSize
  /\ LET key == <<req.api, ArgsOf(req.items[k])>>
     IN  CASE ArgsOf(req.items[k]) = {} -> req' = [req EXCEPT !.items[k].pc = "over"]
           [] ArgsOf(req.items[k]) # {} /\ Holds(cache, key) ->
                req' = [Apply(req, k, cache[key].value) EXCEPT !.items[k].pc = "over"]
           [] OTHER -> req' = [req EXCEPT !.items[k].pc = IF MayCall(breaker[req.api], now) THEN "calling" ELSE "over"]
  /\ UNCHANGED <<cache, breaker, version, replaced, now, served>>

\* The answer goes to the first vehicle.
UpdateFirst(k) ==
  /\ req.pc = "vehicles" /\ req.items[k].pc = "calling"
  /\ \E o \in Outcomes : \E d \in {response_marshaller("forseti", o)} :
       /\ CallService(req.api, <<req.api, ArgsOf(req.items[k])>>, o, d)
       /\ \E x \in {Apply(req, k, d).items[k]} :
            req' = [req EXCEPT !.items[1].position = x.position, !.items[1].of = x.of, !.items[1].at = x.at,
                               !.items[k].pc = "over"]
  /\ UNCHANGED <<version, replaced, now, served>>

\* Answers are applied as they come.
update_response(k) ==
  /\ req.pc = "vehicles" /\ req.items[k].pc = "calling"
  /\ \E o \in Outcomes : \E d \in {AnswerAbout(response_marshaller("forseti", o), ArgsOf(req.items[k]))} :
       /\ CallService(req.api, <<req.api, ArgsOf(req.items[k])>>, o, d)
       /\ req' = [Apply(req, k, d) EXCEPT !.items[k].pc = "over"]
  /\ UNCHANGED <<version, replaced, now, served>>

\* Free floating vehicles and obstacles are not cached; the pages are those
\* of the service, or the whole answer as one page.
build_pagination(n, count, given) ==
  IF given # <<>> THEN given[1] ELSE [on |-> n, per |-> count, total |-> n]

get_response ==
  /\ req.pc = "list"
  /\ \E o \in Outcomes :
       LET open == ~MayCall(breaker[req.api], now)
           d == IF open THEN NoData ELSE response_marshaller("forseti", o)
           n == Cardinality(DOMAIN Published["forseti"][d.v])
       IN  /\ breaker' = IF open THEN breaker ELSE [breaker EXCEPT ![req.api] = AfterCall(@, o)]
           /\ req' = [req EXCEPT !.pc = "done",
                        !.page = IF d.kind = "none" THEN <<>> ELSE <<build_pagination(n, req.count, req.given)>>]
  /\ UNCHANGED <<cache, version, replaced, now, served>>

-----------------------------------------------------------------------------

FirstStep(api) ==
  CASE api \in {"journeys", "equipment_reports"} -> "provider"
    [] api \in {"vehicle_positions", "vehicle_occupancies"} -> "vehicles"
    [] OTHER -> "list"

Begin ==
  /\ req.pc \in {"idle", "done"} /\ served < MaxRequests
  /\ \E r \in Requests :
       req' = [pc |-> FirstStep(r.api), api |-> r.api, items |-> r.items, i |-> 1, read |-> FALSE, used |-> {},
               count |-> r.count, given |-> r.given, page |-> <<>>]
  /\ served' = served + 1
  /\ UNCHANGED <<cache, breaker, version, replaced, now>>

End ==
  /\ \/ req.pc = "provider" /\ req.i > Len(Providers)
     \/ req.pc = "vehicles" /\ \A k \in DOMAIN req.items : req.items[k].pc = "over"
  /\ req' = [req EXCEPT !.pc = "done"]
  /\ UNCHANGED <<cache, breaker, version, replaced, now, served>>

Publish(s) ==
  /\ version[s] < MaxVersion
  /\ version' = [version EXCEPT ![s] = @ + 1]
  /\ replaced' = [replaced EXCEPT ![s][version[s]] = now]
  /\ UNCHANGED <<req, cache, breaker, now, served>>

Tick ==
  /\ now < MaxNow /\ (req.pc = "vehicles" => Running = {})
  /\ now' = now + 1 /\ cache' = Aged(cache)
  /\ UNCHANGED <<req, breaker, version, replaced, served>>

VehicleKeys == UNION {{<<r.api, ArgsOf(r.items[k])>> : k \in DOMAIN r.items} : r \in {x \in Requests : FirstStep(x.api) = "vehicles"}}

Init ==
  /\ req = [pc |-> "idle"]
  /\ cache = Empty({<<Providers[i].id, "all">> : i \in DOMAIN Providers} \cup VehicleKeys)
  /\ breaker = [s \in ServiceIds \cup {r.api : r \in Requests} |-> Closed]
  /\ version = [s \in ServiceIds |-> 1]
  /\ replaced = [s \in ServiceIds |-> [v \in 1 .. MaxVersion |-> Never]]
  /\ now = 0 /\ served = 0

Work ==
  \/ manage_equipments \/ get_response \/ End
  \/ req.pc = "vehicles" /\ \E k \in DOMAIN req.items : StartVehicle(k) \/ update_response(k)

Next == Begin \/ Work \/ (\E s \in ServiceIds : Publish(s)) \/ Tick

Spec == Init /\ [][Next]_vars

-----------------------------------------------------------------------------
(* Properties                                                              *)

Done == req.pc = "done"
IsReport == Done /\ req.api = "equipment_reports"

\* The response is at a step of its own, at most PoolSize calls are on their
\* way.
TypeOK ==
  /\ req.pc \in {"idle", "provider", "vehicles", "list", "done"}
  /\ req.pc = "vehicles" => Cardinality(Running) <= PoolSize

\* Once a provider has answered, a stop area has one detail for each of its
\* codes, however many of its stop points have it and whether the service
\* knows it or not.
ReportsAreComplete ==
  IsReport => \A k \in DOMAIN req.items : \A p \in req.used :
    req.read /\ Len(Providers) = 1 =>
      \A c \in Range(req.items[k].codes) : c.type \in Types(p) =>
        Cardinality({n \in DOMAIN req.items[k].details : req.items[k].details[n].code = c}) = 1

\* Stop points get details of their own codes only, of a version that was
\* replaced less than RedisTimeout before.
DetailsAreRecent ==
  Done /\ req.api \in {"journeys", "equipment_reports"} =>
    \A k \in DOMAIN req.items : \A n \in DOMAIN req.items[k].details :
      LET x == req.items[k].details[n]
      IN  /\ x.code \in Range(req.items[k].codes) /\ x.code.type \in Types(x.by)
          /\ x.of # version[x.by] => replaced[x.by][x.of] > x.at - RedisTimeout

\* A vehicle gets the position of its own codes, as published not longer ago
\* than positions are cached, in whatever order the answers come.
PositionsAreTheirOwn ==
  Done /\ FirstStep(req.api) = "vehicles" =>
    \A k \in DOMAIN req.items :
      LET x == req.items[k]
      IN  x.position # "" =>
            /\ \E c \in ArgsOf(x) : c \in DOMAIN Published["forseti"][x.of] /\ Published["forseti"][x.of][c] = x.position
            /\ x.of # version["forseti"] => replaced["forseti"][x.of] > x.at - RedisTimeout

=============================================================================
