-------------------------- MODULE RealtimeSchedule --------------------------
(***************************************************************************)
(* Departures of kraken mixed with those of external realtime systems      *)
(* (schedule.py and realtime_schedule/): for every route point of kraken's *)
(* answer whose line has a realtime system, a greenlet of a bounded pool   *)
(* asks the system through a cache, a rate limiter and a circuit breaker;  *)
(* the answers are merged in the order they come, and a system that fails  *)
(* leaves the base schedule.  A connector is the operator that turns a     *)
(* response into passages.                                                 *)
(***************************************************************************)
EXTENDS Integers, FiniteSets, Sequences, SequencesExt

CONSTANTS
  RoutePoints,
  SystemOf,       \* the realtime system of the line of a route point, or "no_proxy"
  LineOf, StopOf,
  BaseTimes,      \* route point |-> the times of its base schedule
  Responses,      \* what a system can answer with
  PoolSize,       \* realtime_pool_size
  FailMax,        \* failures in a row that open a breaker
  Limited,        \* the systems whose rate limiter may refuse
  Count,          \* departures in an answer
  ItemsPerSchedule,
  CodesOf,        \* route point |-> the objects that have a code for its system
  Froms, Duration, DayEnd, Step,
  MaxRequests

Nothing == [kind |-> "none"]                \* None: keep the base schedule
Raised  == [kind |-> "proxy_error"]         \* RealtimeProxyError
Crashed == [kind |-> "exception"]           \* any other exception
Listed(deps) == [kind |-> "list", deps |-> deps]
NoResponse == [kind |-> "no_response"]
Task(state) == [kind |-> state]

VARIABLES
  api,        \* "next_departures", "departure_boards" or "terminus_schedules"
  from,       \* from_datetime of the request
  phase,      \* "kraken", "asking", "merged" or "crashed"
  task,       \* route point |-> "no_task", "waiting", "running", "merged" or the result of its future
  board,      \* the departures of the answer: records of a route point, a time and a source
  total,      \* pagination.totalResult
  breaker,    \* system |-> failures in a row
  cache,      \* the responses that memoize holds, by key
  served      \* number of requests
vars == <<api, from, phase, task, board, total, breaker, cache, served>>

Systems == {"timeo", "cleverage", "siri", "siri_lite", "synthese", "sytral"}
Keys == Systems \X (RoutePoints \cup Range(StopOf)) \X (0 .. DayEnd + Duration)
-----------------------------------------------------------------------------
\* floor_datetime: the greatest multiple of the step since midnight that is not later.
floor_datetime(dt, step) == (dt \div step) * step

\* The key under which memoize keeps a call: the url or the body of the request.  Timeo
\* asks for a stop, a line and a route, the others for a stop.
CacheKey(sys, rp, dt) ==
  <<sys, IF sys = "timeo" THEN rp ELSE StopOf[rp],
    CASE sys \in {"timeo", "siri"} -> floor_datetime(dt, Step)
      [] sys = "synthese" -> dt
      [] OTHER -> 0>>

\* The codes without which a connector makes no request (_make_url, _make_params); Siri
\* asks even for a stop without code.
TimeoCodes == {"stop", "line", "route"}
CleverageCodes == {"stop"}
SiriLiteCodes == {"stop", "line"}
SyntheseCodes == {"stop"}
SytralCodes == {"stop"}
Codes(sys) ==
  CASE sys = "timeo" -> TimeoCodes [] sys = "cleverage" -> CleverageCodes [] sys = "siri" -> {}
    [] sys = "siri_lite" -> SiriLiteCodes [] sys = "synthese" -> SyntheseCodes [] sys = "sytral" -> SytralCodes
HasCodes(rp) == Codes(SystemOf[rp]) \subseteq CodesOf[rp]

Departures(resp, P(_)) == SelectSeq(resp.deps, P)
HttpError(resp) == resp.status >= 400        \* a requests.Response of that status is false
-----------------------------------------------------------------------------
(* The connectors: what _get_next_passage_for_route_point makes of a response. *)

\* Timeo: no call for tomorrow; without a response, when the rate limiter refused,
\* the status code of None is an exception.
Timeo(rp, resp) ==
  IF from >= DayEnd THEN Nothing
  ELSE IF resp = NoResponse THEN Crashed
  ELSE IF resp.status # 200 \/ resp.body \in {"error", "invalid"} THEN Raised
  ELSE LET rt == Departures(resp, LAMBDA d : d.rt)
       IN  IF rt = <<>> /\ resp.deps # <<>> THEN Nothing ELSE Listed(rt)

\* Cleverage: the first line with the code of the line; a line without passage is None.
Cleverage(rp, resp) ==
  IF HttpError(resp) THEN Nothing
  ELSE IF resp.status # 200 THEN Raised
  ELSE IF resp.body # "data" THEN Crashed
  ELSE LET own == Departures(resp, LAMBDA d : LineOf[d.rp] = LineOf[rp])
       IN  IF own = <<>> THEN Nothing ELSE Listed(own)

\* Siri: a delivery whose status is false is an error unless it has visits, or says
\* that there is no information on the stop.
Siri(rp, resp) ==
  IF resp.status # 200 \/ resp.body = "invalid" THEN Raised
  ELSE IF resp.body = "error" /\ resp.deps = <<>> THEN Raised
  ELSE Listed(Departures(resp, LAMBDA d : d.rp = rp))

\* SiriLite: the visits of the line, without those of an unknown destination, on the
\* routes that lead from the stop to it.
SiriLite(rp, resp) ==
  IF resp.status # 200 THEN Raised
  ELSE IF resp.body # "data" THEN Crashed
  ELSE Listed(Departures(resp, LAMBDA d : LineOf[d.rp] = LineOf[rp] /\ d.toDest /\ d.rp = rp))

\* Synthese: the passages of the route, or those of the line when it has one route at
\* the stop.
Synthese(rp, resp) ==
  LET own == Departures(resp, LAMBDA d : d.rp = rp)
      ofLine == Departures(resp, LAMBDA d : LineOf[d.rp] = LineOf[rp])
      routes == {r \in RoutePoints : LineOf[r] = LineOf[rp] /\ StopOf[r] = StopOf[rp]}
  IN  IF HttpError(resp) THEN Nothing
      ELSE IF resp.status # 200 THEN Raised
      ELSE IF resp.body # "data" THEN Crashed
      ELSE IF own # <<>> THEN Listed(own)
      ELSE IF Cardinality(routes) = 1 /\ ofLine # <<>> THEN Listed(ofLine)
      ELSE Nothing

\* Sytral: the departures of the line's codes.
Sytral(rp, resp) ==
  IF resp.status # 200 THEN Raised
  ELSE IF resp.body # "data" THEN Crashed
  ELSE Listed(Departures(resp, LAMBDA d : LineOf[d.rp] = LineOf[rp]))

GetPassages(sys, rp, resp) ==
  CASE sys = "timeo" -> Timeo(rp, resp)
    [] sys = "cleverage" -> Cleverage(rp, resp)
    [] sys = "siri" -> Siri(rp, resp)
    [] sys = "siri_lite" -> SiriLite(rp, resp)
    [] sys = "synthese" -> Synthese(rp, resp)
    [] sys = "sytral" -> Sytral(rp, resp)

\* _is_valid_direction
ValidDirection(sys, dep, groupByDest) ==
  (sys \in {"timeo", "sytral"} /\ groupByDest) => dep.toDest
-----------------------------------------------------------------------------

\* _filter_passages: the passages of the window, at most the items per schedule; a list that had passages
\* and has none left is None, to keep the base schedule.
FilterPassages(passages) ==
  IF passages.kind # "list" \/ passages.deps = <<>> THEN passages
  ELSE LET kept == SelectSeq(passages.deps, LAMBDA d : from <= d.time /\ d.time <= from + Duration)
       IN  IF kept = <<>> THEN Nothing
           ELSE Listed(SubSeq(kept, 1, IF Len(kept) > ItemsPerSchedule THEN ItemsPerSchedule ELSE Len(kept)))

\* next_passage_for_route_point turns the errors of the proxies into None, and
\* _get_next_realtime_passages the other exceptions.
Caught(passages) == IF passages.kind \in {"proxy_error", "exception"} THEN Nothing ELSE passages

Result(rp, resp) == Caught(FilterPassages(GetPassages(SystemOf[rp], rp, resp)))
-----------------------------------------------------------------------------
HasSystem(rp) == SystemOf[rp] # "no_proxy"
FirstTime(rp) == IF BaseTimes[rp] = <<>> THEN 0 ELSE BaseTimes[rp][1]

Init ==
  /\ api = "next_departures" /\ from = 0 /\ phase = "merged"
  /\ task = [rp \in RoutePoints |-> Task("no_task")] /\ board = {} /\ total = 0
  /\ breaker = [s \in Systems |-> 0] /\ cache = <<>>
  /\ served = 0

\* Kraken answers with the base schedule (__stop_times): the greenlets of the route
\* points that have a system wait for a place in the pool.
AskKraken(a, f) ==
  /\ phase = "merged" /\ served < MaxRequests
  /\ api' = a /\ from' = f /\ phase' = "asking" /\ served' = served + 1
  /\ board' = UNION {{[rp |-> rp, time |-> BaseTimes[rp][i], rt |-> FALSE] : i \in DOMAIN BaseTimes[rp]}
                       : rp \in RoutePoints}
  /\ total' = Cardinality(board') + 1          \* and a page more
  /\ task' = [rp \in RoutePoints |-> Task(IF HasSystem(rp) THEN "waiting" ELSE "no_task")]
  /\ UNCHANGED <<breaker, cache>>

Running == {rp \in RoutePoints : task[rp].kind = "running"}

\* pool.spawn blocks while the pool is full.
Spawn(rp) ==
  /\ phase = "asking" /\ task[rp].kind = "waiting"
  /\ Cardinality(Running) < PoolSize
  /\ task' = [task EXCEPT ![rp] = Task("running")]
  /\ UNCHANGED <<api, from, phase, board, total, breaker, cache, served>>

\* No code of the object for the system: no call.
MissingCode(rp) ==
  /\ task[rp].kind = "running" /\ ~HasCodes(rp)
  /\ task' = [task EXCEPT ![rp] = Nothing]
  /\ UNCHANGED <<api, from, phase, board, total, breaker, cache, served>>

\* The call of a connector: memoize answers with what it holds, ...
FromCache(rp) ==
  LET key == CacheKey(SystemOf[rp], rp, from) IN
  /\ task[rp].kind = "running" /\ HasCodes(rp) /\ key \in DOMAIN cache
  /\ task' = [task EXCEPT ![rp] = Result(rp, cache[key])]
  /\ UNCHANGED <<api, from, phase, board, total, breaker, cache, served>>

NotCached(rp) ==
  task[rp].kind = "running" /\ HasCodes(rp) /\ CacheKey(SystemOf[rp], rp, from) \notin DOMAIN cache

\* ... the rate limiter refuses (None for Timeo, an error for Synthese), ...
RateLimited(rp) ==
  /\ NotCached(rp) /\ SystemOf[rp] \in Limited
  /\ task' = [task EXCEPT ![rp] =
               IF SystemOf[rp] = "timeo" THEN Result(rp, NoResponse) ELSE Caught(Raised)]
  /\ UNCHANGED <<api, from, phase, board, total, breaker, cache, served>>

\* ... the breaker is open, the call times out or raises, ...
CallFails(rp) ==
  /\ NotCached(rp)
  /\ LET sys == SystemOf[rp] IN
       breaker' = [breaker EXCEPT ![sys] = IF @ >= FailMax THEN @ ELSE @ + 1]
  /\ task' = [task EXCEPT ![rp] = Caught(Raised)]
  /\ UNCHANGED <<api, from, phase, board, total, cache, served>>

\* ... or a response comes, whatever its status, and is kept.
CallAnswers(rp, resp) ==
  /\ NotCached(rp)
  /\ breaker[SystemOf[rp]] < FailMax
  /\ breaker' = [breaker EXCEPT ![SystemOf[rp]] = 0]
  /\ LET key == CacheKey(SystemOf[rp], rp, from)
     IN  cache' = [k \in (DOMAIN cache) \cup {key} |-> IF k = key THEN resp ELSE cache[k]]
  /\ task' = [task EXCEPT ![rp] = Result(rp, resp)]
  /\ UNCHANGED <<api, from, phase, board, total, served>>

\* The reset timeout of a breaker: the next call is let through.
BreakerHalfOpens(sys) ==
  /\ breaker[sys] >= FailMax
  /\ breaker' = [breaker EXCEPT ![sys] = FailMax - 1]
  /\ UNCHANGED <<api, from, phase, task, board, total, cache, served>>

CacheExpires(key) ==
  /\ key \in DOMAIN cache /\ phase = "merged"
  /\ cache' = [k \in (DOMAIN cache) \ {key} |-> cache[k]]
  /\ UNCHANGED <<api, from, phase, task, board, total, breaker, served>>
-----------------------------------------------------------------------------
\* _update_passages and _update_stop_schedule put the realtime passages in the place of
\* the base ones; an empty list before the first departure of the day keeps the base
\* schedule of a stop schedule.
Realtime(rp, res, groupByDest) ==
  {[rp |-> rp, time |-> d.time, rt |-> TRUE] :
     d \in {e \in Range(res.deps) : ValidDirection(SystemOf[rp], e, groupByDest)}}

\* A failed system empties the schedule.
ReplacesAlways(rp, res) == TRUE

Replaces(rp, res) ==
  /\ res.kind = "list"
  /\ (api # "next_departures" /\ res.deps = <<>>) => from >= FirstTime(rp)

Updated(rp, res) ==
  IF Replaces(rp, res)
  THEN {d \in board : d.rp # rp} \cup
       (IF res.kind = "list" THEN Realtime(rp, res, api = "terminus_schedules") ELSE {})
  ELSE board

IsResult(t) == t.kind \in {"none", "proxy_error", "exception", "list"}

\* gevent.iwait: the futures in the order they end; an exception of a future ends the request.
Merge(rp) ==
  /\ phase = "asking" /\ IsResult(task[rp])
  /\ IF task[rp].kind \in {"proxy_error", "exception"}
     THEN phase' = "crashed" /\ UNCHANGED board
     ELSE phase' = phase /\ board' = Updated(rp, task[rp])
  /\ task' = [task EXCEPT ![rp] = [kind |-> "merged", of |-> @.kind]]
  /\ UNCHANGED <<api, from, total, breaker, cache, served>>

\* The sort by departure keeps the first count of next_departures, ties in any order.
Truncations(S) ==
  IF Cardinality(S) <= Count THEN {S}
  ELSE {T \in SUBSET S : Cardinality(T) = Count /\ \A x \in T, y \in S \ T : x.time <= y.time}

Finish ==
  /\ phase = "asking"
  /\ \A rp \in RoutePoints : task[rp].kind \in {"no_task", "merged"}
  /\ board' \in IF api = "next_departures" THEN Truncations(board) ELSE {board}
  /\ total' = IF api = "next_departures" /\ \E rp \in RoutePoints : HasSystem(rp)
              THEN Cardinality(board') ELSE total
  /\ phase' = "merged"
  /\ task' = [rp \in RoutePoints |-> Task("no_task")]
  /\ UNCHANGED <<api, from, breaker, cache, served>>

Call(rp) ==
  \/ MissingCode(rp) \/ FromCache(rp) \/ RateLimited(rp) \/ CallFails(rp)
  \/ \E resp \in Responses : CallAnswers(rp, resp)

Next ==
  \/ \E a \in {"next_departures", "departure_boards", "terminus_schedules"}, f \in Froms : AskKraken(a, f)
  \/ \E rp \in RoutePoints : Spawn(rp) \/ Call(rp) \/ Merge(rp)
  \/ \E sys \in Systems : BreakerHalfOpens(sys)
  \/ \E key \in DOMAIN cache : CacheExpires(key)
  \/ Finish

\* A greenlet that runs ends: its call has a timeout; the others are run by the scheduler.
Spec ==
  /\ Init /\ [][Next]_vars
  /\ \A rp \in RoutePoints : WF_vars(Spawn(rp)) /\ WF_vars(Call(rp)) /\ WF_vars(Merge(rp))
  /\ WF_vars(Finish)
-----------------------------------------------------------------------------
TypeOK ==
  /\ api \in {"next_departures", "departure_boards", "terminus_schedules"}
  /\ from \in Froms \cup {0} /\ phase \in {"asking", "merged", "crashed"}
  /\ \A d \in board : d.rp \in RoutePoints /\ d.time \in Nat /\ d.rt \in BOOLEAN
  /\ breaker \in [Systems -> 0 .. FailMax] /\ DOMAIN cache \subseteq Keys
  /\ served \in 0 .. MaxRequests /\ total \in Nat

\* While the answers come in, in any order and with any of them failing, a route point
\* shows only realtime passages, or its whole base schedule: that of the points without
\* a system or an answer so far, and of those whose system failed.
NoMix ==
  phase = "asking" =>
    \A rp \in RoutePoints :
      LET own == {d \in board : d.rp = rp}
          base == {[rp |-> rp, time |-> BaseTimes[rp][i], rt |-> FALSE] : i \in DOMAIN BaseTimes[rp]}
      IN  IF task[rp].kind = "merged" /\ task[rp].of = "list"
          THEN own = base \/ \A d \in own : d.rt
          ELSE own = base

\* A realtime passage lies in the window of the request, although the response may have
\* been kept from a request of an earlier moment, and no route point has more than the items per schedule.
InWindow ==
  \A rp \in RoutePoints :
    LET rt == {d \in board : d.rp = rp /\ d.rt} IN
    /\ \A d \in rt : from <= d.time /\ d.time <= from + Duration
    /\ Cardinality(rt) <= ItemsPerSchedule

\* What next_departures leaves out is not before what it keeps: no step that ends a
\* request drops a departure that is earlier than one it shows.
EarliestKept ==
  (phase = "asking" /\ phase' = "merged") =>
    \A x \in board', y \in board \ board' : x.time <= y.time

\* No answer of a system makes the request fail.
NeverCrashes == phase # "crashed"

\* Every request is answered, with a pool smaller than the number of systems to ask.
Answered == phase = "asking" ~> phase = "merged"

=============================================================================
