----------------------------- MODULE Distributed -----------------------------
(***************************************************************************)
(* The scenario distributed of jormungandr.  The greenlet of the request   *)
(* (main) runs _compute_journeys and finalise_journeys: it spawns futures  *)
(* in a pool of bounded size, where spawning blocks while the pool is      *)
(* full, and waits for them; some futures wait for others.  The context    *)
(* keeps the first call's pools for the calls that follow.                 *)
(***************************************************************************)
EXTENDS FallbackSections

CONSTANTS
  Cases,        \* requests, places and answers of the external services
  PoolSize,     \* GREENLET_POOL_SIZE
  MaxRounds     \* calls of call_kraken by fill_journeys

VARIABLES
  k,            \* the case
  pc, todo,     \* of main: the stage, and what its loop has left
  queue,        \* the futures that main is about to spawn: [id, arg]
  fut,          \* the spawned futures: [st, arg, exc, val]
  radius,       \* free_radius of the PlaceFreeAccessResult of each end
  empty,        \* context.partial_response_is_empty
  rounds,
  valid,        \* has_valid_direct_paths
  elements,     \* journeys of the round
  responses,    \* journeys of all the rounds
  directs,      \* modes of the direct paths of the answer
  exc,          \* the exception that main met
  error,        \* the error of the last response
  here,         \* from_obj and to_obj of compute_fallback
  missed        \* street paths that were looked up and never requested
vars == <<k, pc, todo, queue, fut, radius, empty, rounds, valid, elements, responses, directs, exc, error, here, missed>>
-----------------------------------------------------------------------------
Ends == IF k.req.type = "planner" THEN {"orig", "dest"} ELSE {"orig"}
only(call) == call[3] \in {"only", "only_with_alternatives"}
\* The modes with public transport of an end, and those of the direct paths.
PtModes(e) == {IF e = "orig" THEN c[1] ELSE c[2] : c \in {c \in k.req.calls : ~only(c)}}
DirectModes == {c[1] : c \in k.req.calls}

Done(f) == f \in DOMAIN fut /\ fut[f].st = "done"
Raised(f) == Done(f) /\ fut[f].exc # "none"
running == {f \in DOMAIN fut : fut[f].st = "running"}

\* The futures of the direct path of a mode, and what StreetNetworkPath gives.
DirectFutures(mode) ==
  {<<"dp", mode, o, d>> : o \in Range(Centers(k, k.req.origin, mode)), d \in Range(Centers(k, k.req.destination, mode))}
DirectPath(mode) == BestPath({fut[f].val : f \in DirectFutures(mode)})
\* With the timeout of get_max_fallback_duration: late is Inf; an isochrone has none.
DirectPathNow(mode) ==
  IF k.req.type # "planner" THEN NoPath
  ELSE IF \E f \in DirectFutures(mode) : ~Done(f) THEN Inf ELSE DirectPath(mode)
DirectRaised(mode) == k.req.type = "planner" /\ \E f \in DirectFutures(mode) : Raised(f)

fbOf(e, f) == [m \in {n \in PtModes(e) : Done(<<"fb", e, n>>)} |-> f[<<"fb", e, m>>].val]
Durations(e, mode) == get_best_fallback_durations(fbOf(e, fut), mode, k.req.modes[e])

\* What a future waits for inside the pool.
Needs(f) ==
  CASE f[1] = "fb" -> {<<"center", f[2], f[3], i>> : i \in DOMAIN Centers(k, Requested(k, f[2]), f[3])}
    [] f[1] = "pt" ->
         UNION {{<<"fb", e, m>> : m \in ({f[IF e = "orig" THEN 3 ELSE 4]}
                    \cup get_overriding_mode(f[IF e = "orig" THEN 3 ELSE 4], k.req.modes[e])) \cap PtModes(e)} : e \in Ends}
    [] OTHER -> {}

\* PtJourney: kraken answers the candidates whose ends it was given.
PtAnswer(f) ==
  LET call == <<f[3], f[4]>>
      orig == Durations("orig", f[3])
      dest == IF "dest" \in Ends THEN Durations("dest", f[4]) ELSE <<>>
      ok(j) == /\ Head(j.sections).from \in DOMAIN orig
               /\ "dest" \in Ends => Last(j.sections).to \in DOMAIN dest
      found == SelectSeq(k.pt[call].journeys, ok)
      asked == DOMAIN orig # {} /\ ("dest" \in Ends => DOMAIN dest # {}) /\ k.req.max_duration > 0
  IN  IF ~asked THEN [error |-> "none", journeys |-> <<>>, none |-> TRUE]
      ELSE [error |-> IF k.pt[call].error # "none" THEN k.pt[call].error ELSE IF found = <<>> THEN "no_solution" ELSE "none",
            journeys |-> IF k.pt[call].error # "none" THEN <<>>
                         ELSE [i \in DOMAIN found |-> [found[i] EXCEPT !.id = <<f[2], call, i>>, !.modes = call]],
            none |-> FALSE]

\* The technical error of Geovelo is raised, any other gives no answer.
Unavailable(f) ==
  CASE f[1] = "dp" -> Lookup(k.dp, <<f[2], f[3], f[4]>>, NoPath) = Geovelo
    [] f[1] = "center" -> <<f[2], f[3]>> \in k.geovelo /\ fut[f].arg.iso.places # <<>> /\ fut[f].arg.max # 0
    [] f[1] = "path" -> Lookup(k.path, <<f[3], f[4], f[5]>>, NoPath) = Geovelo
    [] OTHER -> FALSE
Value(f) ==
  CASE f[1] = "dp" -> Lookup(k.dp, <<f[2], f[3], f[4]>>, NoPath)
    [] f[1] = "prox" -> Proximities(k, f[2], f[3], fut[f].arg.max)
    [] f[1] = "free" -> FreeAccess(k, f[2])
    [] f[1] = "center" ->
         build_fallback_duration(k, f[2], f[3], fut[f].arg.max, Centers(k, Requested(k, f[2]), f[3])[f[4]],
                                 fut[f].arg.free, fut[f].arg.iso)
    [] f[1] = "fb" ->
         LET centers == Centers(k, Requested(k, f[2]), f[3])
         IN  BestCenter([i \in DOMAIN centers |-> fut[<<"center", f[2], f[3], i>>].val], centers, fut[f].arg.iso.stops)
    [] f[1] = "pt" -> PtAnswer(f)
    [] f[1] = "path" -> StreetPath(k, Tail(f))
    [] f[1] = "tr" -> TransferPath(k, fut[f].arg)
    [] OTHER -> TRUE

Finish(f) ==
  /\ f \in running
  /\ \A g \in Needs(f) : Done(g)
  /\ fut' = [fut EXCEPT ![f].st = "done",
               ![f].exc = IF (\E g \in Needs(f) : Raised(g)) \/ Unavailable(f) THEN "street_network"
                          ELSE IF f[1] \in k.dead THEN "dead" ELSE "none",
               ![f].val = IF (\E g \in Needs(f) : Raised(g)) \/ Unavailable(f) \/ f[1] \in k.dead THEN NoPath ELSE Value(f)]
  /\ UNCHANGED <<k, pc, todo, queue, radius, empty, rounds, valid, elements, responses, directs, exc, error, here, missed>>

\* create_future: main blocks while the pool is full.
Spawn ==
  /\ queue # <<>> /\ Cardinality(running) < PoolSize
  /\ fut' = (Head(queue).id :> [st |-> "running", arg |-> Head(queue).arg, exc |-> "none", val |-> NoPath]) @@ fut
  /\ queue' = Tail(queue)
  /\ UNCHANGED <<k, pc, todo, radius, empty, rounds, valid, elements, responses, directs, exc, error, here, missed>>

Future(id, arg) == [id |-> id, arg |-> arg]
NoArg == [max |-> 0]
\* Main is at a stage and has nothing to spawn.
At(stage) == pc = stage /\ queue = <<>>
\* The exception leaves the scope: clean_futures waits for the pool.
Raise(e) ==
  /\ exc' = e /\ pc' = "join" /\ todo' = {}
  /\ UNCHANGED <<k, queue, fut, radius, empty, rounds, valid, elements, responses, directs, error, here, missed>>
-----------------------------------------------------------------------------
\* call_kraken: the first call fills the context, the others reuse it.  The
\* mapped lines are those of _compute_journeys up to the direct paths.
StartCall ==
  /\ At("idle") /\ rounds < MaxRounds /\ exc = "none"
  /\ rounds' = rounds + 1 /\ elements' = <<>> /\ error' = "none"
  /\ LET direct == UNION {DirectFutures(m) : m \in DirectModes}
         first == empty /\ k.req.type = "planner"
     IN  /\ queue' = IF first THEN [i \in DOMAIN SetToSeq(direct) |-> Future(SetToSeq(direct)[i], NoArg)] ELSE <<>>
         \* the first call again after a failure makes new pools
         /\ fut' = IF empty THEN <<>> ELSE fut
         /\ radius' = IF empty THEN [e \in {"orig", "dest"} |-> {}] ELSE radius
         /\ pc' = IF ~empty THEN "pt"
                  ELSE IF first /\ (k.req.max_duration = 0 \/ k.req.direct_path \in {"only", "only_with_alternatives"}) THEN "direct"
                  ELSE "prox"
         /\ todo' = IF empty THEN {<<e, m>> : e \in {"orig", "dest"}, m \in PtModes("orig") \cup PtModes("dest")} \cap
                                   UNION {{e} \X PtModes(e) : e \in Ends}
                    ELSE {c \in k.req.calls : ~only(c)}
  /\ UNCHANGED <<k, empty, valid, responses, directs, exc, here, missed>>

\* Only direct paths are wanted: the first error ends the wait for the others, and the context stays empty.
OnlyDirect ==
  /\ At("direct")
  /\ \/ (\E m \in DirectModes : DirectRaised(m)) /\ Raise("street_network")
     \/ /\ \A m \in DirectModes : \A f \in DirectFutures(m) : Done(f) /\ ~Raised(f)
        /\ directs' = {m \in DirectModes : DirectPath(m) # NoPath}
        /\ pc' = "join"
        /\ UNCHANGED <<k, todo, queue, fut, radius, empty, rounds, valid, elements, responses, exc, error, here, missed>>

\* The next turn of a loop over the modes of the origin, then of the destination.
Turns == IF \E t \in todo : t[1] = "orig" THEN {t \in todo : t[1] = "orig"} ELSE todo

\* ProximitiesByCrowflyPool: the bound uses the direct path if it comes in time.
Proximity ==
  /\ At("prox") /\ todo # {}
  /\ \E t \in Turns :
       IF DirectRaised(t[2]) THEN Raise("street_network")
       ELSE \E max \in ProximityBounds(k, t[2], DirectPathNow(t[2])) :
              /\ queue' = <<Future(<<"prox", t[1], t[2]>>, [max |-> max])>>
              /\ todo' = todo \ {t}
              /\ UNCHANGED <<k, pc, fut, radius, empty, rounds, valid, elements, responses, directs, exc, error, here, missed>>

\* The two PlacesFreeAccess.
StartFreeAccess ==
  /\ At("prox") /\ todo = {}
  /\ queue' = IF "dest" \in Ends THEN <<Future(<<"free", "orig">>, NoArg), Future(<<"free", "dest">>, NoArg)>>
              ELSE <<Future(<<"free", "orig">>, NoArg)>>
  /\ todo' = UNION {{e} \X PtModes(e) : e \in Ends}
  /\ pc' = "fb"
  /\ UNCHANGED <<k, fut, radius, empty, rounds, valid, elements, responses, directs, exc, error, here, missed>>

\* FallbackDurations: main waits for the proximities of the mode and for the
\* free accesses, then spawns a future by center and one that waits for them.
FallbackFutures(e, mode, max, arg) ==
  LET centers == Centers(k, Requested(k, e), mode)
  IN  Append([i \in DOMAIN centers |-> Future(<<"center", e, mode, i>>, arg)], Future(<<"fb", e, mode>>, arg))
Fallback ==
  /\ At("fb") /\ todo # {}
  /\ \E t \in Turns :
       LET e == t[1] mode == t[2] prox == <<"prox", e, mode>> free == <<"free", e>>
           near == FreeRadius(k, e, fut[prox].val)
           uris == fut[free].val.crowfly \cup fut[free].val.odt \cup radius[e] \cup near
           max == get_max_fallback_duration(k, mode, DirectPathNow(mode))
       IN  IF DirectRaised(mode) THEN Raise("street_network")
           ELSE /\ Done(prox) /\ (~Raised(prox) => Done(free))
                /\ IF Raised(prox) \/ Raised(free) THEN Raise("dead")
                   ELSE /\ radius' = [radius EXCEPT ![e] = @ \cup near]
                        /\ queue' = FallbackFutures(e, mode, max,
                                      [max |-> max, free |-> uris, iso |-> Isochrone(k, e, mode, fut[prox].val, uris)])
                        /\ todo' = todo \ {t}
                        /\ UNCHANGED <<k, pc, fut, empty, rounds, valid, elements, responses, directs, exc, error, here, missed>>
StartPt ==
  /\ At("fb") /\ todo = {}
  /\ pc' = "pt" /\ todo' = {c \in k.req.calls : ~only(c)}
  /\ UNCHANGED <<k, queue, fut, radius, empty, rounds, valid, elements, responses, directs, exc, error, here, missed>>

\* PtJourneyPool: main waits for the direct path of the mode, without timeout.
PtCall ==
  /\ At("pt") /\ todo # {}
  /\ \E c \in todo :
       /\ k.req.type = "planner" => \A f \in DirectFutures(c[1]) : Done(f)
       /\ IF DirectRaised(c[1]) THEN Raise("street_network")
          ELSE /\ queue' = <<Future(<<"pt", rounds, c[1], c[2]>>, NoArg)>>
               /\ todo' = todo \ {c}
               /\ UNCHANGED <<k, pc, fut, radius, empty, rounds, valid, elements, responses, directs, exc, error, here, missed>>
HasDirectPaths ==
  /\ At("pt") /\ todo = {}
  /\ k.req.type = "planner" => \A m \in DirectModes : \A f \in DirectFutures(m) : Done(f)
  /\ \/ /\ k.req.type = "planner" /\ \E m \in DirectModes : DirectRaised(m)
        /\ Raise("street_network")
     \/ LET found == k.req.type = "planner" /\ \E m \in DirectModes : ~DirectRaised(m) /\ DirectPath(m) # NoPath
        IN  /\ found \/ k.req.type # "planner" \/ ~\E m \in DirectModes : DirectRaised(m)
            /\ valid' = found /\ pc' = "crow" /\ todo' = {c \in k.req.calls : ~only(c)}
            /\ UNCHANGED <<k, queue, fut, radius, empty, rounds, elements, responses, directs, exc, error, here, missed>>

\* The order of _PtJourneySorter, by the weight of the departure mode.
ModeWeight(mode) == CASE mode = "walking" -> 1 [] mode = "bike" -> 100 [] mode = "bss" -> 500 [] OTHER -> 1000
NextElements == {c \in todo : \A d \in todo : ModeWeight(c[1]) <= ModeWeight(d[1])}

\* wait_and_get_pt_journeys, then the crow flies.
WithCrowflies(answer, call) ==
  [i \in DOMAIN answer.journeys |->
     BuildCrowflies(answer.journeys[i], k.req.origin, k.req.destination, call,
                    [orig |-> fut[<<"free", "orig">>].val, dest |-> fut[<<"free", "dest">>].val],
                    [orig |-> Durations("orig", call[1]), dest |-> Durations("dest", call[2])])]
BuildCrow ==
  /\ At("crow") /\ todo # {}
  /\ \E c \in NextElements :
       LET f == <<"pt", rounds, c[1], c[2]>> answer == fut[f].val
       IN  /\ Done(f)
           /\ IF Raised(f) THEN Raise(fut[f].exc)
              ELSE IF answer.error = "date_out_of_bounds" THEN Raise("date_out_of_bounds")
              ELSE /\ elements' = elements \o (IF answer.journeys = <<>> THEN <<>>
                                               ELSE IF k.req.type # "planner" THEN answer.journeys
                                               ELSE WithCrowflies(answer, <<c[1], c[2]>>))
                   /\ todo' = todo \ {c}
                   /\ UNCHANGED <<k, pc, queue, fut, radius, empty, rounds, valid, responses, directs, exc, error, here, missed>>

\* check_final_results_or_raise.
FinalError(anyResult) ==
  LET none(e) == \A m \in PtModes(e) : fut[<<"fb", e, m>>].val = <<>>
  IN  IF anyResult THEN "none"
      ELSE IF none("orig") /\ none("dest") THEN "no_origin_nor_destination"
      ELSE IF none("orig") THEN "no_origin"
      ELSE IF none("dest") THEN "no_destination" ELSE "none"

\* The end of _compute_journeys: direct paths on the first call only.  An
\* answer without error that kraken could not solve still counts as a result.
Collect ==
  /\ At("crow") /\ todo = {} /\ k.req.type = "planner"
  /\ LET found == IF empty THEN {m \in DirectModes : DirectPath(m) # NoPath} ELSE {}
         e == FinalError(found # {} \/ elements # <<>>)
     IN  IF e # "none" THEN Raise(e)
         ELSE /\ directs' = directs \cup found
              /\ responses' = responses \o elements
              /\ empty' = FALSE
              /\ pc' = "join"
              /\ UNCHANGED <<k, todo, queue, fut, radius, rounds, valid, elements, exc, error, here, missed>>
\* _compute_isochrone_common: a graphical isochrone needs an answer.
CollectIsochrone ==
  /\ At("crow") /\ todo = {} /\ k.req.type # "planner"
  /\ IF k.req.type = "graphical" /\ elements = <<>> THEN Raise("no_graphical_isochrone")
     ELSE /\ responses' = responses \o elements /\ pc' = "join"
          /\ UNCHANGED <<k, todo, queue, fut, radius, empty, rounds, valid, elements, directs, exc, error, here, missed>>

pool_join == running = {}
\* The exceptions that call_kraken catches become the error of a response.
Caught == {"street_network", "date_out_of_bounds", "no_origin_nor_destination", "no_origin", "no_destination", "no_graphical_isochrone"}
Leave ==
  /\ At("join") /\ pool_join /\ exc # "finalise"
  /\ IF exc \in Caught \cup {"none"}
     THEN /\ error' = exc /\ exc' = "none" /\ pc' = "idle"
     ELSE pc' = "raised" /\ UNCHANGED <<exc, error>>
  /\ UNCHANGED <<k, todo, queue, fut, radius, empty, rounds, valid, elements, responses, directs, here, missed>>
-----------------------------------------------------------------------------
\* fill_journeys has enough; its filters killed some journeys.
ToComplete == SelectSeq([i \in DOMAIN responses |-> i], LAMBDA i : k.req.debug \/ ~responses[i].dead)
\* The first journey with a pair of stops gives the modes of its path.
TransferAt(i, n) ==
  LET ss == responses[i].sections
  IN  [from |-> ss[n].from, to |-> ss[n].to, prev |-> ss[n-1].mode,
       next |-> (IF ss[n+1].type = "waiting" THEN ss[n+2] ELSE ss[n+1]).mode]
Transfers ==
  LET places == {p \in Range(ToComplete) \X (2..6) : /\ p[2] <= Len(responses[p[1]].sections) - 2
                                                     /\ responses[p[1]].sections[p[2]].type = "transfer"}
      handled == {p \in places : LET t == TransferAt(p[1], p[2]) IN Handled(t.prev, t.next)}
      first(p) == \A q \in handled : TransferAt(q[1], q[2]).from = TransferAt(p[1], p[2]).from
                                     /\ TransferAt(q[1], q[2]).to = TransferAt(p[1], p[2]).to => p[1] <= q[1]
  IN  {TransferAt(p[1], p[2]) : p \in {p \in handled : first(p)}}
StartFinalise ==
  /\ At("idle") /\ rounds > 0 /\ k.req.type = "planner"
  /\ \E dead \in SUBSET DOMAIN responses :
       responses' = [i \in DOMAIN responses |-> [responses[i] EXCEPT !.dead = i \in dead]]
  /\ pc' = "transfers"
  /\ UNCHANGED <<k, todo, queue, fut, radius, empty, rounds, valid, elements, directs, exc, error, here, missed>>
\* The transfers and the fares.
AskTransfers ==
  /\ At("transfers")
  /\ LET asked == SetToSeq(IF k.req.transfer_path THEN Transfers ELSE {})
     IN  queue' = [i \in DOMAIN asked |-> Future(<<"tr", asked[i].from, asked[i].to>>, asked[i])]
                  \o (IF k.req.loki_fare THEN <<Future(<<"fare", "all">>, NoArg)>> ELSE <<>>)
  /\ here' = [orig |-> k.req.origin, dest |-> k.req.destination]
  /\ pc' = "paths" /\ todo' = Range(ToComplete)
  /\ UNCHANGED <<k, fut, radius, empty, rounds, valid, elements, responses, directs, exc, error, missed>>

\* compute_fallback: from_obj and to_obj keep the entrance of a journey for
\* the journeys that follow it.
FreeUris(e) == fut[<<"free", e>>].val.crowfly \cup fut[<<"free", e>>].val.odt \cup radius[e]
FallbackKey(e, j, start) ==
  LET mode == j.modes[IF e = "orig" THEN 1 ELSE 2]
      key == PathKey(k, e, j, mode, fbOf(e, fut))
      element == Lookup(fut[<<"fb", e, mode>>].val, PtObject(e, j), Element(Inf, "none"))
  IN  [key EXCEPT ![3] = IF mode # "car" /\ element.poi # NoObj THEN element.poi ELSE start]
Wanted(e, j, start) == start # PtObject(e, j) /\ PtObject(e, j) \notin FreeUris(e)
compute_fallback ==
  /\ At("paths") /\ todo # {}
  /\ LET i == Min(todo) j == responses[i]
         key(e) == FallbackKey(e, j, here[e])
         asked == {key(e) : e \in {e \in {"orig", "dest"} : Wanted(e, j, here[e])}}
         ids == {<<"path">> \o p : p \in asked} \ DOMAIN fut
     IN  /\ queue' = [n \in DOMAIN SetToSeq(ids) |-> Future(SetToSeq(ids)[n], NoArg)]
         /\ here' = [e \in {"orig", "dest"} |->
                       IF Wanted(e, j, here[e]) /\ j.modes[IF e = "orig" THEN 1 ELSE 2] # "car" THEN key(e)[3] ELSE here[e]]
         /\ todo' = todo \ {i}
  /\ UNCHANGED <<k, pc, fut, radius, empty, rounds, valid, elements, responses, directs, exc, error, missed>>
StartComplete ==
  /\ At("paths") /\ todo = {}
  /\ pc' = "complete" /\ todo' = Range(ToComplete) \X {"orig", "dest"}
  /\ UNCHANGED <<k, queue, fut, radius, empty, rounds, valid, elements, responses, directs, exc, error, here, missed>>

\* complete_pt_journey: first the beginning, then the end.
NextSide == LET i == Min({t[1] : t \in todo}) IN <<i, IF <<i, "orig">> \in todo THEN "orig" ELSE "dest">>
PathOf(key) ==
  LET id == <<"path">> \o key
      walk == <<"path", key[1], "walking", key[3], key[4], key[5]>>
  IN  IF id \notin DOMAIN fut THEN NoStreetPath
      ELSE IF key[2] = "bss" /\ PureWalking(fut[id].val) /\ walk \in DOMAIN fut /\ Done(walk) THEN fut[walk].val
      ELSE fut[id].val
complete_pt_journey ==
  /\ At("complete") /\ todo # {}
  /\ LET i == NextSide[1] e == NextSide[2] j == responses[i] mode == j.modes[IF e = "orig" THEN 1 ELSE 2]
         fb == fbOf(e, fut)
         key == PathKey(k, e, j, mode, fb) id == <<"path">> \o key
         sought == PtObject(e, j) # Requested(k, e) /\ PtObject(e, j) \notin fut[<<"free", e>>].val.odt
     IN  /\ sought /\ id \in DOMAIN fut => Done(id)
         /\ IF sought /\ Raised(id) THEN Raise("finalise")
            ELSE /\ responses' = [responses EXCEPT ![i] =
                                    BuildFallback(k, e, j, mode, fb, fut[<<"free", e>>].val, PathOf(key))]
                 /\ missed' = IF sought /\ id \notin DOMAIN fut /\ PtObject(e, j) \notin FreeUris(e)
                              THEN missed \cup {key} ELSE missed
                 /\ todo' = todo \ {NextSide}
                 /\ UNCHANGED <<k, pc, queue, fut, radius, empty, rounds, valid, elements, directs, exc, error, here>>
\* complete_transfer and the fares; the street path of a transfer changes no date.
Completed(j) ==
  [j EXCEPT !.fare = k.req.loki_fare,
            !.sections = [n \in DOMAIN @ |->
               LET f == <<"tr", @[n].from, @[n].to>>
               IN  IF @[n].type = "transfer" /\ f \in DOMAIN fut /\ fut[f].val.found
                   THEN [@[n] EXCEPT !.vias = {fut[f].val.via} \ {NoObj}] ELSE @[n]]]
CompleteRest ==
  /\ At("complete") /\ todo = {}
  /\ \A f \in DOMAIN fut : f[1] \in {"tr", "fare"} => Done(f)
  /\ IF \E f \in DOMAIN fut : f[1] = "tr" /\ fut[f].val.raises THEN Raise("finalise")
     ELSE /\ responses' = [i \in DOMAIN responses |-> IF i \in Range(ToComplete) THEN Completed(responses[i]) ELSE responses[i]]
          /\ pc' = "join_finalise"
          /\ UNCHANGED <<k, todo, queue, fut, radius, empty, rounds, valid, elements, directs, exc, error, here, missed>>
\* finalise_journeys of the scenario: any exception is swallowed, the journeys
\* keep what they have.
LeaveFinalise ==
  /\ \/ At("join_finalise") \/ (At("join") /\ exc = "finalise")
  /\ pool_join
  /\ pc' = "end" /\ exc' = "none"
  /\ UNCHANGED <<k, todo, queue, fut, radius, empty, rounds, valid, elements, responses, directs, error, here, missed>>

Init ==
  /\ k \in Cases
  /\ pc = "idle" /\ todo = {} /\ queue = <<>> /\ fut = <<>> /\ radius = [e \in {"orig", "dest"} |-> {}]
  /\ empty = TRUE /\ rounds = 0 /\ valid = FALSE /\ elements = <<>> /\ responses = <<>> /\ directs = {}
  /\ exc = "none" /\ error = "none" /\ missed = {} /\ here = [orig |-> k.req.origin, dest |-> k.req.destination]

Ended == pc \in {"end", "raised"} \/ (pc = "idle" /\ rounds > 0 /\ k.req.type # "planner")
Stop == Ended /\ UNCHANGED vars
Main ==
  \/ StartCall \/ OnlyDirect \/ Proximity \/ StartFreeAccess \/ Fallback \/ StartPt \/ PtCall \/ HasDirectPaths
  \/ BuildCrow \/ Collect \/ CollectIsochrone \/ Leave \/ StartFinalise \/ AskTransfers \/ compute_fallback
  \/ StartComplete \/ complete_pt_journey \/ CompleteRest \/ LeaveFinalise
Next == Spawn \/ (\E f \in running : Finish(f)) \/ Main \/ Stop
Spec == Init /\ [][Next]_vars
-----------------------------------------------------------------------------
(* Properties *)
TypeOK ==
  /\ rounds \in 0..MaxRounds /\ empty \in BOOLEAN /\ valid \in BOOLEAN
  /\ Cardinality(running) <= PoolSize
  /\ \A f \in DOMAIN fut : fut[f].st \in {"running", "done"} /\ (fut[f].exc # "none" => fut[f].st = "done")
  /\ directs \subseteq DirectModes
  /\ exc \in Caught \cup {"none", "dead", "finalise"}

\* No greenlet survives the scope of its FutureManager, on any path out of it,
\* an exception included (clean_futures).
ScopeIsClean == pc \in {"idle", "end", "raised"} => running = {}

\* A future in the pool waits only for futures that were spawned before it.  The
\* pool is served in that order, so it cannot be full of futures that wait for
\* one that main has not been able to spawn, whatever its size.
WaitsForEarlier == \A f \in running : Needs(f) \subseteq DOMAIN fut

\* The duration given to kraken for a stop point is the best over the entrances
\* of the POI, the access points of the stop and the modes that may replace the
\* mode, and a stop that a path joins in time is not lost (build_fallback_duration,
\* _do_request and get_best_fallback_durations).
Ways(e, mode, stop) ==
  LET arg == fut[<<"fb", e, mode>>].arg
      centers == Range(Centers(k, Requested(k, e), mode))
      points == IF k.req.access_points /\ k.stop[stop].points # {} THEN AccessPoints(k, e, stop) ELSE {stop}
      extra(p) == IF p \in DOMAIN k.point THEN k.point[p].traversal ELSE 0
      all == {k.matrix[e][mode][p[1]][p[2]] + extra(p[2]) :
                p \in {q \in centers \X points : q[1] \in DOMAIN k.matrix[e][mode] /\ Lookup(k.matrix[e][mode][q[1]], q[2], Unreached) >= 0}}
  IN  {d \in all : d < arg.max}
DurationsAreBest ==
  \A e \in Ends : \A mode \in PtModes(e) \ {"car"} :
    Done(<<"fb", e, mode>>) /\ ~Raised(<<"fb", e, mode>>) /\ DOMAIN k.matrix[e][mode] # {} /\ k.max_places = 0 =>
      LET fb == fut[<<"fb", e, mode>>].val
      IN  \A stop \in Range(fut[<<"fb", e, mode>>].arg.iso.stops) :
            /\ stop \in DOMAIN fb <=> Ways(e, mode, stop) # {}
            /\ stop \in DOMAIN fb => fb[stop].d = Min(Ways(e, mode, stop))

\* A call that gives no error gives every journey that kraken found for one of
\* its pairs of modes, whatever the order in which the futures end.
NothingLost ==
  pc = "idle" /\ rounds > 0 /\ error = "none" /\ k.req.max_duration > 0 /\ k.req.direct_path \notin {"only", "only_with_alternatives"} =>
    \A f \in DOMAIN fut : f[1] = "pt" /\ f[2] = rounds /\ ~Raised(f) =>
      \A i \in DOMAIN fut[f].val.journeys : \E n \in DOMAIN responses : responses[n].id = fut[f].val.journeys[i].id

\* no_origin and no_destination are said only when no mode reaches a stop point
\* from there and there is nothing to answer.
ErrorsAreTrue ==
  pc = "idle" /\ error \in {"no_origin_nor_destination", "no_origin", "no_destination"} =>
    /\ elements = <<>>
    /\ \A e \in (IF error = "no_origin" THEN {"orig"} ELSE IF error = "no_destination" THEN {"dest"} ELSE {"orig", "dest"}) :
         \A m \in PtModes(e) : fut[<<"fb", e, m>>].val = <<>>

\* The journeys that leave the scenario are whole: each section begins where
\* and when the one before it ends, from the origin to the destination, with
\* the crow flies replaced or not (_build_crowflies, _build_fallback).
PlacesOf(uri) == {uri} \cup Range(k.place[uri].children)
JourneysAreWhole ==
  pc = "end" => \A i \in DOMAIN responses :
    /\ Whole(k, responses[i])
    /\ Head(responses[i].sections).from \in PlacesOf(k.req.origin)
    /\ Last(responses[i].sections).to \in PlacesOf(k.req.destination)

\* The access point of a transfer is one that costs the least, walk and
\* traversal, among those that open on the right side
\* (get_cached_transfer_path, wait_and_complete).
TransferIsBest ==
  pc = "end" => \A i \in DOMAIN responses : \A n \in DOMAIN responses[i].sections :
    LET s == responses[i].sections[n]
        f == <<"tr", s.from, s.to>>
        open == UnderlyingAccessPoints(k, fut[f].arg)
        cost(ap) == k.transfer[ap] + k.point[ap].traversal
    IN  s.type = "transfer" => \A ap \in s.vias :
          /\ ap \in open
          /\ Cardinality(open) > 1 => \A b \in open : k.transfer[b] >= 0 => cost(ap) <= cost(b)

\* Every street path that completes a journey has been asked for
\* (compute_fallback and _build_fallback agree on the key).
PathsWereAsked == missed = {}

=============================================================================
