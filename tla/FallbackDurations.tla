-------------------------- MODULE FallbackDurations --------------------------
(***************************************************************************)
(* How long it takes to reach the stop points around the origin (or to     *)
(* come back from those around the destination) with a fallback mode, as   *)
(* the scenario distributed computes it for kraken.  A case k gives the    *)
(* request, the places and what the street network services answer; all    *)
(* distances are crow fly durations of the mode.  e is "orig" or "dest".   *)
(***************************************************************************)
EXTENDS Integers, Sequences, FiniteSets, FiniteSetsExt, SequencesExt, Functions, TLC

Inf == 9999
Unreached == -1      \* routing_status of a place of the matrix
Unknown == -2        \* the place could not be projected: no duration
Geovelo == -3        \* GeoveloTechnicalError
NoPath == 0          \* no response, or one without journey or section
NoObj == "none"

Lookup(f, x, default) == IF x \in DOMAIN f THEN f[x] ELSE default
Requested(k, e) == IF e = "orig" THEN k.req.origin ELSE k.req.destination
Element(d, status) == [d |-> d, status |-> status, park |-> NoObj, parkd |-> 0, ap |-> NoObj, poi |-> NoObj]
-----------------------------------------------------------------------------
\* The children of a POI are its entrances, for walking and bss only.
include_poi_access_points(k, uri, mode) ==
  /\ k.req.poi_access_points
  /\ k.place[uri].type = "poi" /\ mode \in {"walking", "bss"} /\ k.place[uri].children # <<>>
Centers(k, uri, mode) ==
  IF include_poi_access_points(k, uri, mode) THEN k.place[uri].children ELSE <<uri>>

\* StreetNetworkPath: the shortest of the paths between the entrances that
\* were found; NoPath when there is none.
BestPath(durations) ==
  LET found == {d \in durations : d # NoPath} IN IF found = {} THEN NoPath ELSE Min(found)

\* get_max_fallback_duration, dp being Inf when the direct path is late.
get_max_fallback_duration(k, mode, dp) ==
  LET max == k.req.max_to_pt[mode]
      duration == IF dp \in {NoPath, Inf} THEN max ELSE dp
  IN  IF duration < max THEN duration ELSE max

\* The bounds that ProximitiesByCrowflyPool may use: for a car without direct
\* path, the crow fly; the second wait may still find a path that was late.
ProximityBounds(k, mode, dp) ==
  LET max == get_max_fallback_duration(k, mode, dp)
      crow == IF max < k.req.crowfly THEN max ELSE k.req.crowfly
  IN  CASE mode = "car" /\ dp = NoPath -> {crow}
        [] mode = "car" /\ dp = Inf -> {crow, max}
        [] mode = "bss" -> {max - k.req.bss_duration}
        [] OTHER -> {max}

\* ProximitiesByCrowfly._do_request; kraken gives what is near enough, for a
\* car the car parks.  A bound of zero leaves only a place that is a stop point.
Proximities(k, e, mode, max) ==
  LET here == Requested(k, e)
      near == SelectSeq(k.near[e][mode], LAMBDA p : p.distance <= max)
      places == IF mode = "car" THEN SelectSeq(near, LAMBDA p : k.park[p.uri].park_ride) ELSE near
  IN  IF max = 0 /\ k.place[here].type = "stop_point" THEN <<[uri |-> here, distance |-> 0]>>
      ELSE IF ~k.place[here].coord THEN <<>>
      ELSE places

\* PlacesFreeAccess._do_request.
FreeAccess(k, e) ==
  LET here == Requested(k, e)
  IN  [crowfly |-> IF k.place[here].type = "stop_point" THEN {here} ELSE k.place[here].stops,
       odt |-> IF k.place[here].coord THEN k.place[here].odt ELSE {}]

\* _update_free_access_with_free_radius: the set is that of all the modes.
FreeRadius(k, e, prox) ==
  {prox[i].uri : i \in {n \in DOMAIN prox : prox[n].distance < k.req.radius[e]}}

\* The entrances of a stop point to begin with, its exits to end with.
AccessPoints(k, e, stop) ==
  {ap \in k.stop[stop].points : IF e = "orig" THEN k.point[ap].entrance ELSE k.point[ap].exit}

\* _build_places_isochrone: [places, stops] in the order of the proximities.
\* A place appears once, an access point replaces the stop points it serves.
Isochrone(k, e, mode, prox, free) ==
  LET wanted == SelectSeq(prox, LAMBDA p : p.uri \notin free)
      plain == mode = "car" \/ ~k.req.access_points
      expand(places, p) ==
        IF plain \/ k.stop[p.uri].points = {} THEN Append(places, p)
        ELSE places \o SetToSeq({[uri |-> ap, distance |-> p.distance] :
                                   ap \in {a \in AccessPoints(k, e, p.uri) : ~\E i \in DOMAIN places : places[i].uri = a}})
      all == FoldLeft(expand, <<>>, wanted)
  IN  [places |-> IF k.max_places = 0 \/ Len(all) <= k.max_places THEN all ELSE SubSeq(all, 1, k.max_places),
       stops |-> [i \in DOMAIN wanted |-> wanted[i].uri]]

\* _get_duration of a place of the matrix that is not unreached.
RoutedDuration(answer, place) == IF answer = Unknown THEN place.distance ELSE answer

\* _update_fb_durations and _update_fb_durations_from_access_point.
ReachStop(fb, stop, d, status, ap, max) ==
  IF d < max /\ (ap = NoObj \/ d < Lookup(fb, stop, Element(Inf, "none")).d)
  THEN (stop :> [Element(d, status) EXCEPT !.ap = ap]) @@ fb ELSE fb

\* _update_fallback_durations_for_car_park: to the park, park the car, then walk.
ReachByPark(k, fb, park, d, max) ==
  FoldLeft(LAMBDA f, stop :
             LET sum == d + k.park[park].nearby[stop] + k.req.car_park_duration
             IN  IF sum < max /\ sum < Lookup(f, stop, Element(Inf, "none")).d
                 THEN (stop :> [Element(sum, "reached") EXCEPT !.park = park, !.parkd = k.park[park].nearby[stop]]) @@ f
                 ELSE f,
           fb, SetToSeq(DOMAIN k.park[park].nearby))

\* build_fallback_duration, from one center.  The matrix is that of the
\* service: "error" and "empty" leave the crow fly durations.
build_fallback_duration(k, e, mode, max, center, free, iso) ==
  LET matrix == k.matrix[e][mode]
      base == [uri \in free |-> Element(0, "reached")]
      routed == SelectSeq(iso.places, LAMBDA p : Lookup(matrix[center], p.uri, Unreached) # Unreached)
      reach(fb, p) ==
        LET answer == matrix[center][p.uri]
            d == RoutedDuration(answer, p)
            status == IF answer = Unknown THEN "unknown" ELSE "reached"
            served == SelectSeq(iso.stops, LAMBDA s : p.uri \in AccessPoints(k, e, s))
        IN  IF mode = "car" THEN ReachByPark(k, fb, p.uri, d, max)
            ELSE IF p.uri \in DOMAIN k.point
            THEN FoldLeft(LAMBDA f, s : ReachStop(f, s, d + k.point[p.uri].traversal, status, p.uri, max), fb, served)
            ELSE ReachStop(fb, p.uri, d, status, NoObj, max)
  IN  IF iso.places = <<>> \/ max = 0 THEN base
      ELSE IF DOMAIN matrix = {} \* no answer: the crow fly durations
      THEN FoldLeft(LAMBDA fb, p : (p.uri :> Element(p.distance, "reached")) @@ fb, base, iso.places)
      ELSE FoldLeft(reach, base, routed)

\* FallbackDurations._do_request: with several entrances, the best of them
\* for each stop point of the isochrone.
BestCenter(fbs, centers, stops) ==
  LET reached == {s \in Range(stops) : \E i \in DOMAIN fbs : s \in DOMAIN fbs[i]}
      best(s) == Min({fbs[i][s].d : i \in {n \in DOMAIN fbs : s \in DOMAIN fbs[n]}})
      first(s) == Min({i \in DOMAIN fbs : s \in DOMAIN fbs[i] /\ fbs[i][s].d = best(s)})
  IN  IF Len(fbs) = 1 THEN fbs[1]
      ELSE [s \in reached |-> [fbs[first(s)][s] EXCEPT !.poi = centers[first(s)]]]

\* get_overriding_mode: walking may beat a shared bike.
get_overriding_mode(mode, modes) == IF mode = "bss" /\ "walking" \in modes THEN {"walking"} ELSE {}

\* get_real_mode, after get_best_fallback_durations of the mode; fb gives the
\* durations by mode.
get_real_mode(fb, mode, uri, modes) ==
  LET better == {m \in get_overriding_mode(mode, modes) \cap DOMAIN fb :
                   uri \in DOMAIN fb[m] /\ uri \in DOMAIN fb[mode] /\ fb[m][uri].d < fb[mode][uri].d}
  IN  IF better = {} THEN mode ELSE CHOOSE m \in better : TRUE
get_best_fallback_durations(fb, mode, modes) ==
  [uri \in DOMAIN fb[mode] |-> fb[get_real_mode(fb, mode, uri, modes)][uri].d]
=============================================================================
