-------------------------- MODULE FallbackSections ---------------------------
(***************************************************************************)
(* The sections that distributed adds to the journeys of kraken: first crow *)
(* flies of the duration of the matrix, then the paths of the street        *)
(* network.  A section is [type, mode, from, to, begin, end, vias], a       *)
(* journey [id, modes, sections, dep, arr, duration, dead, fare]; a street  *)
(* path is [sections, duration, dep, arr].  Lengths, coordinates and the    *)
(* durations by mode are left out.                                          *)
(***************************************************************************)
EXTENDS FallbackDurations

CAR_PARK_DURATION == 3      \* the constant of helper_utils, in model units

Section(type, mode, from, to, begin, end) ==
  [type |-> type, mode |-> mode, from |-> from, to |-> to, begin |-> begin, end |-> end, vias |-> {}]

\* SectionSorter.
Precedes(a, b) ==
  \/ a.begin < b.begin
  \/ a.begin = b.begin /\ a.end < b.end
  \/ a.begin = b.begin /\ a.end = b.end /\ a.to = b.from
SortSections(sections) == SortSeq(sections, Precedes)

\* BeginningFallback and EndingFallback: the section at the boundary of the
\* public transport, its place and its date.
Boundary(e, sections) ==
  LET notCrowFly(s) == s.type # "crow_fly"
  IN  IF e = "orig" THEN SelectInSeq(sections, notCrowFly) ELSE SelectLastInSeq(sections, notCrowFly)
PtObject(e, j) ==
  LET s == j.sections[Boundary(e, j.sections)] IN IF e = "orig" THEN s.from ELSE s.to
PtDate(e, j) ==
  LET s == j.sections[Boundary(e, j.sections)] IN IF e = "orig" THEN s.begin ELSE s.end
RouteParams(e, here, there) == IF e = "orig" THEN <<here, there>> ELSE <<there, here>>
MovedTo(e, j, uri) ==
  LET i == Boundary(e, j.sections)
  IN  IF e = "orig" THEN [j EXCEPT !.sections[i].from = uri] ELSE [j EXCEPT !.sections[i].to = uri]
SetBounds(j) == [j EXCEPT !.dep = Head(j.sections).begin, !.arr = Last(j.sections).end]
SetBound(e, j) ==
  IF e = "orig" THEN [j EXCEPT !.dep = Head(j.sections).begin] ELSE [j EXCEPT !.arr = Last(j.sections).end]

\* _build_crowfly and _create_crowfly: no section when the vehicle stops at
\* the place itself, or comes on demand.  The date is that of the journey.
Crowfly(e, j, here, mode, durations) ==
  LET stop == PtObject(e, j)
      away == IF e = "orig" THEN j.dep - durations[stop] ELSE j.arr + durations[stop]
      places == RouteParams(e, here, stop)
      dates == RouteParams(e, away, PtDate(e, j))
  IN  Section("crow_fly", IF dates[2] > dates[1] THEN mode ELSE "walking", places[1], places[2], dates[1], dates[2])
BuildCrowfly(e, j, here, mode, free, durations) ==
  LET stop == PtObject(e, j)
      crow == Crowfly(e, j, here, mode, durations)
  IN  IF stop = here THEN j
      ELSE IF stop \in free.odt THEN MovedTo(e, j, here)
      ELSE [j EXCEPT !.sections = Append(@, crow), !.duration = @ + (crow.end - crow.begin)]
BuildCrowflies(j, orig, dest, modes, free, durations) ==
  LET with == BuildCrowfly("dest", BuildCrowfly("orig", j, orig, modes[1], free.orig, durations.orig),
                           dest, modes[2], free.dest, durations.dest)
  IN  SetBounds([with EXCEPT !.sections = SortSections(@)])

\* _is_crowfly_needed.
CrowflyNeeded(stop, fb, crowfly, path) ==
  \/ stop \in DOMAIN fb /\ fb[stop].status = "unknown"
  \/ stop \in crowfly
  \/ path.sections = <<>>

\* _extend_with_car_park: the car is parked, then a walk joins the stop point.
\* The duration grows by the constant, not by the parameter of the request.
ExtendWithCarPark(e, path, stop, park, parkd, duration) ==
  LET parkBegin == IF e = "orig" THEN path.arr ELSE path.dep - duration
      walkBegin == IF e = "orig" THEN path.arr + duration ELSE path.dep - duration - parkd
      walk == RouteParams(e, park, stop)
      here == IF e = "orig" THEN [path EXCEPT !.sections[Len(path.sections)].to = park]
              ELSE [path EXCEPT !.sections[1].from = park]
      parking == Section(IF e = "orig" THEN "park" ELSE "leave_parking", "car", park, park, parkBegin, parkBegin + duration)
      walking == Section("crow_fly", "walking", walk[1], walk[2], walkBegin, walkBegin + parkd)
  IN  [here EXCEPT !.sections = SortSections(@ \o <<parking, walking>>),
                   !.arr = IF e = "orig" THEN walking.end ELSE @,
                   !.dep = IF e = "orig" THEN @ ELSE walking.begin,
                   !.duration = @ + CAR_PARK_DURATION + parkd]

\* The time of the access point is added without moving a section.
ExtendWithAccessPointOnly(e, path, ap, traversal) ==
  IF ap = NoObj THEN path ELSE [path EXCEPT !.duration = @ + traversal]

\* _extend_with_via_pt_access: the time inside the station is given to the
\* section at the other end of the path.
ExtendWithAccessPoint(e, path, ap, traversal) ==
  IF ap = NoObj THEN path
  ELSE LET n == Len(path.sections)
           longer == IF e = "orig" THEN [path EXCEPT !.sections[1].begin = @ - traversal]
                     ELSE [path EXCEPT !.sections[n].end = @ + traversal]
       IN  [longer EXCEPT !.duration = @ + traversal]

\* _align_fallback_direct_path_datetime.
Align(e, path, date) ==
  LET dep == IF e = "orig" THEN date - path.duration ELSE date
      delta == dep - Head(path.sections).begin
  IN  [path EXCEPT !.dep = dep, !.arr = dep + path.duration,
                   !.sections = [i \in DOMAIN @ |-> [@[i] EXCEPT !.begin = @ + delta, !.end = @ + delta]]]

\* _update_fallback_sections: the crow fly section gives place to the path.
UpdateFallbackSections(e, j, path, date, ap, poi) ==
  LET aligned == Align(e, path, date)
      n == Len(aligned.sections)
      at == IF e = "orig" THEN n ELSE 1
      rest == IF e = "orig" THEN Tail(j.sections) ELSE Front(j.sections)
      vias == {ap, poi} \ {NoObj}
      joined == IF e = "orig" THEN [aligned.sections EXCEPT ![n].to = Head(rest).from, ![n].vias = @ \cup vias]
                ELSE [aligned.sections EXCEPT ![1].from = Last(rest).to, ![1].vias = @ \cup vias]
  IN  [j EXCEPT !.sections = SortSections(rest \o joined)]

\* _build_fallback.  path is what the pool of street paths gave.
BuildFallback(k, e, j, mode, fb, free, path) ==
  LET here == Requested(k, e)
      stop == PtObject(e, j)
      element == Lookup(fb[mode], stop, Element(Inf, "none"))
      ap == IF mode = "car" THEN NoObj ELSE element.ap
      poi == IF mode = "car" THEN NoObj ELSE element.poi
      extended == IF mode = "car" THEN ExtendWithCarPark(e, path, stop, element.park, element.parkd, k.req.car_park_duration)
                  ELSE ExtendWithAccessPoint(e, path, ap, Lookup(k.point, ap, [traversal |-> 0]).traversal)
      moved == IF stop = here THEN j
               ELSE IF stop \in free.odt THEN MovedTo(e, j, here)
               ELSE IF CrowflyNeeded(stop, fb[mode], free.crowfly, path) THEN j
               ELSE UpdateFallbackSections(e, j, extended, PtDate(e, j), ap, poi)
  IN  SetBound(e, moved)

\* The key of the street path that _build_fallback looks up.
PathKey(k, e, j, mode, fb) ==
  LET stop == PtObject(e, j)
      element == Lookup(fb[mode], stop, Element(Inf, "none"))
      there == IF element.park # NoObj /\ mode = "car" THEN element.park
               ELSE IF element.ap # NoObj /\ mode # "car" THEN element.ap ELSE stop
      here == IF element.poi # NoObj /\ mode # "car" THEN element.poi ELSE Requested(k, e)
      real == get_real_mode(fb, mode, stop, k.req.modes[e])
  IN  <<e, real, here, there, PtDate(e, j)>>

\* What the street network service answers: one section, or for a shared bike
\* the walks around the ride.
StreetPath(k, key) ==
  LET e == key[1] mode == key[2]
      d == Lookup(k.path, <<mode, key[3], key[4]>>, NoPath)
      ends == RouteParams(e, key[3], key[4])
      begin == IF e = "orig" THEN key[5] - d ELSE key[5]
      one == Section("street_network", mode, ends[1], ends[2], begin, begin + d)
      bss == <<Section("street_network", "walking", ends[1], "station", begin, begin + 1),
               Section("street_network", "bss", "station", ends[2], begin + 1, begin + d)>>
  IN  IF d <= 0 THEN [sections |-> <<>>, duration |-> 0, dep |-> 0, arr |-> 0]
      ELSE [sections |-> IF mode = "bss" /\ d > 1 THEN bss ELSE <<[one EXCEPT !.mode = IF mode = "bss" THEN "walking" ELSE mode]>>,
            duration |-> d, dep |-> begin, arr |-> begin + d]
NoStreetPath == [sections |-> <<>>, duration |-> 0, dep |-> 0, arr |-> 0]
PureWalking(path) == Len(path.sections) = 1 /\ path.sections[1].mode = "walking"

\* The path of a transfer (TransferPool): between two modes of the street it is
\* direct; when one of them has stations, it goes by one of their exits or
\* entrances, the best that the matrix reaches.
NoAccessModes == {"bus", "tram"}
AccessModes == {"metro", "train"}
UnderlyingAccessPoints(k, tr) ==
  IF tr.prev \in AccessModes THEN {ap \in k.stop[tr.from].points : k.point[ap].exit}
  ELSE {ap \in k.stop[tr.to].points : k.point[ap].entrance}
determinate_the_best_access_point(k, points) ==
  LET reached == {ap \in points : k.transfer[ap] >= 0}
      total(ap) == k.transfer[ap] + k.point[ap].traversal
  IN  IF reached = {} THEN NoObj ELSE CHOOSE ap \in reached : \A b \in reached : total(ap) <= total(b)
Transfer(via) == [found |-> TRUE, via |-> via, raises |-> FALSE]
NoTransfer == [found |-> FALSE, via |-> NoObj, raises |-> FALSE]
TransferPath(k, tr) ==
  LET points == UnderlyingAccessPoints(k, tr)
      best == IF Cardinality(points) = 1 THEN CHOOSE ap \in points : TRUE ELSE determinate_the_best_access_point(k, points)
  IN  CASE tr.prev \in NoAccessModes /\ tr.next \in NoAccessModes -> Transfer(NoObj)
        [] points = {} \/ (Cardinality(points) > 1 /\ \A ap \in points : k.transfer[ap] = Unreached) -> NoTransfer
        \* a place that could not be projected is not unreached, and is not chosen
        [] best = NoObj -> [NoTransfer EXCEPT !.raises = TRUE]
        [] OTHER -> Transfer(best)
Handled(prev, next) ==
  {prev, next} \cap NoAccessModes # {} /\ {prev, next} \subseteq NoAccessModes \cup AccessModes

\* tag_LEZ is left out; a journey is whole when each section begins where and
\* when the one before it ends, from the origin to the destination.
Whole(k, j) ==
  /\ \A i \in 2..Len(j.sections) : /\ j.sections[i-1].to = j.sections[i].from
                                   /\ j.sections[i-1].end = j.sections[i].begin
  /\ j.dep = Head(j.sections).begin /\ j.arr = Last(j.sections).end
=============================================================================
