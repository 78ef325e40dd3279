---------------------------- MODULE JourneyFilter ----------------------------
(***************************************************************************)
(* The filters of journey_filter.py.  They work by side effect on lists of *)
(* journeys: here each is a function from the sequence of all journeys to  *)
(* the same sequence with more of them marked dead.  req is the request    *)
(* with the defaults of its instance; an absent limit is NoLimit.          *)
(***************************************************************************)
EXTENDS Qualifier

NoLimit == 0
mark_as_dead(j) == [j EXCEPT !.dead = TRUE]
Killing(js, Doomed(_)) == [i \in DOMAIN js |-> IF Doomed(js[i]) THEN mark_as_dead(js[i]) ELSE js[i]]
Alive(js) == Those(js, LAMBDA j : ~j.dead)

\* In debug mode the filters see all journeys, else those that are not to be deleted.
Generated(js, req) == IF req.debug THEN Indexes(js) ELSE Alive(js)
delete_journeys(js, req) == IF req.debug THEN js ELSE SelectSeq(js, LAMBDA j : ~j.dead)
-----------------------------------------------------------------------------
\* FilterTooShortHeavyJourneys: a heavy mode used for less than its minimum, except on a
\* shared bike and for a bike direct path.
DurationOf(j, mode) == SumOver(j, LAMBDA s : s.type \in SnTypes /\ s.mode = mode)
OnBss(j, k) ==
  LET last == SelectLastInSubSeq(j.sections, 1, k, LAMBDA s : s.type \in {"BSS_RENT", "BSS_PUT_BACK"})
  IN  last # 0 /\ j.sections[last].type = "BSS_RENT"
TooShortHeavy(j, req) ==
  /\ ~(Len(j.sections) = 1 /\ j.sections[1].mode = "Bike")
  /\ \E k \in DOMAIN j.sections :
       LET s == j.sections[k]
       IN  /\ s.type \in {"STREET_NETWORK", "BSS_RENT", "BSS_PUT_BACK"} /\ ~OnBss(j, k)
           /\ s.mode \in {"Car", "Taxi", "Ridesharing", "Bike"}
           /\ DurationOf(j, s.mode) < req.min_duration[s.mode]

TooLongWaiting(j, req) ==
  /\ j.transfers # 0 /\ j.duration >= req.max_waiting
  /\ AnySection(j, LAMBDA s : s.type = "WAITING" /\ s.duration >= req.max_waiting)

\* A run of the limited mode that is too long is not forgotten by what follows it.
TooManySuccessive(j, req) ==
  LET count(n, s) == IF s.type \notin PtTypes THEN n
                     ELSE IF s.physical = req.limited_mode THEN n + 1
                     ELSE IF n <= req.max_successive THEN 0 ELSE n
  IN  FoldLeft(count, 0, j.sections) > req.max_successive

TooFewTransfers(j, req) == j.transfers < req.min_nb_transfers

WrongDirectPath(j, req) ==
  \/ req.direct_path = "none" /\ "non_pt" \in j.tags
  \/ req.direct_path \in {"only", "only_with_alternatives"} /\ "non_pt" \notin j.tags
WrongDirectPathMode(j, req) ==
  req.direct_path_mode # {} /\ "non_pt" \in j.tags /\ j.tags \cap req.direct_path_mode = {}
TooLongDirectPath(j, req) == "non_pt" \in j.tags /\ j.duration >= req.max_direct_path

\* The filters of a new journey, composed.
filter_journeys(j, req) ==
  /\ ~TooShortHeavy(j, req) /\ ~TooLongWaiting(j, req) /\ ~TooFewTransfers(j, req)
  /\ req.distributed => ~TooLongDirectPath(j, req)
  /\ req.max_successive # NoLimit => ~TooManySuccessive(j, req)
  /\ ~WrongDirectPath(j, req) /\ ~WrongDirectPathMode(j, req)
-----------------------------------------------------------------------------
\* What two journeys have in common to be similar: the values of the generators.
IsPark(j, k) ==
  k \in DOMAIN j.sections /\ j.sections[k].type \in {"PARK", "LEAVE_PARKING", "BSS_PUT_BACK", "BSS_RENT"}
is_walk_after_parking(j, k) ==
  /\ j.sections[k].type = "STREET_NETWORK" /\ j.sections[k].mode = "Walking"
  /\ IsPark(j, k - 1) \/ IsPark(j, k + 1)
similar_journeys_generator(j, Pt(_), Sn(_), CrowFly(_)) ==
  IF "non_pt" \in j.tags
  THEN [k \in DOMAIN j.sections |-> <<j.sections[k].mode, j.sections[k].type, j.tags>>]
  ELSE LET kept == Those(j.sections, LAMBDA s : s.type \in PtTypes \cup SnTypes)
           compared == SelectSeq(kept, LAMBDA k : ~is_walk_after_parking(j, k))
           value(s) == IF s.type \in PtTypes THEN Pt(s) ELSE IF s.type = "STREET_NETWORK" THEN Sn(s) ELSE CrowFly(s)
       IN  [n \in DOMAIN compared |-> value(j.sections[compared[n]])]
sn_functor(s) == <<"sn", s.mode>>
similar_pt_section_vj(s) == <<"pt", s.vj>>
similar_pt_section_line(s) == <<"pt", s.line>>
detailed_pt_section_vj(s) == <<"pt", s.vj, s.begin, s.end>>
bss_walking_sn_functor(s) == <<"m", s.duration, IF s.mode = "Bss" THEN "Walking" ELSE s.mode>>
shared_section_generator(j) ==
  LET pt == Those(j.sections, LAMBDA s : s.type \in PtTypes)
  IN  <<Len(j.sections), [n \in DOMAIN pt |-> <<j.sections[pt[n]].from, j.sections[pt[n]].to>>]>>
Compared(j, by) ==
  CASE by = "vj" -> similar_journeys_generator(j, similar_pt_section_vj, sn_functor, sn_functor)
    [] by = "bss_walking" -> similar_journeys_generator(j, detailed_pt_section_vj, bss_walking_sn_functor, sn_functor)
    [] by = "line" -> similar_journeys_generator(j, similar_pt_section_line, sn_functor, sn_functor)
    [] by = "line_and_crowfly" ->
         similar_journeys_generator(j, similar_pt_section_line, sn_functor, LAMBDA s : <<"crow_fly">>)
    [] by = "shared_section" -> shared_section_generator(j)
compare(a, b, generators) == \E by \in generators : Compared(a, by) = Compared(b, by)
-----------------------------------------------------------------------------
\* _get_worst_similar: pairs of values, the larger is the worst; the first pair that
\* differs decides and the second journey is the worst when none does.
IsSn(s) == s.type \in SnTypes
fallback_duration(j) == SumOver(j, IsSn)
start_fallback_duration(j) ==
  LET k == SelectInSeq(j.sections, IsSn) IN IF k = 0 THEN 0 ELSE j.sections[k].duration
end_fallback_duration(j) ==
  LET k == SelectLastInSeq(j.sections, IsSn) IN IF k = 0 THEN 0 ELSE j.sections[k].duration
get_min_waiting(j) ==
  LET waits == {j.sections[k].duration : k \in {k \in DOMAIN j.sections : j.sections[k].type = "WAITING"}}
  IN  IF waits = {} THEN 0 ELSE Min(waits)
CrowFlyRank(s) == CASE s.mode = "Car" -> 0 [] s.mode = "Taxi" -> 1 [] s.mode = "Bike" -> 2 [] s.mode = "Bss" -> 3
                    [] s.mode = "Walking" -> 4
ModeRank(s) == CASE s.mode = "Car" -> 0 [] s.mode = "Bike" -> 1 [] s.mode = "Walking" -> 3 [] s.mode = "Bss" -> 4
Undecided == <<0, 0>>
CrowFlies(s, t) ==
  IF s.type = "CROW_FLY" /\ t.type = "CROW_FLY" THEN <<-CrowFlyRank(s), -CrowFlyRank(t)>> ELSE Undecided
Fallbacks(s, t) ==
  IF s.type # "STREET_NETWORK" /\ t.type # "STREET_NETWORK" THEN <<ModeRank(s), ModeRank(t)>> ELSE Undecided
Arrivals(a, b) == <<a.arr + end_fallback_duration(a), b.arr + end_fallback_duration(b)>>
Departures(a, b) == <<-(a.dep - start_fallback_duration(a)), -(b.dep - start_fallback_duration(b))>>
Decisions(a, b, clockwise) ==
  << CrowFlies(Head(a.sections), Head(b.sections)), CrowFlies(Last(a.sections), Last(b.sections)),
     IF clockwise THEN Arrivals(a, b) ELSE Departures(a, b),
     IF clockwise THEN Departures(a, b) ELSE Arrivals(a, b),
     <<a.duration, b.duration>>, <<fallback_duration(a), fallback_duration(b)>>,
     <<a.transfers, b.transfers>>, <<-get_min_waiting(a), -get_min_waiting(b)>>,
     Fallbacks(Head(a.sections), Head(b.sections)), Fallbacks(Last(a.sections), Last(b.sections)) >>

FirstIsWorst(a, b, clockwise) ==
  LET pairs == Decisions(a, b, clockwise)
      k == SelectInSeq(pairs, LAMBDA p : p[1] # p[2])
  IN  k # 0 /\ pairs[k][1] > pairs[k][2]

\* The pairs of itertools.combinations and product, in order.
Combinations(s) ==
  FlattenSeq([k \in 1 .. Len(s) |-> [n \in 1 .. Len(s) - k |-> <<s[k], s[k + n]>>]])
Product(s, t) == FlattenSeq([k \in 1 .. Len(s) |-> [n \in 1 .. Len(t) |-> <<s[k], t[n]>>]])

Exempted(a, b, req) == (req.keep_olympics /\ "olympics" \in a.tags) \/ "olympics" \in b.tags

\* The worst of each similar pair dies; a dead journey kills no other.
filter_similar_journeys(js, pairs, req, generators) ==
  LET pair(all, p) ==
        IF p[1] = p[2] \/ all[p[1]].dead \/ all[p[2]].dead \/ Exempted(all[p[1]], all[p[2]], req)
             \/ ~compare(all[p[1]], all[p[2]], generators)
        THEN all
        ELSE [all EXCEPT ![IF FirstIsWorst(all[p[1]], all[p[2]], req.clockwise) THEN p[1] ELSE p[2]].dead = TRUE]
  IN  FoldLeft(pair, js, pairs)
filter_similar_vj_journeys(js, pairs, req) == filter_similar_journeys(js, pairs, req, {"vj", "bss_walking"})
-----------------------------------------------------------------------------
\* filter_odt_journeys: an on demand journey dies if another one is as early (or leaves as
\* late).
contains_odt(j) == AnySection(j, LAMBDA s : s.info = "odt")
filter_odt_journeys(js, req) ==
  LET seen == Range(Generated(js, req))
      pt == {i \in seen : has_pt(js[i]) /\ ~contains_odt(js[i])}
      late(j) == IF req.clockwise THEN j.arr >= Min({js[i].arr : i \in pt}) ELSE j.dep <= Max({js[i].dep : i \in pt})
  IN  IF pt = {} THEN js
      ELSE [i \in DOMAIN js |-> IF i \in seen /\ contains_odt(js[i]) /\ late(js[i]) THEN mark_as_dead(js[i]) ELSE js[i]]

\* More connections than the best public transport journey and the additional ones.
filter_too_much_connections(js, req) ==
  LET seen == Generated(js, req)
      best == get_ASAP_journey(js, SelectSeq(seen, LAMBDA i : "non_pt" \notin js[i].tags), req.clockwise)
      allowed == js[best].transfers + req.max_additional
  IN  IF best = 0 THEN js
      ELSE [i \in DOMAIN js |-> IF i \in Range(seen) /\ js[i].transfers > allowed THEN mark_as_dead(js[i]) ELSE js[i]]

filter_non_car_tagged_journey(js, req) ==
  LET seen == Range(Generated(js, req))
  IN  [i \in DOMAIN js |->
         IF i \in seen /\ js[i].tags # {} /\ "car" \notin js[i].tags THEN mark_as_dead(js[i]) ELSE js[i]]

\* The filters that run once, after all calls to kraken.
Pairwise(js, req, by) == filter_similar_journeys(js, Combinations(Generated(js, req)), req, {by})

FinalFilter(js, req, name) ==
  CASE name = "line" /\ req.final_line_filter -> Pairwise(js, req, "line")
    [] name = "shared_section" /\ req.no_shared_section -> Pairwise(js, req, "shared_section")
    [] name = "odt" /\ req.filter_odt -> filter_odt_journeys(js, req)
    [] name = "connections" -> filter_too_much_connections(js, req)
    [] name = "car" /\ req.origin_mode = <<"car">> -> filter_non_car_tagged_journey(js, req)
    [] OTHER -> js
apply_final_journey_filters(js, req) ==
  FoldLeft(LAMBDA all, name : FinalFilter(all, req, name), js, <<"line", "shared_section", "odt", "connections", "car">>)
apply_final_journey_filters_post_finalize(js, req) ==
  IF req.final_line_filter THEN Pairwise(js, req, "line_and_crowfly") ELSE js
-----------------------------------------------------------------------------
\* A short bus ride at the site, on a line of a network that is not exempted.
filter_olympic_site_by_min_pt_duration(js, req) ==
  LET fromSite == req.olympic.origin /\ ~req.olympic.destination
      section(j) == LET isPt(s) == s.type \in PtTypes
                    IN  IF fromSite THEN SelectInSeq(j.sections, isPt) ELSE SelectLastInSeq(j.sections, isPt)
      short(j) == /\ ~j.dead /\ ~(req.keep_olympics /\ "olympics" \in j.tags) /\ j.transfers # 0 /\ section(j) # 0
                  /\ LET s == j.sections[section(j)]
                     IN  s.physical = "Bus" /\ s.line \notin req.olympic.exempted /\ s.duration <= req.olympic.min_pt_duration
  IN  IF ~req.olympic.applicable \/ req.wheelchair THEN js ELSE Killing(js, short)

=============================================================================
