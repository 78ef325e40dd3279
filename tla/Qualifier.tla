------------------------------ MODULE Qualifier ------------------------------
(***************************************************************************)
(* Journeys as the scenarios of jormungandr compare them: the criteria of  *)
(* qualifier.py, the sorters and tables of scenarios/utils.py, and the     *)
(* types that new_default.py gives to the journeys of an answer.           *)
(*                                                                         *)
(* A journey is a record: dep, arr, duration, transfers, sections, tags,   *)
(* type, dead (tagged to_delete), tickets, co2, disrupted, resp.  A        *)
(* section is a record: type, mode, line, vj, from, to, duration, begin,   *)
(* end, physical, info (on demand).                                        *)
(***************************************************************************)
EXTENDS Integers, Sequences, FiniteSets, FiniteSetsExt, SequencesExt

PtTypes == {"PUBLIC_TRANSPORT", "ON_DEMAND_TRANSPORT"}
SnTypes == {"STREET_NETWORK", "CROW_FLY"}

\* The sum of the durations of the sections that satisfy a test.
SumOver(j, Test(_)) ==
  FoldLeft(LAMBDA sum, s : IF Test(s) THEN sum + s.duration ELSE sum, 0, j.sections)
AnySection(j, Test(_)) == \E k \in DOMAIN j.sections : Test(j.sections[k])

get_fallback_duration(j) ==
  SumOver(j, LAMBDA s : s.type \notin PtTypes \cup {"WAITING", "boarding", "landing"})
has_fall_back_mode(j, mode) == AnySection(j, LAMBDA s : s.type \in SnTypes /\ s.mode = mode)
has_bss(j) == AnySection(j, LAMBDA s : s.type = "BSS_RENT")
has_pt(j) == AnySection(j, LAMBDA s : s.type \in PtTypes)

\* 1 when the first is smaller (better), -1 when it is larger.
compare_minus(a, b) == IF b > a THEN 1 ELSE IF b < a THEN -1 ELSE 0
nonTC_crit(a, b) == compare_minus(get_fallback_duration(a), get_fallback_duration(b))
comfort_crit(a, b) ==
  LET transfer == compare_minus(a.transfers, b.transfers)
  IN  IF transfer # 0 /\ has_pt(a) /\ has_pt(b) THEN transfer ELSE nonTC_crit(a, b)
Crit(name, a, b) ==
  CASE name = "arrival" -> compare_minus(a.arr, b.arr)
    [] name = "departure" -> compare_minus(b.dep, a.dep)
    [] name = "duration" -> compare_minus(a.duration, b.duration)
    [] name = "transfers" -> compare_minus(a.transfers, b.transfers)
    [] name = "nonTC" -> nonTC_crit(a, b)
    [] name = "comfort" -> comfort_crit(a, b)

\* The first criterion that answers.
Decision(criteria, a, b) ==
  FoldLeft(LAMBDA val, c : IF val # 0 THEN val ELSE Crit(c, a, b), 0, criteria)

\* The index of the best journey among the indexes, 0 if there is none.
min_from_criteria(js, indexes, criteria) ==
  FoldLeft(LAMBDA best, i : IF best = 0 THEN i ELSE IF Decision(criteria, js[i], js[best]) > 0 THEN i ELSE best,
           0, indexes)

Indexes(js) == [i \in 1 .. Len(js) |-> i]
Those(js, Test(_)) == SelectSeq(Indexes(js), LAMBDA i : Test(js[i]))
BestCrit(clockwise) == IF clockwise THEN "arrival" ELSE "departure"
get_ASAP_journey(js, indexes, clockwise) ==
  min_from_criteria(js, indexes, <<BestCrit(clockwise), "duration", "transfers", "nonTC">>)
-----------------------------------------------------------------------------
\* ArrivalJourneySorter and DepartureJourneySorter, with sort_by_duration_and_transfert: the
\* keys of a journey in lexicographic order.
NonPtDuration(j) == SumOver(j, LAMBDA s : s.type \notin PtTypes)
SortKey(j, order, clockwise) ==
  << CASE order = "arrival_time" /\ clockwise -> j.arr
       [] order = "arrival_time" /\ ~clockwise -> -j.dep
       [] order = "departure_time" /\ clockwise -> j.dep
       [] OTHER -> -j.arr,
     j.duration, j.transfers, NonPtDuration(j) >>
Smaller(a, b) == \E k \in DOMAIN a : a[k] < b[k] /\ \A l \in 1 .. k - 1 : a[l] = b[l]

\* A stable sort.
sort_journeys(js, order, clockwise) ==
  LET key(i) == SortKey(js[i], order, clockwise)
      before(i, k) == Smaller(key(i), key(k)) \/ (key(i) = key(k) /\ i < k)
      sorted == SortSeq(Indexes(js), before)
  IN  [i \in DOMAIN js |-> js[sorted[i]]]

get_pseudo_duration(j, datetime, clockwise) == IF clockwise THEN j.arr - datetime ELSE datetime - j.dep
-----------------------------------------------------------------------------
\* type_journeys: every journey is "rapid", then the best of each characteristic takes its
\* name in turn, and the ASAP journey is "best" at last.
HasCar(j) == has_fall_back_mode(j, "Car")
HasBike(j) == has_fall_back_mode(j, "Bike")
Meets(j, name) ==
  CASE name \in {"comfort", "fastest"} -> ~HasCar(j)
    [] name = "car" -> HasCar(j) /\ has_pt(j)
    [] name = "less_fallback_walk" -> ~HasCar(j) /\ ~HasBike(j)
    [] name = "less_fallback_bike" -> ~HasCar(j) /\ HasBike(j) /\ ~has_bss(j)
    [] name = "less_fallback_bss" -> ~HasCar(j) /\ has_bss(j)
    [] name = "non_pt_walk" -> ~has_pt(j) /\ ~HasCar(j) /\ has_fall_back_mode(j, "Walking")
    [] name = "non_pt_bike" -> ~has_pt(j) /\ ~HasCar(j) /\ HasBike(j)
    [] name = "non_pt_bss" -> ~has_pt(j) /\ ~HasCar(j) /\ has_bss(j)
    [] name = "non_pt_car" -> ~has_pt(j) /\ HasCar(j)
trip_caracs(best) ==
  << <<"comfort", <<"comfort", best, "duration">> >>,
     <<"car", <<best, "transfers", "nonTC", "duration">> >>,
     <<"less_fallback_walk", <<"nonTC", "transfers", "duration", best>> >>,
     <<"less_fallback_bike", <<"nonTC", "transfers", "duration", best>> >>,
     <<"less_fallback_bss", <<"nonTC", "transfers", "duration", best>> >>,
     <<"fastest", <<"duration", "transfers", "nonTC", best>> >>,
     <<"non_pt_walk", <<best>> >>, <<"non_pt_bike", <<best>> >>,
     <<"non_pt_bss", <<best>> >>, <<"non_pt_car", <<best>> >> >>
Typed(js, i, name) == IF i = 0 THEN js ELSE [js EXCEPT ![i].type = name]

type_journeys(js, clockwise) ==
  LET rapid == [i \in DOMAIN js |-> [js[i] EXCEPT !.type = "rapid"]]
      give(typed, c) == Typed(typed, min_from_criteria(js, Those(js, LAMBDA j : Meets(j, c[1])), c[2]), c[1])
      typed == FoldLeft(give, rapid, trip_caracs(BestCrit(clockwise)))
  IN  Typed(typed, get_ASAP_journey(js, Indexes(js), clockwise), "best")
=============================================================================
