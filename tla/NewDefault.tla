----------------------------- MODULE NewDefault -----------------------------
(***************************************************************************)
(* The scenario new_default of jormungandr: fill_journeys calls kraken for *)
(* each pair of fallback modes, several times, filters and merges what     *)
(* comes, and chooses the journeys of the answer.  Kraken is external: a   *)
(* call gives any response of Responses, and the responses of one round    *)
(* come in any order.                                                      *)
(***************************************************************************)
EXTENDS JourneyCulling

CONSTANTS
  Requests,     \* the requests
  Instance,     \* the defaults of the instance
  Responses,    \* what a call may give: [journeys, error, next]
  MaxCalls      \* MAX_JOURNEYS_CALLS

VARIABLES
  req, pc, calls,
  pending,      \* calls of the round that have not answered
  date,         \* next request: "first", "next" or "none"
  tries, qualified, previously, lastChance, minCalls,
  journeys,     \* of all responses, in order; resp is the number of the response
  errors,       \* of the responses, in order
  dates,        \* the round brought a date for a next request
  fresh,        \* the number of journeys before the round
  merged,       \* the journeys of all responses, sorted
  ranked,       \* the typed journeys, before culling
  answer
loop == <<pending, date, tries, qualified, previously, lastChance, minCalls, dates, fresh>>
vars == <<req, pc, calls, loop, journeys, errors, merged, ranked, answer>>
NoAnswer == [journeys |-> <<>>, tickets |-> {}, error |-> "none", links |-> {}]
NoMax == 1000    \* max_nb_journeys absent
-----------------------------------------------------------------------------
\* FallbackModes.get_allowed_combinations_enum.
Modes == {"walking", "bike", "bss", "car", "car_no_park", "ridesharing", "taxi"}
AllowedCombinations ==
  (((Modes \ {"ridesharing"}) \X {"walking", "bss", "taxi"}) \ {<<"walking", "bss">>, <<"bss", "walking">>})
  \cup ({"ridesharing"} \X {"bss", "walking", "taxi"}) \cup ({"bss", "walking", "taxi"} \X {"ridesharing"})
  \cup {<<"bike", "bike">>}

\* get_kraken_calls: {} stands for the 404 of modes that cannot be combined.
get_kraken_calls(r) ==
  LET dep == Range(r.origin_mode) arr == Range(r.destination_mode)
      alone(modes) == {<<m, m, "only">> : m \in modes}
      single == Len(r.origin_mode) = 1 /\ Len(r.destination_mode) = 1
      combined == IF single THEN dep \X arr ELSE AllowedCombinations \cap (dep \X arr)
      extra == IF r.direct_path = "none" THEN {} ELSE alone(r.direct_path_mode \ dep)
      res == extra \cup {<<c[1], c[2], r.direct_path>> : c \in combined}
      missing == {m \in r.direct_path_mode : ~\E c \in res : c[1] = m /\ c[3] # "none"}
  IN  IF r.direct_path_mode # {} /\ r.direct_path \in {"only", "only_with_alternatives"} THEN alone(r.direct_path_mode)
      ELSE IF combined = {} THEN {}
      ELSE IF single \/ r.direct_path = "none" THEN res
      ELSE res \cup alone(missing)

\* get_entrypoint_detail, and the address of a coordinate.
Found(place, r) ==
  \/ place.coord
  \/ IF place.stop_point THEN "kraken" \in place.known
     ELSE "instance" \in place.known \/ (~r.geocodejson /\ "bragi" \in place.known)

\* updated_request_with_default: a parameter that is absent is that of the instance.
Absent == -1
OrDefault(given, default) == IF given = Absent THEN default ELSE given
updated_request_with_default(r) ==
  [r EXCEPT !.max_waiting = OrDefault(@, Instance.max_waiting), !.max_additional = OrDefault(@, Instance.max_additional),
            !.min_duration = [mode \in DOMAIN @ |-> OrDefault(@[mode], Instance.min_duration[mode])]]

Start ==
  /\ pc = "start"
  /\ LET called == get_kraken_calls(req)
         outcome == IF req.max_nb_journeys <= 0 THEN "empty"
                    ELSE IF ~Found(req.origin, req) \/ ~Found(req.destination, req) THEN "unknown_object"
                    ELSE IF called = {} THEN "not_supported"
                    ELSE "loop"
     IN  pc' = outcome /\ calls' = IF outcome = "loop" THEN called ELSE {}
  /\ minCalls' = req.min_journeys_calls /\ req' = updated_request_with_default(req)
  /\ UNCHANGED <<pending, date, tries, qualified, previously, lastChance, dates, fresh, journeys, errors, merged, ranked, answer>>
-----------------------------------------------------------------------------
MinNb == IF req.min_nb_journeys = 0 THEN 1 ELSE req.min_nb_journeys
MaxNbCalls == Min({MinNb, MaxCalls})

LoopsOn == date # "none" /\ ((qualified < MinNb /\ tries < MaxNbCalls) \/ tries < minCalls)

\* A round begins: the calls are spawned.
CallKraken ==
  /\ pc = "loop" /\ LoopsOn
  /\ pc' = "calling" /\ tries' = tries + 1 /\ pending' = calls
  /\ fresh' = Len(journeys) /\ dates' = FALSE
  /\ UNCHANGED <<req, calls, date, qualified, previously, lastChance, minCalls, journeys, errors, merged, ranked, answer>>

\* switch_back_to_ridesharing: the car section was a ridesharing one.
SwitchedAt(j, k) ==
  IF k \in DOMAIN j.sections /\ j.sections[k].type \in SnTypes /\ j.sections[k].mode = "Car"
  THEN [j EXCEPT !.sections[k].mode = "Ridesharing"] ELSE j
switch_back_to_ridesharing(j, call) ==
  LET first == IF call[1] = "ridesharing" THEN SwitchedAt(j, 1) ELSE j
  IN  IF call[2] = "ridesharing" THEN SwitchedAt(first, Len(j.sections)) ELSE first

\* A journey of a response: the ids of its tickets get the number of the response.
Received(j, call, n) ==
  [switch_back_to_ridesharing(j, call) EXCEPT !.resp = n, !.tickets = {<<t, n>> : t \in @}]

\* create_pb_request: a call for direct paths only allows no time in public transport.
create_pb_request(call) == {r \in Responses : call[3] = "only" => \A k \in DOMAIN r.journeys : ~has_pt(r.journeys[k])}

\* A call answers.
Arrive(call) ==
  /\ pc = "calling" /\ call \in pending /\ pending' = pending \ {call}
  /\ \E r \in create_pb_request(call) :
       /\ journeys' = journeys \o [k \in DOMAIN r.journeys |-> Received(r.journeys[k], call, Len(errors) + 1)]
       /\ errors' = Append(errors, r.error)
       /\ dates' = (dates \/ r.next)
  /\ UNCHANGED <<req, pc, calls, date, tries, qualified, previously, lastChance, minCalls, fresh, merged, ranked, answer>>

\* The exception of a call leaves fill_journeys.
CallFails ==
  /\ pc = "calling" /\ pending # {} /\ pc' = "failed"
  /\ UNCHANGED <<req, calls, loop, journeys, errors, merged, ranked, answer>>
-----------------------------------------------------------------------------
\* tag_journey_by_mode: the mode of most weight.  The section before the first is the last.
Weight(m) == CASE m = "taxi" -> 6 [] m = "ridesharing" -> 5 [] m \in {"car", "car_no_park"} -> 4
               [] m = "bike" -> 3 [] m = "bss" -> 2 [] m = "walking" -> 1
ModeOfSection(j, k, mode) ==
  LET s == j.sections[k] before == j.sections[IF k = 1 THEN Len(j.sections) ELSE k - 1]
  IN  CASE s.type = "BSS_RENT" \/ (s.type = "CROW_FLY" /\ s.mode = "Bss") -> "bss"
        [] s.type \in SnTypes /\ s.mode = "Bike" /\ before.type # "BSS_RENT" -> "bike"
        [] s.type \in SnTypes /\ s.mode = "Car" -> "car"
        [] s.type \in SnTypes /\ s.mode = "CarNoPark" -> "car_no_park"
        [] s.type \in SnTypes /\ s.mode = "Ridesharing" -> "ridesharing"
        [] s.type \in SnTypes /\ s.mode = "Taxi" -> "taxi"
        [] OTHER -> mode
tag_journey_by_mode(j) ==
  LET heavier(mode, k) == LET m == ModeOfSection(j, k, mode) IN IF Weight(mode) < Weight(m) THEN m ELSE mode
  IN  FoldLeft(heavier, "walking", Indexes(j.sections))

tag_direct_path(j) == IF has_pt(j) THEN {} ELSE {"non_pt"}
is_bike_in_pt_journey(j) ==
  /\ has_pt(j)
  /\ \A k \in DOMAIN j.sections :
       LET s == j.sections[k]
       IN  \/ s.type \in SnTypes /\ s.mode = "Bike"
           \/ s.type \in PtTypes /\ s.info = "bike"
           \/ s.type \in {"boarding", "landing", "WAITING", "TRANSFER", "ALIGHTING"}
is_reliable_journey(j) ==
  /\ ~j.disrupted /\ has_pt(j)
  /\ \A k \in DOMAIN j.sections :
       LET s == j.sections[k]
       IN  (s.type \in SnTypes => s.mode \in {"Bike", "Walking"}) /\ (s.type \in PtTypes => s.physical = "Metro")
Tagged(j) ==
  [j EXCEPT !.tags = @ \cup {tag_journey_by_mode(j)} \cup tag_direct_path(j)
                       \cup (IF is_bike_in_pt_journey(j) THEN {"bike_in_pt"} ELSE {})
                       \cup (IF is_reliable_journey(j) THEN {"reliable"} ELSE {})]

\* The new journeys are compared with each other only.
FilterNewAlone(js, from, r) ==
  LET new == SelectSeq(Alive(js), LAMBDA i : i > from)
      pass == SelectSeq(new, LAMBDA i : filter_journeys(js[i], r))
      filtered == [i \in DOMAIN js |-> IF i > from /\ ~filter_journeys(js[i], r) THEN mark_as_dead(js[i]) ELSE js[i]]
  IN  filter_similar_vj_journeys(filtered, Combinations(pass), r)

\* filter_journeys of the scenario: the new journeys that pass are compared with each
\* other, then with those that were qualified before.
FilterNew(js, from, r) ==
  LET new == SelectSeq(Alive(js), LAMBDA i : i > from)
      old == SelectSeq(Alive(js), LAMBDA i : i <= from)
      pass == SelectSeq(new, LAMBDA i : filter_journeys(js[i], r))
      filtered == [i \in DOMAIN js |-> IF i > from /\ ~filter_journeys(js[i], r) THEN mark_as_dead(js[i]) ELSE js[i]]
  IN  filter_similar_vj_journeys(filtered, Combinations(pass) \o Product(pass, old), r)

\* The new journeys are tagged.  Without any, the loop ends.
TagNew ==
  /\ pc = "calling" /\ pending = {} /\ req.api = "journeys"
  /\ journeys' = [i \in DOMAIN journeys |-> IF i > fresh THEN Tagged(journeys[i]) ELSE journeys[i]]
  /\ pc' = IF \A i \in DOMAIN journeys : i > fresh => journeys[i].dead THEN "final" ELSE "filtering"
  /\ UNCHANGED <<req, calls, loop, errors, merged, ranked, answer>>

\* create_next_kraken_request, and the filters.
Filter ==
  /\ pc = "filtering" /\ pc' = IF req.timeframe THEN "final" ELSE "counting"
  /\ date' = IF dates THEN "next" ELSE "none"
  /\ journeys' = FilterNew(journeys, fresh, req)
  /\ UNCHANGED <<req, calls, pending, tries, qualified, previously, lastChance, minCalls, dates, fresh, errors, merged, ranked, answer>>

\* The end of a round: without one more journey there is a last chance, once.
Collect ==
  /\ pc = "counting"
  /\ LET nb == Len(Alive(journeys)) stuck == previously = nb
     IN  /\ qualified' = nb
         /\ lastChance' = (lastChance \/ stuck)
         /\ pc' = IF stuck /\ lastChance THEN "final" ELSE "loop"
         /\ previously' = nb
         /\ minCalls' = IF nb = 0 /\ pc' = "loop" THEN Max({minCalls, 2}) ELSE minCalls
  /\ UNCHANGED <<req, calls, pending, date, tries, dates, fresh, journeys, errors, merged, ranked, answer>>

EndLoop ==
  /\ pc = "loop" /\ ~LoopsOn /\ pc' = "final"
  /\ UNCHANGED <<req, calls, loop, journeys, errors, merged, ranked, answer>>
-----------------------------------------------------------------------------
\* merge_responses drops the responses with an error.
Merged(js) == SelectSeq(js, LAMBDA j : errors[j.resp] = "none")
MergedError(js) ==
  LET found == Range(errors) \ {"none"}
  IN  IF js # <<>> \/ found = {} THEN "none" ELSE IF Cardinality(found) = 1 THEN CHOOSE e \in found : TRUE ELSE "no_solution"

\* compute_car_co2_emission, before the journeys are deleted; fill_missing_co2_emission and
\* the totals; tag_ecologic.
is_car_direct_path(j) ==
  /\ AnySection(j, LAMBDA s : s.type = "STREET_NETWORK" /\ s.mode \in {"Car", "CarNoPark"})
  /\ \A k \in DOMAIN j.sections : LET s == j.sections[k] IN
       \/ s.type \in {"PARK", "LEAVE_PARKING"}
       \/ s.type = "STREET_NETWORK" /\ s.mode \in {"Walking", "Car", "CarNoPark"}
compute_car_co2_emission(js, r) ==
  LET cars == Those(js, is_car_direct_path)
  IN  IF cars = <<>> \/ js[Head(cars)].co2 = 0 THEN r.crowfly_co2 ELSE js[Head(cars)].co2
FilledCo2(j, r) ==
  IF j.co2 = 0 /\ {"car", "car_no_park"} \cap j.tags # {}
  THEN [j EXCEPT !.co2 = SumOver(j, LAMBDA s : s.type = "STREET_NETWORK" /\ s.mode \in {"Car", "CarNoPark"}) * r.co2_of_car]
  ELSE j
tag_ecologic(j, car) == IF car > 0 /\ 2 * j.co2 < car THEN [j EXCEPT !.tags = @ \cup {"ecologic"}] ELSE j

\* handle_ridesharing_services: offered are the journeys for which an ad is found, raised an
\* exception on the way.
handle_ridesharing_services(js, r, offered, raised) ==
  LET is(j) == "ridesharing" \in j.tags
      asked == "ridesharing" \in Range(r.origin_mode) \cup Range(r.destination_mode)
      decorated == [i \in DOMAIN js |->
                      IF ~is(js[i]) \/ js[i].dead \/ raised THEN js[i]
                      ELSE IF i \in offered THEN [js[i] EXCEPT !.tickets = @ \cup {<<"ad", i>>}]
                      ELSE mark_as_dead(js[i])]
  IN  IF ~r.ridesharing_services \/ ~asked THEN Killing(js, is)
      ELSE IF r.asynchronous_ridesharing /\ ~r.partner_ridesharing THEN Killing(js, is)
      ELSE IF r.partner_ridesharing THEN Killing(decorated, LAMBDA j : ~is(j))
      ELSE decorated

\* The tickets of the journeys that stay, and of the ads.
MergedTickets(js, offered, r) ==
  UNION {js[i].tickets : i \in {i \in DOMAIN js : r.debug \/ ~js[i].dead}} \cup {<<"ad", i>> : i \in offered}

remove_excess_tickets(js, tickets) == tickets \cap UNION {js[i].tickets : i \in DOMAIN js}

\* compute_pagination_links.
Links(js, clockwise) ==
  LET best == min_from_criteria(js, Those(js, has_pt), <<BestCrit(clockwise), "duration", "transfers", "nonTC">>)
  IN  IF js = <<>> THEN {}
      ELSE (IF best = 0 THEN {} ELSE {<<"next", js[best].dep + 1>>, <<"prev", js[best].arr - 1>>})
           \cup {<<"first", Min({js[i].dep : i \in DOMAIN js})>>, <<"last", Max({js[i].arr : i \in DOMAIN js})>>}

\* The final filters; the journeys of the responses are merged and sorted.
FinallyFiltered(js, r) ==
  apply_final_journey_filters_post_finalize(
    filter_olympic_site_by_min_pt_duration(apply_final_journey_filters(js, r), r), r)
Merge ==
  /\ pc = "final" /\ pc' = "merged"
  /\ merged' = sort_journeys(Merged(FinallyFiltered(journeys, req)), req.journey_order, req.clockwise)
  /\ UNCHANGED <<req, calls, loop, journeys, errors, ranked, answer>>

\* The ads of ridesharing; the journeys that stay get their types, and the tickets are
\* those of the journeys that stay before and after.
Rideable == {i \in DOMAIN merged : req.ridesharing_services /\ "ridesharing" \in merged[i].tags /\ ~merged[i].dead}
Rank ==
  /\ pc = "merged" /\ pc' = "ranked"
  /\ \E raised \in {FALSE, req.ridesharing_services}, offered \in SUBSET Rideable :
       /\ ranked' = type_journeys(delete_journeys(handle_ridesharing_services(merged, req, offered, raised), req), req.clockwise)
       /\ answer' = [answer EXCEPT !.tickets = MergedTickets(merged, offered, req)]
  /\ UNCHANGED <<req, calls, loop, journeys, errors, merged>>

\* The end: culling, emissions, tickets and links.
Finish ==
  /\ pc = "ranked" /\ pc' = "done"
  /\ \E culled \in {culling_journeys(ranked, req)} :
       answer' = [journeys |-> [i \in DOMAIN culled |-> tag_ecologic(FilledCo2(culled[i], req), compute_car_co2_emission(merged, req))],
                  error |-> MergedError(merged), links |-> Links(culled, req.clockwise),
                  tickets |-> remove_excess_tickets(culled, answer.tickets)]
  /\ UNCHANGED <<req, calls, loop, journeys, errors, merged, ranked>>

\* isochrone: the responses of one round are merged, without filter, and cut.
Isochrone ==
  /\ pc = "calling" /\ pending = {} /\ req.api = "isochrone" /\ pc' = "done"
  /\ merged' = Merged(journeys)
  /\ answer' = [NoAnswer EXCEPT !.journeys = IF req.debug THEN Merged(journeys)
                                             ELSE SubSeq(Merged(journeys), 1, Min({req.max_nb_journeys, Len(Merged(journeys))})),
                                !.error = MergedError(Merged(journeys)), !.tickets = MergedTickets(Merged(journeys), {}, req)]
  /\ UNCHANGED <<req, calls, loop, journeys, errors, ranked>>

Init ==
  /\ req \in Requests /\ pc = "start" /\ calls = {}
  /\ pending = {} /\ date = "first" /\ tries = 0 /\ qualified = 0 /\ previously = 0
  /\ lastChance = FALSE /\ minCalls = 1 /\ dates = FALSE /\ fresh = 0
  /\ journeys = <<>> /\ errors = <<>> /\ merged = <<>> /\ ranked = <<>> /\ answer = NoAnswer
Stopped == {"empty", "unknown_object", "not_supported", "failed", "done"}
Done == pc \in Stopped /\ UNCHANGED vars
Next ==
  \/ Start \/ CallKraken \/ (\E call \in calls : Arrive(call)) \/ CallFails
  \/ TagNew \/ Filter \/ Collect \/ EndLoop \/ Merge \/ Rank \/ Finish \/ Isochrone
  \/ Done
Spec == Init /\ [][Next]_vars
-----------------------------------------------------------------------------
Answered == pc = "done"
Plain == Answered /\ ~req.debug /\ req.api = "journeys"

\* Types.
TypeOK ==
  /\ pc \in {"start", "loop", "calling", "filtering", "counting", "final", "merged", "ranked"} \cup Stopped /\ pending \subseteq calls
  /\ tries \in Nat /\ fresh \in 0 .. Len(journeys) /\ date \in {"first", "next", "none"}
  /\ \A i \in DOMAIN journeys : journeys[i].resp \in DOMAIN errors /\ journeys[i].dead \in BOOLEAN
  /\ Cardinality(Range(answer.journeys)) <= Len(journeys)

\* The answer has at most max_nb_journeys journeys (fill_journeys, culling_journeys).
AnswerIsBounded == Answered /\ ~req.debug => Len(answer.journeys) <= req.max_nb_journeys

\* An answer that is not empty has its best journey and only one of them, whatever is
\* culled; no journey of the answer is ahead of it.
BestIsKept ==
  Plain /\ answer.journeys # <<>> =>
    LET best == {i \in DOMAIN answer.journeys : answer.journeys[i].type = "best"}
    IN  /\ Cardinality(best) = 1
        /\ \A i \in DOMAIN answer.journeys, b \in best :
             IF req.clockwise THEN answer.journeys[b].arr <= answer.journeys[i].arr
             ELSE answer.journeys[b].dep >= answer.journeys[i].dep

\* A journey that passes the filters of the request is never lost for nothing: the
\* comparisons of journeys between calls and the final filters leave one of them at least.
\* (A request for ridesharing or for car only has filters on top.)
NothingLost ==
  /\ Plain
  /\ \E i \in DOMAIN journeys : filter_journeys(journeys[i], req) /\ errors[journeys[i].resp] = "none"
  /\ \A i \in DOMAIN journeys : "ridesharing" \notin journeys[i].tags
  /\ req.origin_mode # <<"car">> /\ ~req.olympic.applicable
  => answer.journeys # <<>>

\* No two journeys of the answer use the same vehicles with the same fallback modes,
\* whatever calls they came from and in whatever order (filter_similar_vj_journeys).
NoTwins ==
  Plain => \A i, k \in DOMAIN answer.journeys :
    i < k => \/ Compared(answer.journeys[i], "vj") # Compared(answer.journeys[k], "vj")
             \/ "olympics" \in answer.journeys[i].tags \cup answer.journeys[k].tags

\* The tickets of the answer are those of its journeys: none is missing and none is left
\* from the journeys that were removed.
TicketsMatch == Plain => answer.tickets = UNION {answer.journeys[i].tickets : i \in DOMAIN answer.journeys}

\* Kraken is called a bounded number of times: what the request asks, or twice when the
\* first round brings nothing.
CallsBounded == tries <= Max({MaxNbCalls, req.min_journeys_calls, 2})

\* The culled answer covers as many sections as any choice of its size among all the
\* journeys that were ranked, and no choice of aggregated journeys that covers as much has
\* fewer sections (the journeys to keep are in all of them).
CullingIsOptimal ==
  LET nb == req.max_nb_journeys
      must == {i \in DOMAIN ranked : MustKeep(ranked[i])}
      aggregated == aggregate_journeys(ranked)
      choices(S) == {c \in kSubset(nb, S) : must \subseteq c}
      answers == DOMAIN answer.journeys
  IN  Plain /\ nb < Len(aggregated) /\ Cardinality(must) < nb =>
        /\ \A c \in choices(DOMAIN ranked) :
             Cardinality(Covered(ranked, c)) <= Cardinality(Covered(answer.journeys, answers))
        /\ \A c \in choices(Range(aggregated)) :
             Cardinality(Covered(ranked, c)) = Cardinality(Covered(answer.journeys, answers))
               => NbSections(ranked, c) >= NbSections(answer.journeys, answers)

\* Every combination is generated once (gen_all_combin).
CombinationsComplete ==
  Answered => \A t \in 1 .. 3 :
    LET n == Len(ranked) all == gen_all_combin(n, t)
    IN  /\ Len(all) = Cardinality(Range(all))
        /\ {Range(all[k]) : k \in DOMAIN all} = (IF n <= t THEN {1 .. n} ELSE kSubset(t, 1 .. n))

\* The modes of direct_path_mode are all asked, and no pair of modes is asked twice
\* (get_kraken_calls).
CallsCoverModes ==
  pc = "calling" =>
    /\ req.direct_path # "none" => \A m \in req.direct_path_mode : \E c \in calls : c[1] = m
    /\ \A c, d \in calls : c[1] = d[1] /\ c[2] = d[2] => c = d

=============================================================================
