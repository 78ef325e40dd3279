---------------------------- MODULE Ridesharing -----------------------------
(***************************************************************************)
(* Ridesharing offers (scenarios/ridesharing/): the manager asks every     *)
(* service about every ridesharing section of the journeys, in greenlets   *)
(* or one after the other, turns the offers into journeys with a ticket,   *)
(* and marks the journeys without offer as dead.  Services fail, and their *)
(* breakers are shared by the sections.                                    *)
(***************************************************************************)
EXTENDS Integers, Sequences, FiniteSets, SequencesExt, CircuitBreaker

CONSTANTS
  Services,   \* the services, in order: their arguments
  Ads,        \* service |-> what it offers
  Requests,   \* responses of kraken to decorate: [date, clockwise, pool, journeys]
  WalkTime,   \* distance |-> get_manhattan_duration of the instance
  Present,    \* the time of the requests
  Frame, Delta,          \* timeframe_duration, timedelta
  MinMargin, MaxMargin,  \* margins of blablalines
  Faults      \* how the services fail in this instance

VARIABLES
  req,      \* the response that is decorated
  call,     \* section |-> service |-> the state of its call
  breaker,  \* service |-> its circuit breaker
  tried     \* calls that reached a service

vars == <<req, call, breaker, tried>>

Ids == 1 .. Len(Services)
Class(i) == Services[i].class

-----------------------------------------------------------------------------
(* Offers.  pickup and dropoff are dates, walk1 and walk2 the times to the  *)
(* car and from it, shape1 and shape2 how many points their shapes have.   *)

Rsj(dep, w1, pickup, dropoff, w2, dur) ==
  [departure |-> dep, walk1 |-> w1, pickup |-> pickup, dropoff |-> dropoff, walk2 |-> w2,
   arrival |-> dropoff + w2, duration |-> dur, shape1 |-> 0, shape2 |-> 0, price |-> 0]

\* A price in euros, in cents.
Cents(euros) == euros * 100

-----------------------------------------------------------------------------
(* What the services are asked: rides between two dates, or of a day.      *)

InstantSystemAsks(ext) ==
  IF ext.start THEN [from |-> ext.date, to |-> ext.date + Frame] ELSE [from |-> ext.date - Frame, to |-> ext.date]

\* Blablalines takes no ride that is too near, and is not asked about those
\* that are too far.
BlablalinesAsks(ext) ==
  LET date == IF ext.date < Present + MinMargin THEN Present + MinMargin ELSE ext.date
  IN  [from |-> date - Delta, to |-> date + Delta]
BlablalinesRefuses(i, ext) == Class(i) = "blablalines" /\ ext.date > Present + MaxMargin

KarosAsks(ext) == [from |-> ext.date - Delta, to |-> ext.date + Delta]
KlaxitAsks(ext) == [from |-> ext.date - Delta, to |-> ext.date + Delta]

\* Ouestgo is asked about a day.
OuestgoAsks(ext) == [day |-> ext.day]

Question(i, ext) ==
  CASE Class(i) = "instant_system" -> InstantSystemAsks(ext)
    [] Class(i) = "blablalines" -> BlablalinesAsks(ext)
    [] Class(i) = "karos" -> KarosAsks(ext)
    [] Class(i) = "klaxit" -> KlaxitAsks(ext)
    [] OTHER -> OuestgoAsks(ext)

\* The services answer what they are asked.
AdsOf(i, q) ==
  IF "day" \in DOMAIN q THEN Ads[i]
  ELSE SelectSeq(Ads[i], LAMBDA o : o.pickup = 0 \/ o.pickup \in q.from .. q.to)

-----------------------------------------------------------------------------
(* What is read in the answers                                             *)

\* Instant System: every ridesharing path of a journey is an offer; it gives
\* distances, from which the walks are computed, and prices in cents.
InstantSystemOffers(ads, ext) ==
  LET offer(p) == LET w1 == WalkTime[p.dist1]
                      w2 == WalkTime[p.dist2]
                  IN  [Rsj(p.pickup - w1, w1, p.pickup, p.dropoff, w2, p.dropoff - p.pickup) EXCEPT !.price = p.price]
      paths == FlattenSeq([k \in DOMAIN ads |-> ads[k].paths])
  IN  [k \in 1 .. Len(SelectSeq(paths, LAMBDA p : p.mode = "RIDESHARINGAD")) |->
         offer(SelectSeq(paths, LAMBDA p : p.mode = "RIDESHARINGAD")[k])]

\* Blablalines: no date in the offers, the journey departs at the date of
\* the request.
BlablalinesOffers(ads, ext) ==
  [k \in DOMAIN ads |->
     LET o == ads[k]
     IN  [Rsj(ext.date, o.walk1, ext.date + o.walk1, ext.date + o.walk1 + o.duration, o.walk2, o.duration)
           EXCEPT !.price = Cents(o.price)]]

\* Karos: the date of the driver is the pickup.
KarosOffers(ads, ext) ==
  [k \in DOMAIN ads |->
     LET o == ads[k]
     IN  [Rsj(o.pickup - o.walk1, o.walk1, o.pickup, o.pickup + o.duration, o.walk2, o.duration)
           EXCEPT !.price = Cents(o.price), !.shape1 = o.shape1, !.shape2 = o.shape2]]

\* Klaxit: as karos.
KlaxitOffers(ads, ext) ==
  [k \in DOMAIN ads |->
     LET o == ads[k]
     IN  [Rsj(o.pickup - o.walk1, o.walk1, o.pickup, o.pickup + o.duration, o.walk2, o.duration)
           EXCEPT !.price = Cents(o.price), !.shape1 = o.shape1, !.shape2 = o.shape2]]

\* Ouestgo: the offers of the day, half way between the first and the last
\* pickup, when that is after the date of the request.
get_mean_pickup_datetime(o, day) == IF day \in o.days THEN (o.min + o.max) \div 2 ELSE 0

OuestgoOffers(ads, ext) ==
  LET mean(o) == get_mean_pickup_datetime(o, ext.day)
      kept == SelectSeq(ads, LAMBDA o : mean(o) # 0 /\ mean(o) > ext.date)
  IN  [k \in DOMAIN kept |->
         [Rsj(mean(kept[k]), 0, mean(kept[k]), mean(kept[k]) + kept[k].duration, 0, kept[k].duration)
            EXCEPT !.price = Cents(kept[k].price)]]

make_response(i, ads, ext) ==
  CASE Class(i) = "instant_system" -> InstantSystemOffers(ads, ext)
    [] Class(i) = "blablalines" -> BlablalinesOffers(ads, ext)
    [] Class(i) = "karos" -> KarosOffers(ads, ext)
    [] Class(i) = "klaxit" -> KlaxitOffers(ads, ext)
    [] OTHER -> OuestgoOffers(ads, ext)

-----------------------------------------------------------------------------
(* Calls                                                                   *)

\* What a call of a service gives: offers and its publisher, nothing at all,
\* or an exception that nobody expected.
Offers(i, rsjs) == [is |-> "result", rsjs |-> rsjs, feeds |-> {Services[i].feed}]
NoOffer == [is |-> "result", rsjs |-> <<>>, feeds |-> {}]
Raised == [is |-> "raised"]

\* A service that is known to fail gives nothing, its error is contained.
request_journeys_with_feed_publisher(i, ext, o) ==
  CASE o = "ok" -> Offers(i, make_response(i, AdsOf(i, Question(i, ext)), ext))
    [] o = "malformed" -> Raised
    [] OTHER -> NoOffer

\* Only exceptions of the call count for the breaker.
AfterCall(b, o) == IF o = "timeout" THEN AfterFailure(b, Present) ELSE AfterSuccess(b)

-----------------------------------------------------------------------------
(* The journeys of the offers                                              *)

\* A shape of two points, or none, is as the crow flies.
WalkType(shape) == IF shape \in {0, 2} THEN "crow_fly" ELSE "street_network"

Section(type, b, e, d) == [type |-> type, begin |-> b, end |-> e, duration |-> d]

\* Walk to the car, ride, walk from it.
build_ridesharing_journey(r) ==
  [departure |-> r.departure, arrival |-> r.arrival,
   duration |-> r.walk1 + r.duration + r.walk2, walking |-> r.walk1 + r.walk2,
   fare |-> r.price,
   sections |-> <<Section(WalkType(r.shape1), r.departure, r.pickup, r.walk1),
                  Section("ridesharing", r.pickup, r.dropoff, r.duration),
                  Section(WalkType(r.shape2), r.dropoff, r.arrival, r.walk2)>>]

\* What the services gave about a section, in the order of the services: an
\* exception of one of them, caught above all the calls, leaves nothing.
build_ridesharing_journeys(results) ==
  IF \E i \in DOMAIN results : results[i].is = "raised" THEN [offers |-> <<>>, feeds |-> {}]
  ELSE [offers |-> FlattenSeq([i \in Ids |-> [k \in DOMAIN results[i].rsjs |-> build_ridesharing_journey(results[i].rsjs[k])]]),
        feeds |-> UNION {results[i].feeds : i \in Ids} \ {""}]

\* The date that offers are asked for: that of the request for a direct path,
\* before the public transport for a first section, after it for a last one.
PeriodExtremityOf(r, j, s) ==
  LET sec == r.journeys[j].sections[s]
  IN  IF Len(r.journeys[j].sections) = 1 THEN [date |-> r.date, start |-> r.clockwise, day |-> r.day]
      ELSE IF s = 1 THEN [date |-> sec.end, start |-> FALSE, day |-> r.day]
      ELSE [date |-> sec.begin, start |-> TRUE, day |-> r.day]

\* The sections to ask about: those of the ridesharing journeys that live.
TasksOf(r) ==
  FlattenSeq([j \in DOMAIN r.journeys |->
    IF ~r.journeys[j].ridesharing \/ r.journeys[j].dead THEN <<>>
    ELSE LET S == {s \in DOMAIN r.journeys[j].sections : r.journeys[j].sections[s].mode = "ridesharing"}
         IN  [k \in 1 .. Cardinality(S) |-> <<j, SetToSortSeq(S, <)[k]>>]])

AddedTwice(r, t, got) ==
  LET j == r.tasks[t][1]
      s == r.tasks[t][2]
      fed == [r EXCEPT !.feeds = @ \o SetToSeq(got.feeds), !.added = t]
  IN  IF got.offers = <<>>
      THEN [fed EXCEPT !.journeys[j].dead = TRUE]
      ELSE [fed EXCEPT !.journeys[j].sections[s].offers = @ \o got.offers,
                       !.tickets = @ \o [k \in DOMAIN got.offers |-> [of |-> <<j, s>>, cost |-> got.offers[k].fare]]]

\* A journey with a section without offer dies; the others get offers and
\* their tickets.  A publisher is added once.
add_new_ridesharing_results(r, t, got) ==
  LET j == r.tasks[t][1]
      s == r.tasks[t][2]
      fresh == SetToSeq({f \in got.feeds : f \notin Range(r.feeds)})
      fed == [r EXCEPT !.feeds = @ \o fresh, !.added = t]
  IN  IF got.offers = <<>>
      THEN [fed EXCEPT !.journeys[j].dead = TRUE]
      ELSE [fed EXCEPT !.journeys[j].sections[s].offers = @ \o got.offers,
                       !.tickets = @ \o [k \in DOMAIN got.offers |-> [of |-> <<j, s>>, cost |-> got.offers[k].fare]]]

-----------------------------------------------------------------------------
(* Actions                                                                 *)

decorate_journeys_with_ridesharing_offers ==
  /\ req.pc = "idle"
  /\ \E r \in Requests :
       /\ req' = [pc |-> "run", journeys |-> r.journeys, tasks |-> TasksOf(r), tickets |-> <<>>, feeds |-> <<>>,
                  added |-> 0, pool |-> r.pool, ext |-> [t \in DOMAIN TasksOf(r) |->
                    PeriodExtremityOf(r, TasksOf(r)[t][1], TasksOf(r)[t][2])]]
       /\ call' = [t \in DOMAIN TasksOf(r) |-> [i \in Ids |-> [is |-> "waiting"]]]
  /\ UNCHANGED <<breaker, tried>>

Over(x) == x.is \in {"result", "raised"}

\* In greenlets every call may go; otherwise a section after the other, a
\* service after the other, until one raises.
MayStart(t, i) ==
  \/ req.pool
  \/ t = req.added + 1 /\ \A k \in 1 .. i - 1 : call[t][k].is = "result"

call_service(t, i) ==
  /\ call[t][i].is = "waiting" /\ MayStart(t, i)
  /\ LET cut == BlablalinesRefuses(i, req.ext[t])
         open == ~MayCall(breaker[i], Present)
     IN  /\ call' = [call EXCEPT ![t][i] = CASE cut -> Offers(i, <<>>) [] open -> NoOffer [] OTHER -> [is |-> "calling"]]
         /\ tried' = IF cut \/ open THEN tried ELSE tried \cup {<<t, i>>}
  /\ UNCHANGED <<req, breaker>>

receive(t, i) ==
  /\ call[t][i].is = "calling"
  /\ \E o \in {"ok"} \cup Faults :
       /\ call' = [call EXCEPT ![t][i] = request_journeys_with_feed_publisher(i, req.ext[t], o)]
       /\ breaker' = [breaker EXCEPT ![i] = AfterCall(@, o)]
  /\ UNCHANGED <<req, tried>>

\* The results are added in the order of the sections.
wait_and_get(t) ==
  /\ t = req.added + 1
  /\ \/ \A i \in Ids : Over(call[t][i])
     \/ ~req.pool /\ \E i \in Ids : call[t][i].is = "raised"
  /\ req' = add_new_ridesharing_results(req, t, build_ridesharing_journeys(call[t]))
  /\ UNCHANGED <<call, breaker, tried>>

End ==
  /\ req.pc = "run" /\ req.added = Len(req.tasks)
  /\ req' = [req EXCEPT !.pc = "done"]
  /\ UNCHANGED <<call, breaker, tried>>

\* The next request finds the breakers as this one left them.
Again ==
  /\ req.pc = "done"
  /\ req' = [pc |-> "idle"] /\ call' = <<>> /\ tried' = {}
  /\ UNCHANGED breaker

Init ==
  /\ req = [pc |-> "idle"] /\ call = <<>> /\ tried = {}
  /\ breaker = [i \in Ids |-> Closed]

Work ==
  \/ \E t \in DOMAIN call : (\E i \in Ids : call_service(t, i) \/ receive(t, i)) \/ wait_and_get(t)
  \/ End

Next == decorate_journeys_with_ridesharing_offers \/ Work \/ Again

Spec == Init /\ [][Next]_vars

-----------------------------------------------------------------------------
(* Properties                                                              *)

Done == req.pc = "done"
Alive == {j \in DOMAIN req.journeys : ~req.journeys[j].dead}
OffersOf(t) == req.journeys[req.tasks[t][1]].sections[req.tasks[t][2]].offers

\* The response is being decorated, at a section of it.
TypeOK ==
  /\ req.pc \in {"idle", "run", "done"}
  /\ req.pc # "idle" => req.added \in 0 .. Len(req.tasks)
  /\ \A i \in Ids : breaker[i].fails \in 0 .. FailMax

\* A ridesharing journey that is still alive has an offer for each of its
\* ridesharing sections, whichever services failed.
KeptHasOffers ==
  Done => \A j \in Alive, t \in DOMAIN req.tasks :
    req.tasks[t][1] = j => OffersOf(t) # <<>>

\* A service that is unreachable or answers an error does not take the
\* offers of the others away: what one service gave is in the section.
OthersAreKept ==
  Done => \A t \in DOMAIN req.tasks, i \in Ids :
    /\ call[t][i].is = "result"
    /\ \A k \in Ids : call[t][k].is # "raised"
    => \A k \in DOMAIN call[t][i].rsjs :
         \E n \in DOMAIN OffersOf(t) : OffersOf(t)[n].sections[2].begin = call[t][i].rsjs[k].pickup

\* The offers of a section are in the order of the services, in whatever
\* order they answered.
OffersInOrder ==
  Done => \A t \in DOMAIN req.tasks :
    LET got == OffersOf(t)
        want == FlattenSeq([i \in Ids |-> IF call[t][i].is = "result" THEN call[t][i].rsjs ELSE <<>>])
    IN  got # <<>> => [k \in DOMAIN got |-> got[k].departure] = [k \in DOMAIN want |-> want[k].departure]

\* The three sections of an offer follow each other and their times add up.
OffersAreContinuous ==
  Done => \A t \in DOMAIN req.tasks :
    \A n \in DOMAIN OffersOf(t) :
      LET o == OffersOf(t)[n]
      IN  /\ o.sections[1].begin = o.departure /\ o.sections[3].end = o.arrival
          /\ \A k \in 1 .. 2 : o.sections[k].end = o.sections[k + 1].begin
          /\ \A k \in 1 .. 3 : o.sections[k].end - o.sections[k].begin = o.sections[k].duration
          /\ o.duration = o.arrival - o.departure

\* There is one ticket per offer, at its price, and the publishers are there
\* once.
TicketsMatch ==
  Done =>
    /\ \A t \in DOMAIN req.tasks :
         LET offers == OffersOf(t)
             paid == SelectSeq(req.tickets, LAMBDA x : x.of = req.tasks[t])
         IN  [k \in DOMAIN paid |-> paid[k].cost] = [k \in DOMAIN offers |-> offers[k].fare]
    /\ IsInjective(req.feeds)

\* An open breaker keeps the service out of the next requests.
OpenIsRespected ==
  [][\A t \in DOMAIN call, i \in Ids :
       <<t, i>> \notin tried /\ <<t, i>> \in tried' => ~breaker[i].opened \/ ResetTimeout = 0]_vars

=============================================================================
