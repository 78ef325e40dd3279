----------------------- MODULE StreetNetworkServices ------------------------
(***************************************************************************)
(* The connectors through which jormungandr asks for street network paths  *)
(* and matrices (street_network/): asgard, kraken, valhalla, geovelo, here,*)
(* handimap and andyamo answer; taxi, ridesharing, with_parking and        *)
(* car_with_park wrap another connector; geovelo and andyamo pass a call   *)
(* outside their zone to a backup.  Several callers share the connectors,  *)
(* their circuit breakers and the pool of paths that make_path_key indexes.*)
(* Times are in half seconds in what the services say, in seconds here.    *)
(***************************************************************************)
EXTENDS Integers, Sequences, FiniteSets, SequencesExt, CircuitBreaker

CONSTANTS
  Callers,      \* greenlets that use the connectors
  Args,         \* connector |-> the arguments of its configuration
  Questions,    \* the calls that are made
  Zone,         \* places inside the zone of geovelo and of andyamo
  Modes4Geovelo,\* places that a physical mode with a weight serves
  Time,         \* mode |-> from |-> to |-> seconds, 0 when there is no path
  Traffic,      \* date |-> seconds that traffic adds by car
  ParkTime,     \* place |-> seconds to park there
  Parks,        \* park and ride car parks of the data
  TaxiWaits,    \* [after |-> ..., before |-> ...]: the waits at a taxi
  CarPark,      \* _car_park_duration
  Faults,       \* failures of the services in this instance: codes
  MaxPaths,     \* paths of one request
  MaxPolls,     \* polls of a matrix of HERE within its timeout
  MaxMatrixPoints, \* the most that HERE takes
  MaxNow        \* bound on the clock

VARIABLES
  caller,   \* caller |-> what it is doing
  breaker,  \* connector |-> its circuit breaker
  pool,     \* path key |-> the path that was computed for it
  now,      \* the clock of the breakers
  config    \* connector |-> what it was created with

vars == <<caller, breaker, pool, now, config>>

Invalid == [class |-> "invalid", backup |-> ""]

\* Geovelo has a zone only with a backup, and the other way round.
Geovelo(a) == IF a.zone THEN a ELSE [a EXCEPT !.backup = ""]

\* Andyamo cannot do without a backup, and walks.
Andyamo(a) == IF a.backup = "" \/ a.modes # {"walking"} THEN Invalid ELSE a

\* Handimap walks.
Handimap(a) == IF a.modes # {"walking"} THEN Invalid ELSE a

\* HERE does not take more places than its service does.
Here(a) == [a EXCEPT !.max = IF @ > MaxMatrixPoints THEN MaxMatrixPoints ELSE @]

\* Taxi and ridesharing are connectors of one mode, which they give to the
\* connector they wrap.
TaxiOver(a) == IF a.modes # {"taxi"} THEN Invalid ELSE a
RidesharingOver(a) == IF a.modes # {"ridesharing"} THEN Invalid ELSE a

\* A connector as it is created.
Create(a) ==
  CASE a.class = "geovelo" -> Geovelo(a)
    [] a.class = "andyamo" -> Andyamo(a)
    [] a.class = "handimap" -> Handimap(a)
    [] a.class = "here" -> Here(a)
    [] a.class = "taxi" -> TaxiOver(a)
    [] a.class = "ridesharing" -> RidesharingOver(a)
    [] OTHER -> a

Services == {s \in DOMAIN Args : config[s] # Invalid}
Class(s) == config[s].class
Idle == [pc |-> "idle"]

-----------------------------------------------------------------------------
(* Results: a matrix of one row, a path, no solution, or an exception.     *)

Fail(e) == [is |-> "error", error |-> e]
NoSolution == [is |-> "none"]
Cell(st, d) == [status |-> st, duration |-> d]
Matrix(row) == [is |-> "matrix", row |-> row]
Leg(t, m, b, e) == [type |-> t, mode |-> m, begin |-> b, end |-> e]

\* int(round(x)) and int(x) of a number of half seconds.
Round(h) == (h + 1) \div 2
Trunc(h) == h \div 2

SumSeq(s) == FoldLeft(LAMBDA a, b : a + b, 0, s)

\* The sections of durations ds, one after the other from date.
InRow(ds, m, date) ==
  [i \in 1 .. Len(ds) |-> LET b == date + SumSeq(SubSeq(ds, 1, i - 1))
                          IN  Leg("street", m, b, b + ds[i])]

\* A journey whose date is a departure or an arrival.
Dated(q, dur, ds) ==
  LET dep == IF q.start THEN q.date ELSE q.date - dur
  IN  [is |-> "path", dep |-> dep, arr |-> dep + dur, dur |-> dur,
       sections |-> InRow(ds, q.mode, dep)]

\* Sections pushed off by t seconds.
Shifted(ss, t) == [i \in DOMAIN ss |-> [ss[i] EXCEPT !.begin = @ + t, !.end = @ + t]]

-----------------------------------------------------------------------------
(* Which connector answers                                                 *)

Inside(p) == p \in Zone

\* Geovelo takes a matrix when its centre is in the zone ...
use_this_service_for_sn_matrix(s, q) ==
  config[s].backup # "" =>
    IF Len(q.from) <= Len(q.to) THEN Inside(q.from[1]) ELSE Inside(q.to[1])

\* ... and a path when the end that the traveller chose is.
use_this_service_for_direct_path(s, q) ==
  config[s].backup # "" =>
    CASE q.type = "beginning" -> Inside(q.from[1])
      [] q.type = "ending"    -> Inside(q.to[1])
      [] OTHER                -> Inside(q.from[1]) \/ Inside(q.to[1])

\* Andyamo takes a wheelchair whose matrix has a pair inside the zone ...
dispatch(q) ==
  q.wheelchair /\ \E i \in DOMAIN q.from, j \in DOMAIN q.to :
                     Inside(q.from[i]) /\ Inside(q.to[j])

\* ... or whose path is inside it.
in_andyamo_zone(q) == q.wheelchair /\ Inside(q.from[1]) /\ Inside(q.to[1])

\* The connector that s hands the question to, or s itself.
Forward(s, q) ==
  LET mine == CASE Class(s) = "geovelo" /\ q.api = "matrix" -> use_this_service_for_sn_matrix(s, q)
                [] Class(s) = "geovelo" -> use_this_service_for_direct_path(s, q)
                [] Class(s) = "andyamo" /\ q.api = "matrix" -> dispatch(q)
                [] Class(s) = "andyamo" -> in_andyamo_zone(q)
                [] OTHER -> config[s].backup = ""
  IN  IF mine THEN s ELSE config[s].backup

\* The connectors a question goes through: at most three.
Chain(s, q) ==
  FoldLeft(LAMBDA ss, i : LET t == Forward(Last(ss), q)
                          IN  IF t = Last(ss) THEN ss ELSE Append(ss, t), <<s>>, <<1, 2>>)

\* What valhalla refuses before it calls anything, ...
ValhallaRefuses(q) ==
  CASE q.mode \notin {"walking", "car", "car_no_park", "bike"} -> "InvalidArguments"
    [] Len(q.from) > 1 /\ Len(q.to) > 1 -> "TechnicalError"
    [] OTHER -> ""

\* ... geovelo, ...
GeoveloRefuses(q) ==
  IF q.mode # "bike" \/ (Len(q.from) # 1 /\ Len(q.to) # 1) THEN "InvalidArguments" ELSE ""

\* ... handimap and andyamo, which only check the mode of a path, ...
WalkingRefuses(q) == IF q.api = "path" /\ q.mode # "walking" THEN "InvalidArguments" ELSE ""

\* ... and kraken.
KrakenRefuses(q) == IF Len(q.from) > 1 /\ Len(q.to) > 1 THEN "TechnicalError" ELSE ""

Refusal(s, q) ==
  CASE Class(s) = "valhalla" -> ValhallaRefuses(q)
    [] Class(s) = "geovelo" -> GeoveloRefuses(q)
    [] Class(s) \in {"handimap", "andyamo"} -> WalkingRefuses(q)
    [] Class(s) = "kraken" -> KrakenRefuses(q)
    [] OTHER -> ""

\* Asgard and kraken give no path that the crow already finds too long.
TooFar(s, q) ==
  /\ q.api = "path"
  /\ Class(s) = "asgard" \/ (Class(s) = "kraken" /\ q.type = "direct")
  /\ Time[q.mode][q.from[1]][q.to[1]] > q.max

-----------------------------------------------------------------------------
(* What the services answer                                                *)

\* The question as it is sent: kraken has the places of a matrix from its
\* centre, and the ends of a car path to the destination exchanged.
Asked(s, q) ==
  IF /\ Class(s) = "kraken"
     /\ IF q.api = "matrix" THEN Len(q.from) > 1 ELSE q.mode = "car" /\ q.type = "ending"
  THEN [q EXCEPT !.from = q.to, !.to = q.from] ELSE q

\* HERE gets at most max_matrix_points places on each side.
matrix_payload(s, q) ==
  LET cut(ps) == SubSeq(ps, 1, IF Len(ps) < config[s].max THEN Len(ps) ELSE config[s].max)
  IN  IF Class(s) = "here" /\ q.api = "matrix"
      THEN [q EXCEPT !.from = cut(@), !.to = cut(@)] ELSE q

\* The time of a drive or a walk now; HERE knows the traffic.
TravelTime(s, q, o, d) ==
  LET t == Time[q.mode][o][d]
  IN  IF t # 0 /\ Class(s) = "here" THEN t + Traffic[q.date] ELSE t

\* The times of a matrix, origin by origin.
Times(s, q) ==
  FlattenSeq([i \in 1 .. Len(q.from) |->
               [j \in 1 .. Len(q.to) |-> TravelTime(s, q, q.from[i], q.to[j])]])

\* The ways in which a path of t seconds is cut into legs of half seconds.
LegsOf(s, t) ==
  IF Class(s) \in {"geovelo", "handimap", "andyamo"}
  THEN {<<2 * t>>, <<t, t>>} ELSE {<<2 * t>>}

\* What may come back from the service of s.
Answers(s, q) ==
  LET p    == matrix_payload(s, Asked(s, q))
      t    == TravelTime(s, q, p.from[1], p.to[1])
      bad  == {[code |-> c] : c \in Faults \cap ({"timeout", "exception"}
                 \cup (IF Class(s) \in {"kraken", "asgard"} THEN {"pb_error"} ELSE {"500"}))}
      full == Times(s, p)
  IN  bad \cup
      IF q.api = "matrix"
      THEN {[code |-> "200", row |-> r] : r \in {full, Front(full)}}
           \cup (IF Class(s) = "asgard" THEN {[code |-> "all_excluded"]} ELSE {})
      ELSE IF t = 0 THEN {[code |-> "no_path"]}
      ELSE {[code |-> "200", legs |-> l] : l \in LegsOf(s, t)}

-----------------------------------------------------------------------------
(* How the connectors read an answer                                       *)

\* The exception of a call that was not answered: an error of the API
\* whatever the code, ...
call_geovelo(code) == "TechnicalError"
call_here(code) == "TechnicalError"
call_handimap(code) == "TechnicalError"
call_andyamo(code) == "TechnicalError"

\* ... no response, which the check of the response turns into one, ...
call_valhalla(code) == "None"
valhalla_check_response(r) == IF r = "None" THEN "TechnicalError" ELSE ""

\* ... or, for asgard, what was raised.
call_asgard(code) == code

CallError(s, code) ==
  CASE Class(s) = "here" -> call_here(code)
    [] Class(s) = "geovelo" -> call_geovelo(code)
    [] Class(s) = "handimap" -> call_handimap(code)
    [] Class(s) = "andyamo" -> call_andyamo(code)
    [] Class(s) = "valhalla" -> valhalla_check_response(call_valhalla(code))
    [] OTHER -> call_asgard(code)

Reached(d) == Cell("reached", d)
Unreached == Cell("unreached", -1)

\* Valhalla adds the time to park; it does not know 0.
ValhallaMatrix(s, row) ==
  Matrix([i \in DOMAIN row |-> IF row[i] # 0 THEN Reached(row[i] + config[s].park) ELSE Cell("unknown", -1)])

\* Geovelo must answer for every pair.
GeoveloMatrix(q, row) ==
  IF Len(row) # Len(q.from) * Len(q.to) THEN Fail("UnableToParse")
  ELSE Matrix([i \in DOMAIN row |-> IF row[i] # 0 THEN Reached(row[i]) ELSE Cell("unknown", -1)])

\* A time is compared with the longest duration; a pair without a time is
\* not expected.
Compared(q, row) ==
  IF \E i \in DOMAIN row : row[i] = 0 THEN Fail("TypeError")
  ELSE Matrix([i \in DOMAIN row |-> IF row[i] <= q.max THEN Reached(row[i]) ELSE Unreached])

\* Handimap must answer for every pair too, ...
HandimapMatrix(q, row) ==
  IF Len(row) # Len(q.from) * Len(q.to) THEN Fail("UnableToParse") ELSE Compared(q, row)

\* ... andyamo must repeat the places, but may leave a pair out.
AndyamoMatrix(q, row) == Compared(q, row)

\* As a slip would have it: the pairs are numbered by columns.
HereMatrixByColumn(s, q, row) ==
  LET p == matrix_payload(s, q)
      cell(i, j) == Reached(row[((Len(row) - (i + j - 1)) % Len(row)) + 1])
  IN  Matrix(FlattenSeq([i \in 1 .. Len(p.from) |-> [j \in 1 .. Len(p.to) |-> cell(i, j)]]))

\* HERE numbers the pairs by the places before they were cut.
HereMatrix(s, q, row) ==
  LET p   == matrix_payload(s, q)
      cell(i, j) == LET idx == Len(q.to) * (i - 1) + j - 1
                    IN  IF idx < config[s].max THEN Reached(row[idx + 1]) ELSE Unreached
  IN  IF Len(row) < Len(p.from) * Len(p.to) THEN Fail("TechnicalError")
      ELSE Matrix(FlattenSeq([i \in 1 .. Len(p.from) |-> [j \in 1 .. Len(p.to) |-> cell(i, j)]]))

\* Kraken and asgard answer in the format of the matrix; when every place is
\* excluded asgard's answer becomes one place that is not reached.
KrakenMatrix(a) ==
  CASE a.code = "pb_error" -> Fail("TechnicalError")
    [] a.code = "all_excluded" -> Matrix(<<Unreached>>)
    [] OTHER -> Matrix([i \in DOMAIN a.row |-> IF a.row[i] # 0 THEN Reached(a.row[i]) ELSE Unreached])

MatrixOf(s, q, a) ==
  CASE Class(s) \in {"kraken", "asgard"} -> KrakenMatrix(a)
    [] a.code # "200" -> Fail("TechnicalError")
    [] Class(s) = "valhalla" -> ValhallaMatrix(s, a.row)
    [] Class(s) = "geovelo" -> GeoveloMatrix(q, a.row)
    [] Class(s) = "handimap" -> HandimapMatrix(q, a.row)
    [] OTHER -> AndyamoMatrix(q, a.row)

\* The time to park comes after a drive that begins or is the journey,
\* before one that ends it.
fill_park_section(r, q, park) ==
  IF park = 0 THEN r
  ELSE IF q.type # "ending"
       THEN [r EXCEPT !.sections = Append(@, Leg("park", q.mode, r.arr - park, r.arr))]
       ELSE [r EXCEPT !.sections = <<Leg("leave", q.mode, r.dep, r.dep + park)>> \o
               Shifted(@, park)]

\* Valhalla: whole seconds, and the time to park in the duration.
ValhallaPath(s, q, legs) ==
  LET ds == [i \in DOMAIN legs |-> Trunc(legs[i])]
  IN  fill_park_section(Dated(q, SumSeq(ds) + config[s].park, ds), q, config[s].park)

\* Geovelo truncates the total and each section, ...
GeoveloPath(q, legs) == Dated(q, Trunc(SumSeq(legs)), [i \in DOMAIN legs |-> Trunc(legs[i])])

\* ... handimap rounds them, ...
HandimapPath(q, legs) == Dated(q, Round(SumSeq(legs)), [i \in DOMAIN legs |-> Round(legs[i])])

\* ... and so does andyamo.
AndyamoPath(q, legs) == Dated(q, Round(SumSeq(legs)), [i \in DOMAIN legs |-> Round(legs[i])])

\* HERE: one section; the path to the destination always ends at the date.
HerePath(q, legs) ==
  Dated([q EXCEPT !.start = @ /\ q.type # "ending"], Trunc(SumSeq(legs)), <<Trunc(SumSeq(legs))>>)

\* Kraken's path that was asked the other way round is turned back: its
\* sections end at the arrival, the last one first.
reverse_journeys(s, q, r) ==
  IF Asked(s, q) = q THEN r
  ELSE LET n == Len(r.sections)
           dur(i) == r.sections[i].end - r.sections[i].begin
           after(i) == SumSeq([k \in 1 .. i - 1 |-> dur(k)])
       IN  [r EXCEPT !.sections = [i \in 1 .. n |-> LET k == n + 1 - i
              IN  Leg("street", q.mode, r.arr - after(k) - dur(k), r.arr - after(k))]]

KrakenPath(s, q, legs) ==
  reverse_journeys(s, q, Dated(q, Trunc(SumSeq(legs)), [i \in DOMAIN legs |-> Trunc(legs[i])]))

\* Asgard sets the mode of the first section of a car_no_park path, which
\* raises when there is no journey.
AsgardPath(q, a) ==
  IF a.code # "200" THEN (IF q.mode = "car_no_park" THEN Fail("IndexError") ELSE NoSolution)
  ELSE Dated(q, Trunc(SumSeq(a.legs)), [i \in DOMAIN a.legs |-> Trunc(a.legs[i])])

\* A path of HERE has a mode that its table knows.
HereAnswer(q, a) ==
  CASE a.code # "200" -> NoSolution
    [] q.mode \notin {"walking", "car", "bike", "car_no_park"} -> Fail("KeyError")
    [] OTHER -> HerePath(q, a.legs)

PathOf(s, q, a) ==
  CASE Class(s) = "asgard" -> AsgardPath(q, a)
    [] Class(s) = "here" -> HereAnswer(q, a)
    [] Class(s) = "kraken" /\ a.code # "200" -> NoSolution
    [] Class(s) = "kraken" -> KrakenPath(s, q, a.legs)
    [] Class(s) = "valhalla" /\ a.code = "no_path" -> NoSolution
    [] a.code # "200" -> Fail("TechnicalError")
    [] Class(s) = "valhalla" -> ValhallaPath(s, q, a.legs)
    [] Class(s) = "geovelo" -> GeoveloPath(q, a.legs)
    [] Class(s) = "handimap" -> HandimapPath(q, a.legs)
    [] OTHER -> AndyamoPath(q, a.legs)

-----------------------------------------------------------------------------
(* The connectors that wrap another one                                    *)

\* A section of t seconds after a path, or before a path that ends a journey.
WithSection(r, q, before, after, t) ==
  IF q.type = "ending"
  THEN [r EXCEPT !.dur = @ + t, !.arr = @ + t,
         !.sections = <<Leg(before, q.mode, @[1].begin, @[1].begin + t)>> \o Shifted(@, t)]
  ELSE [r EXCEPT !.dur = @ + t, !.arr = @ + t,
         !.sections = Append(@, Leg(after, q.mode, @[Len(@)].end, @[Len(@)].end + t))]

\* Taxi: a wait after the first ride or before the last, in every place of
\* a matrix, reached or not.
TaxiWrap(q, r) ==
  CASE r.is = "matrix" ->
         LET t == IF Len(q.from) = 1 THEN TaxiWaits.after ELSE TaxiWaits.before
         IN  Matrix([i \in DOMAIN r.row |-> [r.row[i] EXCEPT !.duration = @ + t]])
    [] r.is = "path" /\ q.type # "direct" ->
         WithSection(r, q, "wait", "wait", IF q.type = "beginning" THEN TaxiWaits.after ELSE TaxiWaits.before)
    [] OTHER -> r

\* The places where a car is parked: the other side of the matrix.
ParkedAt(q) == IF Len(q.from) = 1 THEN q.to ELSE q.from

\* A batch of durations: the constant module takes the length of a
\* generator, which raises.
get_parking_duration_in_batch(s, ps) ==
  IF config[s].module = "constant" THEN [error |-> "TypeError"] ELSE [error |-> "", times |-> [i \in DOMAIN ps |-> ParkTime[ps[i]]]]

\* The time to park is added to the reached places, in their order.
additional_parking_time(s, q, row) ==
  LET places == ParkedAt(q)
      n      == IF Len(row) < Len(places) THEN Len(row) ELSE Len(places)
      reach  == SelectSeq([i \in 1 .. n |-> i], LAMBDA i : row[i].status = "reached")
      ds     == get_parking_duration_in_batch(s, [k \in DOMAIN reach |-> places[reach[k]]])
  IN  IF ds.error # "" THEN Fail(ds.error)
      ELSE Matrix([i \in DOMAIN row |->
             IF \E k \in DOMAIN reach : reach[k] = i
             THEN [row[i] EXCEPT !.duration = @ + ds.times[CHOOSE k \in DOMAIN reach : reach[k] = i]]
             ELSE row[i]])

\* WithParking: a section at the car's place of parking.
WithParkingWrap(s, q, r) ==
  CASE r.is = "matrix" /\ r.row # <<>> -> additional_parking_time(s, q, r.row)
    [] r.is = "path" ->
         WithSection(r, q, "leave", "park", ParkTime[IF q.type = "ending" THEN q.from[1] ELSE q.to[1]])
    [] OTHER -> r

Wrap(s, q, r) ==
  CASE Class(s) = "taxi" -> TaxiWrap(q, r)
    [] Class(s) = "with_parking" -> WithParkingWrap(s, q, r)
    [] OTHER -> r

\* A result goes back through the connectors of its chain.
WrapAll(chain, q, r) ==
  FoldRight(LAMBDA s, x : Wrap(s, q, x), SubSeq(chain, 1, Len(chain) - 1), r)

\* HERE's paths depend on the date; every wrapper drops it.
make_path_key(s, q) ==
  <<s, q.mode, q.from[1], q.to[1], q.type,
    IF Class(s) = "here" THEN <<q.date, q.start>> ELSE "any">>

\* Geovelo's places: those of a known physical mode, the heaviest modes
\* first, and not more than it takes.
filter_places_isochrone(s, places) ==
  LET known == SelectSeq(places, LAMBDA p : p \in DOMAIN Modes4Geovelo)
      less(p, r) == Modes4Geovelo[p] < Modes4Geovelo[r]
      sorted == SortSeq(known, less)
  IN  IF Class(s) # "geovelo" THEN places
      ELSE SubSeq(sorted, 1, IF Len(sorted) < config[s].max THEN Len(sorted) ELSE config[s].max)

\* filter_places_isochrone is applied to the side of the matrix with places.
Filtered(s, q) ==
  IF q.api # "matrix" THEN q
  ELSE IF Len(q.from) = 1 THEN [q EXCEPT !.to = filter_places_isochrone(s, @)]
  ELSE [q EXCEPT !.from = filter_places_isochrone(s, @)]

-----------------------------------------------------------------------------
(* Calls                                                                   *)

Init ==
  /\ caller = [c \in Callers |-> Idle]
  /\ config = [s \in DOMAIN Args |-> Create(Args[s])]
  /\ breaker = [s \in Services |-> Closed]
  /\ pool = <<>>
  /\ now = 0

\* A connector with a circuit breaker of its own.
Guarded(s) == Class(s) \in {"asgard", "valhalla", "geovelo", "here", "handimap", "andyamo"}

\* The call of a caller that begins.
Begin(s, q, keep) == [keep EXCEPT !.pc = "chain", !.q = q, !.chain = <<s>>]

Fresh(q) == [pc |-> "", job |-> q, stage |-> "only", q |-> q, chain |-> <<>>,
             res |-> [is |-> "pending"], walk |-> 0, drive |-> NoSolution, polls |-> 0]

\* get_street_network_routing_matrix or direct_path_with_fp of a connector.
Ask(c) ==
  /\ caller[c].pc = "idle" /\ Cardinality(DOMAIN pool) < MaxPaths
  /\ \E q0 \in {x \in Questions : x.s \in Services} :
       LET q   == Filtered(q0.s, q0)
           key == make_path_key(q.s, q)
       IN  caller' = [caller EXCEPT ![c] =
             CASE q.from = <<>> \/ q.to = <<>> -> [Fresh(q) EXCEPT !.pc = "done", !.res = Matrix(<<>>)]
               [] q.api = "path" /\ key \in DOMAIN pool -> [Fresh(q) EXCEPT !.pc = "done", !.res = pool[key]]
               [] Class(q.s) = "car_with_park" /\ q.api = "path" /\ q.type = "direct" ->
                    [Fresh(q) EXCEPT !.pc = "parks"]
               [] OTHER -> Begin(q.s, q, Fresh(q))]
  /\ UNCHANGED <<breaker, pool, now, config>>

Target(c) == caller[c].chain[Len(caller[c].chain)]

\* The connectors hand the question on.
Resolve(c) ==
  /\ caller[c].pc = "chain"
  /\ caller' = [caller EXCEPT ![c].pc = "check", ![c].chain = Chain(@[1], caller[c].q)]
  /\ UNCHANGED <<breaker, pool, now, config>>

\* The last one refuses it, knows it is too far, or sends it.
Check(c) ==
  /\ caller[c].pc = "check"
  /\ \E e \in {Refusal(Target(c), caller[c].q)}, far \in {TooFar(Target(c), caller[c].q)} :
       caller' = [caller EXCEPT ![c].pc = IF e # "" \/ far THEN "wrap" ELSE "send",
                                ![c].res = IF e # "" THEN Fail(e) ELSE IF far THEN NoSolution ELSE @]
  /\ UNCHANGED <<breaker, pool, now, config>>

\* The result goes back through the others.
Unwind(c) ==
  /\ caller[c].pc = "wrap"
  /\ caller' = [caller EXCEPT ![c].pc = "back", ![c].res = WrapAll(caller[c].chain, caller[c].q, @)]
  /\ UNCHANGED <<breaker, pool, now, config>>

\* The breaker lets the call through or raises.
Send(c) ==
  /\ caller[c].pc = "send"
  /\ LET s == Target(c)
     IN  caller' = [caller EXCEPT ![c] =
           IF Guarded(s) /\ ~ MayCall(breaker[s], now)
           THEN [@ EXCEPT !.pc = "wrap", !.res = Fail(CallError(s, "CircuitBreakerError"))]
           ELSE [@ EXCEPT !.pc = "wait"]]
  /\ UNCHANGED <<breaker, pool, now, config>>

\* The answer of the service, or none; a matrix of HERE is only accepted.
Answer(c) ==
  /\ caller[c].pc = "wait"
  /\ LET s == Target(c)
         q == caller[c].q
     IN  \E a \in Answers(s, q) :
           LET lost == a.code \in {"timeout", "exception"}
               r    == CASE lost -> Fail(CallError(s, a.code))
                         [] q.api = "matrix" -> MatrixOf(s, q, a)
                         [] OTHER -> PathOf(s, q, a)
               posted == Class(s) = "here" /\ q.api = "matrix" /\ a.code = "200"
           IN  /\ breaker' = [breaker EXCEPT ![s] =
                    IF ~ Guarded(s) THEN @ ELSE IF lost THEN AfterFailure(@, now) ELSE AfterSuccess(@)]
               /\ caller' = [caller EXCEPT ![c] =
                    IF posted THEN [@ EXCEPT !.pc = "poll", !.polls = 0]
                    ELSE [@ EXCEPT !.pc = "wrap", !.res = r]]
  /\ UNCHANGED <<pool, now, config>>

\* get_matrix_response polls until the matrix is there or the time is over.
Poll(c) ==
  /\ caller[c].pc = "poll"
  /\ LET s == Target(c)
         q == caller[c].q
     IN  \/ \E a \in Answers(s, q) :
              /\ a.code = "200"
              /\ caller' = [caller EXCEPT ![c].pc = "wrap", ![c].res = HereMatrix(s, q, a.row)]
         \/ /\ caller[c].polls < MaxPolls
            /\ caller' = [caller EXCEPT ![c].polls = @ + 1]
         \/ /\ caller[c].polls = MaxPolls
            /\ caller' = [caller EXCEPT ![c].pc = "wrap", ![c].res = Fail("TechnicalError")]
  /\ UNCHANGED <<breaker, pool, now, config>>

-----------------------------------------------------------------------------
(* CarWithPark._direct: parks, matrix on foot, drive, walk                 *)

\* The car parks around the destination; without one there is no answer.
FindParks(c) ==
  /\ caller[c].pc = "parks"
  /\ \E ps \in SUBSET Parks :
       LET j    == caller[c].job
           seq  == SetToSeq(ps)
           q    == [j EXCEPT !.api = "matrix", !.mode = "walking", !.from = seq]
       IN  caller' = [caller EXCEPT ![c] =
             IF ps = {} THEN [@ EXCEPT !.pc = "done", !.res = NoSolution]
             ELSE Begin(config[j.s].walking, q, [@ EXCEPT !.stage = "matrix"])]
  /\ UNCHANGED <<breaker, pool, now, config>>

\* The nearest park on foot; a park that is not reached is never nearer.
BestPark(row) ==
  LET key(i) == IF row[i].status = "reached" THEN row[i].duration ELSE 1000000
  IN  CHOOSE i \in DOMAIN row : \A k \in DOMAIN row : key(i) < key(k) \/ (key(i) = key(k) /\ i <= k)

\* The drive to the nearest park, early enough to walk when the date is
\* an arrival.
AfterMatrix(c) ==
  /\ caller[c].pc = "back" /\ caller[c].stage = "matrix"
  /\ LET j == caller[c].job
         r == caller[c].res
         i == BestPark(r.row)
         q == [j EXCEPT !.to = <<caller[c].q.from[i]>>,
                        !.date = IF j.start THEN @ ELSE @ - CarPark - r.row[i].duration]
     IN  caller' = [caller EXCEPT ![c] =
           CASE r.is = "error" -> [@ EXCEPT !.pc = "done"]
             [] r.row = <<>> \/ \A k \in DOMAIN r.row : r.row[k].status = "unreached" ->
                  [@ EXCEPT !.pc = "done", !.res = NoSolution]
             [] OTHER -> Begin(config[j.s].backup, q,
                           [@ EXCEPT !.stage = "drive", !.walk = r.row[i].duration])]
  /\ UNCHANGED <<breaker, pool, now, config>>

\* The walk from the park, from when the car is parked.
AfterDrive(c) ==
  /\ caller[c].pc = "back" /\ caller[c].stage = "drive"
  /\ LET j == caller[c].job
         r == caller[c].res
         q == [j EXCEPT !.mode = "walking", !.from = caller[c].q.to, !.date = r.arr + CarPark, !.start = TRUE]
     IN  caller' = [caller EXCEPT ![c] =
           IF r.is # "path" THEN [@ EXCEPT !.pc = "done"]
           ELSE Begin(config[j.s].walking, q, [@ EXCEPT !.stage = "walk", !.drive = r])]
  /\ UNCHANGED <<breaker, pool, now, config>>

\* Drive, park and walk make one journey.
JoinPark(d, w) ==
  LET dur == d.dur + CarPark + w.dur
      e   == d.sections[Len(d.sections)].end
  IN  [d EXCEPT !.dur = dur, !.arr = d.dep + dur,
        !.sections = (@ \o <<Leg("park", "car", e, e + CarPark)>>) \o w.sections]

AfterWalk(c) ==
  /\ caller[c].pc = "back" /\ caller[c].stage = "walk"
  /\ caller' = [caller EXCEPT ![c] =
       IF @.res.is # "path" THEN [@ EXCEPT !.pc = "done"]
       ELSE [@ EXCEPT !.pc = "done", !.res = JoinPark(caller[c].drive, caller[c].res)]]
  /\ UNCHANGED <<breaker, pool, now, config>>

\* A plain call is over; its path is kept under its key.
Return(c) ==
  /\ caller[c].pc = "back" /\ caller[c].stage = "only"
  /\ caller' = [caller EXCEPT ![c].pc = "done"]
  /\ LET j == caller[c].job
         k == make_path_key(j.s, j)
     IN  pool' = IF j.api = "path" /\ caller[c].res.is = "path"
                 THEN [x \in DOMAIN pool \cup {k} |-> IF x = k THEN caller[c].res ELSE pool[x]]
                 ELSE pool
  /\ UNCHANGED <<breaker, now, config>>

Leave(c) ==
  /\ caller[c].pc = "done"
  /\ caller' = [caller EXCEPT ![c] = Idle]
  /\ UNCHANGED <<breaker, pool, now, config>>

\* Another request has a pool of its own.
NewRequest ==
  /\ \A c \in Callers : caller[c].pc = "idle"
  /\ pool # <<>> /\ pool' = <<>>
  /\ UNCHANGED <<caller, breaker, now, config>>

Tick ==
  /\ now < MaxNow /\ now' = now + 1
  /\ UNCHANGED <<caller, breaker, pool, config>>

Next ==
  \/ \E c \in Callers : \/ Ask(c) \/ Resolve(c) \/ Check(c) \/ Unwind(c) \/ Send(c) \/ Answer(c) \/ Poll(c) \/ FindParks(c)
                        \/ AfterMatrix(c) \/ AfterDrive(c) \/ AfterWalk(c) \/ Return(c) \/ Leave(c)
  \/ NewRequest \/ Tick

Spec == Init /\ [][Next]_vars

-----------------------------------------------------------------------------
(* Properties                                                              *)

Results == {"matrix", "path", "none", "error", "pending"}

\* Every variable has its type.
TypeOK ==
  /\ \A c \in Callers :
       \/ caller[c] = Idle
       \/ /\ caller[c].pc \in {"chain", "check", "wrap", "send", "wait", "poll", "parks", "back", "done"}
          /\ caller[c].stage \in {"only", "matrix", "drive", "walk"}
          /\ caller[c].res.is \in Results /\ caller[c].polls \in 0 .. MaxPolls
  /\ config \in [DOMAIN Args -> {Create(Args[s]) : s \in DOMAIN Args}]
  /\ \A s \in Services : breaker[s].fails \in 0 .. FailMax /\ breaker[s].opened \in BOOLEAN
  /\ \A k \in DOMAIN pool : pool[k].is = "path"
  /\ now \in 0 .. MaxNow

Done(c) == caller[c].pc = "done"

\* What the connectors of a chain add to the time of a path to place p.
Extra(chain, q, p) ==
  LET of(s) == CASE Class(s) = "taxi" /\ q.api = "matrix" -> IF Len(q.from) = 1 THEN TaxiWaits.after ELSE TaxiWaits.before
                 [] Class(s) = "taxi" /\ q.type # "direct" -> IF q.type = "beginning" THEN TaxiWaits.after ELSE TaxiWaits.before
                 [] Class(s) = "with_parking" -> ParkTime[p]
                 [] Class(s) = "valhalla" -> config[s].park
                 [] OTHER -> 0
  IN  SumSeq([i \in DOMAIN chain |-> of(chain[i])])

\* _get_street_network_routing_matrix: the i-th cell of a matrix is that of
\* the i-th place, with the time that the connector that answered gives for
\* it and what the connectors around it add; a place without a path is never
\* reached.
MatrixIsAligned ==
  \A c \in Callers : Done(c) /\ caller[c].res.is = "matrix" /\ caller[c].chain # <<>> =>
    LET q      == caller[c].q
        row    == caller[c].res.row
        chain  == caller[c].chain
        places == ParkedAt(q)
        time(p) == IF Len(q.from) = 1 THEN TravelTime(chain[Len(chain)], q, q.from[1], p)
                   ELSE TravelTime(chain[Len(chain)], q, p, q.to[1])
    IN  /\ Len(row) <= Len(places)
        /\ \A i \in DOMAIN row : row[i].status = "reached" =>
             /\ time(places[i]) # 0
             /\ row[i].duration = time(places[i]) + Extra(chain, q, places[i])

\* Sorted by their dates, as the scenario does.
ByDate(ss) == SortSeq(ss, LAMBDA a, b : a.begin < b.begin \/ (a.begin = b.begin /\ a.end < b.end))

Abs(n) == IF n < 0 THEN - n ELSE n

\* _direct_path: the sections of a path follow each other from its departure
\* to its arrival; only the rounding of geovelo, handimap and andyamo may
\* leave a second per section between the last one and the arrival.
PathIsContinuous ==
  \A c \in Callers : Done(c) /\ caller[c].res.is = "path" =>
    LET r  == caller[c].res
        ss == ByDate(r.sections)
    IN  /\ ss[1].begin = r.dep /\ r.arr = r.dep + r.dur
        /\ \A i \in 1 .. Len(ss) - 1 : ss[i].end = ss[i + 1].begin
        /\ Abs(ss[Len(ss)].end - r.arr) <= (IF Len(ss) > 1 THEN Len(ss) ELSE 0)

\* A direct path leaves at the requested date or arrives at it: one that is
\* to arrive before it does.
ArrivesInTime ==
  \A c \in Callers : Done(c) /\ caller[c].res.is = "path" /\ caller[c].job.type = "direct" =>
    IF caller[c].job.start THEN caller[c].res.dep = caller[c].job.date
    ELSE caller[c].res.arr = caller[c].job.date

\* CarWithPark never parks where one cannot walk from while another park
\* around the destination can be walked from.
ParksNearest ==
  \A c \in Callers : caller[c].pc # "idle" => (caller[c].stage \in {"drive", "walk"} =>
    Time["walking"][(IF caller[c].stage = "drive" THEN caller[c].q.to ELSE caller[c].q.from)[1]][caller[c].job.to[1]] = caller[c].walk)

\* make_path_key: a path that is taken from the pool is the one the
\* connector would give for the question that found it.
KeysTellPathsApart ==
  \A c \in Callers : Done(c) /\ caller[c].res.is = "path" /\ caller[c].stage = "only" =>
    LET j     == caller[c].job
        chain == Chain(j.s, j)
        s     == chain[Len(chain)]
        a     == Asked(s, j)
        park  == IF j.type = "ending" THEN j.from[1] ELSE j.to[1]
    IN  Abs(caller[c].res.dur - (TravelTime(s, j, a.from[1], a.to[1]) + Extra(chain, j, park))) <= 1

\* A connector raises the errors of the API or lets through those of the
\* call, which the scenario takes for a service that is out.
ErrorsAreKnown ==
  \A c \in Callers : Done(c) /\ caller[c].res.is = "error" =>
    caller[c].res.error \in {"TechnicalError", "UnableToParse", "InvalidArguments",
                             "CircuitBreakerError", "timeout", "exception"}

=============================================================================
