--------------------------- MODULE ExcludedZones ---------------------------
(***************************************************************************)
(* The zones in which a mode may not be used (excluded_zones_manager.py):  *)
(* files of a bucket, read through three memoized functions that call each *)
(* other.  The shapes of the zones are not part of what is memoized: each  *)
(* process keeps those of its own last reading of the bucket.              *)
(***************************************************************************)
EXTENDS Integers, Sequences, SequencesExt, MemoCache

CONSTANTS
  Processes,
  Bucket,       \* version |-> the files: [poi, shape, modes, periods]; shape: a set of places, or NoShape
  Modes, Dates, Places,
  MaxNow, MaxCalls, MaxFailures, MaxRestarts

NoShape == {"no shape"}
\* A file that cannot be read is an empty zone.
Unread == [poi |-> "", shape |-> NoShape, modes |-> {}, periods |-> {}]

VARIABLES
  mem, red,     \* the caches: of each process, shared
  shapes,       \* process |-> poi |-> shape
  version, changed,   \* the files of the bucket, and when version v came
  failed,       \* when a reading last failed
  answer,       \* the last answer given
  now, calls, failures, restarts

vars == <<mem, red, shapes, version, changed, failed, answer, now, calls, failures, restarts>>
counters == <<now, calls, failures, restarts>>

Never == -1000
Whatever == "any"
Value(v) == [kind |-> "value", v |-> v]
Keys == {<<"all">>} \cup {<<"zones", m, d>> : m \in Modes \cup {Whatever}, d \in Dates \cup {0}}
        \cup {<<"excluded", x, m, d>> : x \in Places, m \in Modes, d \in Dates}

-----------------------------------------------------------------------------
(* Zones                                                                   *)

is_activated(periods, date) == \E p \in periods : p.from <= date /\ date < p.to

\* Of two files about one poi, the last one has its shape.
ShapesOf(zones) ==
  LET shaped == {i \in DOMAIN zones : zones[i].shape # NoShape}
      Newest(poi) == CHOOSE i \in shaped : zones[i].poi = poi /\ \A j \in shaped : zones[j].poi = poi => j <= i
  IN  [poi \in {zones[i].poi : i \in shaped} |-> zones[Newest(poi)].shape]

\* The zones of a mode at a date, of which nobody needs the order.
Selected(zones, mode, date) ==
  {z \in Range(zones) : (mode = Whatever \/ mode \in z.modes) /\ (date = 0 \/ is_activated(z.periods, date))}

Within(zones, known, place) ==
  \E z \in zones : z.poi \in DOMAIN known /\ place \in known[z.poi]

-----------------------------------------------------------------------------
(* The memoized functions.  s is what they read and change, [mem, red,     *)
(* shapes]; read is what the bucket gives if it comes to that.             *)

State(p) == [mem |-> mem[p], red |-> red, shapes |-> shapes[p], value |-> Value(<<>>), called |-> FALSE]
Through(s, key, value) ==
  LET m == Memoize(s.mem, s.red, key, TRUE, value)
  IN  [s EXCEPT !.mem = m.mem, !.red = m.red, !.value = m.value]
Cached(s, key) == Holds(s.mem, key) \/ Holds(s.red, key)

\* The shapes are only taken the first time.
ShapesOnce(s, read) ==
  IF Cached(s, <<"all">>) THEN Through(s, <<"all">>, Value(read))
  ELSE [Through(s, <<"all">>, Value(read)) EXCEPT !.shapes = IF DOMAIN s.shapes = {} THEN ShapesOf(read) ELSE @,
                                                   !.called = TRUE]

get_all_excluded_zones(s, read) ==
  IF Cached(s, <<"all">>) THEN Through(s, <<"all">>, Value(read))
  ELSE [Through(s, <<"all">>, Value(read)) EXCEPT !.shapes = ShapesOf(read), !.called = TRUE]

get_excluded_zones(s, mode, date, read) ==
  LET key == <<"zones", mode, date>>
      all == get_all_excluded_zones(s, read)
  IN  IF Cached(s, key) THEN Through(s, key, Value({}))
      ELSE Through(all, key, Value(Selected(all.value.v, mode, date)))

is_excluded(s, place, mode, date, read) ==
  LET key == <<"excluded", place, mode, date>>
      zones == get_excluded_zones(s, mode, date, read)
  IN  IF Cached(s, key) THEN Through(s, key, Value(FALSE))
      ELSE Through(zones, key, Value(Within(zones.value.v, zones.shapes, place)))

-----------------------------------------------------------------------------
(* Steps                                                                   *)

\* What a reading of the bucket gives: its files, unreadable ones being
\* empty, or those before the one at which the listing failed.
Readings ==
  LET files == Bucket[version]
  IN  {files} \cup (IF failures = MaxFailures THEN {}
                    ELSE {SubSeq(files, 1, n) : n \in 0..(Len(files) - 1)}
                         \cup {[files EXCEPT ![i] = Unread] : i \in DOMAIN files})

Done(p, s, read, what, place, mode, date) ==
  /\ mem' = [mem EXCEPT ![p] = s.mem] /\ red' = s.red
  /\ shapes' = [shapes EXCEPT ![p] = s.shapes]
  /\ s.called \/ read = Bucket[version]
  /\ failed' = IF read # Bucket[version] THEN now ELSE failed
  /\ failures' = IF read # Bucket[version] THEN failures + 1 ELSE failures
  /\ answer' = [what |-> what, place |-> place, mode |-> mode, date |-> date, value |-> s.value.v]
  /\ calls' = calls + 1
  /\ UNCHANGED <<version, changed, now, restarts>>

\* A stop point is looked up for the fallbacks of a request.
AskExcluded(p) ==
  /\ calls < MaxCalls
  /\ \E read \in Readings, place \in Places, mode \in Modes, date \in Dates :
       \E s \in {is_excluded(State(p), place, mode, date, read)} :
         Done(p, s, read, "excluded", place, mode, date)

\* The zones of a mode are published at any date.
fetch_and_get_data(p) ==
  /\ calls < MaxCalls
  /\ \E read \in Readings, mode \in Modes \cup {Whatever} :
       \E s \in {get_excluded_zones(State(p), mode, 0, read)} :
         Done(p, s, read, "zones", "", mode, 0)

\* The bucket gets other files.
Upload ==
  /\ version < Len(Bucket)
  /\ version' = version + 1 /\ changed' = Append(changed, now)
  /\ UNCHANGED <<mem, red, shapes, failed, answer, counters>>

Restart(p) ==
  /\ restarts < MaxRestarts
  /\ restarts' = restarts + 1
  /\ mem' = [mem EXCEPT ![p] = Empty(Keys)] /\ shapes' = [shapes EXCEPT ![p] = <<>>]
  /\ UNCHANGED <<red, version, changed, failed, answer, now, calls, failures>>

Tick ==
  /\ now < MaxNow
  /\ now' = now + 1
  /\ mem' = [p \in Processes |-> Aged(mem[p])] /\ red' = Aged(red)
  /\ answer' = [what |-> "none"]
  /\ UNCHANGED <<shapes, version, changed, failed, calls, failures, restarts>>

Init ==
  /\ mem = [p \in Processes |-> Empty(Keys)] /\ red = Empty(Keys)
  /\ shapes = [p \in Processes |-> <<>>]
  /\ version = 1 /\ changed = <<0>> /\ failed = Never
  /\ answer = [what |-> "none"]
  /\ now = 0 /\ calls = 0 /\ failures = 0 /\ restarts = 0

Next == Upload \/ Tick \/ \E p \in Processes : AskExcluded(p) \/ fetch_and_get_data(p) \/ Restart(p)
Spec == Init /\ [][Next]_vars

-----------------------------------------------------------------------------
(* Properties                                                              *)

\* How long a level keeps what it was given, and the files of that time.
Kept == MemoryTimeout + RedisTimeout - 2
Recent(levels) == {v \in 1..version : v = version \/ changed[v + 1] >= now - levels * Kept}

\* What the files say, the zones being those of version v and the shapes those of w.
Says(v, w, place, mode, date) ==
  \E z \in Range(Bucket[v]) :
    /\ mode \in z.modes /\ \E p \in z.periods : p.from <= date /\ date < p.to
    /\ z.poi \in DOMAIN ShapesOf(Bucket[w]) /\ place \in ShapesOf(Bucket[w])[z.poi]

\* A process that has always run alone answers from zones and shapes that
\* were in the bucket at most three cache lifetimes ago (is_excluded on
\* get_excluded_zones on _get_all_excluded_zones), unless a reading failed.
ExclusionIsRecent ==
  answer.what = "excluded" /\ failed < now - 3 * Kept =>
    \E v, w \in Recent(3) : answer.value = Says(v, w, answer.place, answer.mode, answer.date)

\* Whatever fails and whoever read the bucket, a place is only excluded for
\* a zone that recent files give to the mode and the date, with a shape that
\* the files once had.
ExclusionIsJustified ==
  answer.what = "excluded" /\ answer.value =>
    \E v \in Recent(3), w \in 1..version : \E z \in Range(Bucket[v]), y \in Range(Bucket[w]) :
      /\ answer.mode \in z.modes /\ \E p \in z.periods : p.from <= answer.date /\ answer.date < p.to
      /\ y.poi = z.poi /\ y.shape # NoShape /\ answer.place \in y.shape

\* What the API publishes for a mode are zones of that mode (or all), from
\* files at most two lifetimes old.
PublishedZones ==
  answer.what = "zones" /\ failed < now - 2 * Kept =>
    \E v \in Recent(2) : answer.value = {z \in Range(Bucket[v]) : answer.mode = Whatever \/ answer.mode \in z.modes}

=============================================================================
