------------------------------- MODULE Regions -------------------------------
(***************************************************************************)
(* The choice of the instance that answers a request (instance_manager.py):*)
(* by name, by coordinate or by the identifier of an object, among those   *)
(* the user may use.  Objects are looked up in the krakens through the     *)
(* caches, under the publication date that jormungandr knows, which only   *)
(* the answers with metadatas change.                                      *)
(***************************************************************************)
EXTENDS Integers, Sequences, FiniteSets, SequencesExt, MemoCache

CONSTANTS
  Names,       \* the instances, in alphabetical order
  Settings,    \* name |-> [priority, free, shape]: shape is a set of coordinates
  Objects,     \* name |-> version |-> id |-> its coordinate, "" for none
  Requests,    \* [kind, value]
  Zero,        \* the coordinates with a longitude or a latitude of 0
  PerGrant,    \* the sets of instances that the user may be given
  MaxNow, MaxRequests, MaxDowns

VARIABLES
  req,          \* the request that is served
  grant,        \* the instances the user may use, [names, since, lost]
  alive,        \* name |-> when its kraken was last started, or Dead
  version,      \* name |-> version of its data
  changed,      \* name |-> when they changed
  date,         \* name |-> the publication date that jormungandr knows
  seen,         \* name |-> the version of the last answer of its kraken
  mem, red,     \* memory and redis caches
  now, served, downs

vars == <<req, grant, alive, version, changed, date, seen, mem, red, now, served, downs>>

All == Range(Names)
Dead == -1
Never == -1000
Index(n) == CHOOSE i \in DOMAIN Names : Names[i] = n
None == [kind |-> "none"]
Value(v) == [kind |-> "value", v |-> v]
Ids == {r.value : r \in Requests} \cup UNION {UNION {DOMAIN Objects[n][v] : v \in DOMAIN Objects[n]} : n \in All}

-----------------------------------------------------------------------------
(* The best instance                                                       *)

\* Negative when i comes first: greater priority, not free, name.
instances_comparator(i, j) ==
  IF Settings[i].priority # Settings[j].priority THEN Settings[j].priority - Settings[i].priority
  ELSE IF Settings[i].free # Settings[j].free THEN IF Settings[i].free THEN 1 ELSE -1
  ELSE IF Index(i) > Index(j) THEN 1 ELSE -1

\* The first of the highest priority, free or not.
ChooseFirst(list) ==
  FoldLeft(LAMBDA best, i : IF best = "" \/ Settings[i].priority > Settings[best].priority THEN i ELSE best, "", list)

choose_best_instance(list) ==
  FoldLeft(LAMBDA best, i : IF best = "" \/ instances_comparator(i, best) < 0 THEN i ELSE best, "", list)

-----------------------------------------------------------------------------
(* Lookups in an instance                                                  *)

Has(n, id) == alive[n] # Dead /\ id \in DOMAIN Objects[n][version[n]]
has_id(n, id) == Value(Has(n, id))
get_coord_by_id(n, id) ==
  IF Has(n, id) /\ Objects[n][version[n]][id] \notin ({""} \cup Zero) THEN Value(Objects[n][version[n]][id]) ELSE None
has_point(n, c) == c \in Settings[n].shape

\* A lookup through the caches; the date is part of the key.
Asks(what, n, id) ==
  LET key == <<what, n, date[n], id>>
  IN  alive[n] # Dead /\ ~Holds(mem, key) /\ ~Holds(red, key)
Heard(what, n, id) == IF Asks(what, n, id) THEN [seen EXCEPT ![n] = version[n]] ELSE seen

Memoized(what, n, id, answer) == Memoize(mem, red, <<what, n, date[n], id>>, TRUE, answer)

-----------------------------------------------------------------------------
(* A request                                                               *)

\* The instances of the user are cached too; with none the request is refused.
get_all_available_instances_names == Memoize(mem, red, <<"names">>, TRUE, Value(SetToSortSeq(grant.names, LAMBDA a, b : Index(a) < Index(b))))

Refused(r) == [r EXCEPT !.pc = "over", !.result = "unauthorized"]
NotFound(r) == [r EXCEPT !.pc = "over", !.result = "not found"]
Found(r, list) ==
  IF list = <<>> THEN NotFound(r)
  ELSE [r EXCEPT !.pc = "over", !.result = choose_best_instance(list), !.valid = list]

all_keys_of_coord_in_instances(r, list, c) == Found(r, SelectSeq(list, LAMBDA n : has_point(n, c)))

\* With a name: has_access; with neither: all that the user may use.  A
\* coordinate counts as none when its longitude or latitude is 0.
get_instances ==
  /\ req.pc = "begin"
  /\ \/ /\ req.kind = "name"
        /\ req' = IF req.value \notin All THEN NotFound(req)
                  ELSE IF req.value \in grant.names THEN Found(req, <<req.value>>) ELSE Refused(req)
        /\ UNCHANGED <<mem, red>>
     \/ /\ req.kind # "name"
        /\ \E m \in {get_all_available_instances_names} :
             /\ mem' = m.mem /\ red' = m.red
             /\ req' = CASE m.value.v = <<>> -> Refused(req)
                         [] m.value.v # <<>> /\ req.kind = "lonlat" /\ req.value \notin Zero ->
                              all_keys_of_coord_in_instances(req, m.value.v, req.value)
                         [] m.value.v # <<>> /\ req.kind = "id" ->
                              [req EXCEPT !.pc = "coord", !.todo = m.value.v, !.list = m.value.v]
                         [] OTHER -> Found(req, m.value.v)
  /\ UNCHANGED <<grant, alive, version, changed, date, seen, now, served, downs>>

\* The first instance that has the object with a coordinate gives the
\* coordinate; the instances that contain it are the candidates.
get_first_object_coord_in_instances_by_id ==
  /\ req.pc = "coord"
  /\ IF req.todo = <<>>
     THEN req' = [req EXCEPT !.pc = "exists", !.todo = req.list] /\ UNCHANGED <<mem, red, seen>>
     ELSE \E m \in {Memoized("coord", req.todo[1], req.value, get_coord_by_id(req.todo[1], req.value))} :
            /\ mem' = m.mem /\ red' = m.red /\ seen' = Heard("coord", req.todo[1], req.value)
            /\ req' = IF m.value.kind = "value" THEN all_keys_of_coord_in_instances(req, req.list, m.value.v)
                      ELSE [req EXCEPT !.todo = Tail(@)]
  /\ UNCHANGED <<grant, alive, version, changed, date, now, served, downs>>

\* Without coordinate, those that have the object; an instance that does not
\* answer does not, and that is cached.
exists_id_in_instance ==
  /\ req.pc = "exists"
  /\ IF req.todo = <<>>
     THEN req' = Found(req, req.valid) /\ UNCHANGED <<mem, red, seen>>
     ELSE \E m \in {Memoized("exists", req.todo[1], req.value, has_id(req.todo[1], req.value))} :
            /\ mem' = m.mem /\ red' = m.red /\ seen' = Heard("exists", req.todo[1], req.value)
            /\ req' = [req EXCEPT !.todo = Tail(@), !.valid = IF m.value.v THEN Append(@, req.todo[1]) ELSE @]
  /\ UNCHANGED <<grant, alive, version, changed, date, now, served, downs>>

get_regions ==
  /\ req.pc \in {"idle", "over"} /\ served < MaxRequests
  /\ \E r \in Requests :
       req' = [pc |-> "begin", kind |-> r.kind, value |-> r.value, todo |-> <<>>, list |-> <<>>, valid |-> <<>>,
               result |-> "", at |-> now, heard |-> seen, dates |-> date, of |-> version]
  /\ served' = served + 1
  /\ UNCHANGED <<grant, alive, version, changed, date, seen, mem, red, now, downs>>

-----------------------------------------------------------------------------

\* /coverage asks each kraken for its metadatas: a dead one is said to be.
get_kraken_coverages(n) ==
  /\ alive[n] # Dead
  /\ date' = [date EXCEPT ![n] = version[n]] /\ seen' = [seen EXCEPT ![n] = version[n]]
  /\ UNCHANGED <<req, grant, alive, version, changed, mem, red, now, served, downs>>

Publish(n) ==
  /\ version[n] < Len(Objects[n])
  /\ version' = [version EXCEPT ![n] = @ + 1] /\ changed' = [changed EXCEPT ![n] = now]
  /\ UNCHANGED <<req, grant, alive, date, seen, mem, red, now, served, downs>>

Down(n) ==
  /\ alive[n] # Dead /\ downs < MaxDowns /\ downs' = downs + 1
  /\ alive' = [alive EXCEPT ![n] = Dead]
  /\ UNCHANGED <<req, grant, version, changed, date, seen, mem, red, now, served>>

Start(n) ==
  /\ alive[n] = Dead /\ alive' = [alive EXCEPT ![n] = now]
  /\ UNCHANGED <<req, grant, version, changed, date, seen, mem, red, now, served, downs>>

Grant(names) ==
  /\ names # grant.names
  /\ grant' = [names |-> names, since |-> now, lost |-> [n \in All |-> IF n \in grant.names \ names THEN now ELSE grant.lost[n]]]
  /\ UNCHANGED <<req, alive, version, changed, date, seen, mem, red, now, served, downs>>

Tick ==
  /\ req.pc \in {"idle", "over"} /\ now < MaxNow
  /\ now' = now + 1 /\ mem' = Aged(mem) /\ red' = Aged(red)
  /\ UNCHANGED <<req, grant, alive, version, changed, date, seen, served, downs>>

Keys == {<<"names">>} \cup UNION {{<<w, n, d, i>> : w \in {"coord", "exists"}, d \in 1 .. Len(Objects[n]), i \in Ids} : n \in All}

Init ==
  /\ req = [pc |-> "idle"]
  /\ grant \in {[names |-> g, since |-> 0, lost |-> [n \in All |-> Never]] : g \in PerGrant}
  /\ alive = [n \in All |-> 0] /\ version = [n \in All |-> 1] /\ changed = [n \in All |-> 0]
  /\ date = [n \in All |-> 1] /\ seen = date
  /\ mem = Empty(Keys) /\ red = Empty(Keys)
  /\ now = 0 /\ served = 0 /\ downs = 0

Step == get_instances \/ get_first_object_coord_in_instances_by_id \/ exists_id_in_instance
Next ==
  \/ get_regions \/ Step \/ Tick
  \/ \E n \in All : get_kraken_coverages(n) \/ Publish(n) \/ Down(n) \/ Start(n)
  \/ \E g \in PerGrant : Grant(g)

Spec == Init /\ [][Next]_vars

-----------------------------------------------------------------------------
(* Properties                                                              *)

Answered == req.pc = "over" /\ req.result \in All
Limit == MemoryTimeout + RedisTimeout

\* The instance that answers is the best of the candidates, whatever the order
\* in which they are looked at: no other has a greater priority, or the same
\* without being free, or comes before in the alphabet.
ChosenIsBest ==
  Answered => \A n \in Range(req.valid) \ {req.result} :
    LET a == Settings[req.result]
        b == Settings[n]
    IN  \/ a.priority > b.priority
        \/ a.priority = b.priority /\ ~a.free /\ b.free
        \/ a.priority = b.priority /\ a.free = b.free /\ Index(req.result) < Index(n)

\* The user may use it, or could until less than the time of the caches ago.
ChosenIsGranted == Answered => req.result \in grant.names \/ grant.lost[req.result] > req.at - Limit

\* Asked about a place, it is an instance that contains it.
ChosenContains == Answered /\ req.kind = "lonlat" /\ req.value \notin Zero => req.value \in Settings[req.result].shape

\* An object that an instance of the user has is found, if that kraken has been
\* up, with the same data and the same grant, for longer than a wrong answer
\* stays in the caches.
ObjectsAreFound ==
  req.pc = "over" /\ req.kind = "id" /\ req.result = "not found" =>
    ~ \E n \in grant.names : /\ Has(n, req.value)
                             /\ alive[n] <= req.at - Limit /\ changed[n] <= req.at - Limit /\ grant.since <= req.at - Limit

\* An object that the data of no instance have any more is not found by a
\* request that begins when the publication dates are known.
DateInvalidates ==
  Answered /\ req.kind = "id" /\ req.dates = req.of /\ req.of = version =>
    \E n \in All : req.value \in DOMAIN Objects[n][version[n]]
=============================================================================
