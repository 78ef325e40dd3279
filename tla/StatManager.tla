----------------------------- MODULE StatManager -----------------------------
(***************************************************************************)
(* The statistics of jormungandr (stat_manager.py): after each call a      *)
(* message is filled from the request and its response and published to    *)
(* rabbitmq under a lock and a circuit breaker.  Whatever happens the      *)
(* response is returned.  Threads interleave at the lock and the network.  *)
(***************************************************************************)
EXTENDS Integers, Sequences, FiniteSets, SequencesExt, CircuitBreaker

CONSTANTS
  Threads,
  Calls,       \* what is called and its response
  SaveStat,    \* SAVE_STAT
  KnownTags,   \* the keys of MAP_JOURNEY_TAG
  MaxNow, MaxCalls, MaxDowns

VARIABLES
  thread,      \* thread |-> [pc, ...]
  lock,        \* the thread that has it, or ""
  producer,    \* "none" or "ready"
  breaker,
  rabbit,      \* [up, connected]: connected tells if the producer is
  published,   \* the messages in the broker, with the call they are about
  now, calls, downs

vars == <<thread, lock, producer, breaker, rabbit, published, now, calls, downs>>

None == ""
Idle == [pc |-> "idle"]

-----------------------------------------------------------------------------
(* The message                                                             *)

\* The administrative region of level 8 of a place: the first that is found.
find_admin(place) ==
  LET eights == SelectSeq(place.admins, LAMBDA a : a.level = 8)
  IN  IF eights = <<>> THEN None ELSE eights[1].id
find_origin_admin(j) == IF j.sections = <<>> THEN None ELSE find_admin(j.sections[1].from)
find_destination_admin(j) == IF j.sections = <<>> THEN None ELSE find_admin(Last(j.sections).to)

\* A bike just after a rent is a bike of the service.
get_mode(mode, previous) == IF mode = "bike" /\ previous # <<>> /\ previous[1].type = "bss_rent" THEN "bss" ELSE mode

\* The stop area stands for its stop point.
fill_section_from(place) ==
  [type |-> IF place.type = "stop_point" /\ place.area # None THEN "stop_area" ELSE place.type,
   id |-> IF place.type = "stop_point" /\ place.area # None THEN place.area ELSE place.id, admin |-> find_admin(place)]
fill_section_to(place) == fill_section_from(place)

\* The first link of each type.
get_section_link(s, type) ==
  LET of == SelectSeq(s.links, LAMBDA l : l.type = type) IN IF of = <<>> THEN None ELSE of[1].id

fill_section(s, previous) ==
  [type |-> s.type, mode |-> get_mode(s.mode, previous), from |-> fill_section_from(s.from), to |-> fill_section_to(s.to),
   line |-> get_section_link(s, "line")]

\* The section before is not kept.
NoPrevious(j) == [i \in DOMAIN j.sections |-> fill_section(j.sections[i], <<>>)]

\* Each section is seen with the message of the one before.
fill_sections(j) ==
  FoldLeft(LAMBDA out, s : Append(out, fill_section(s, IF out = <<>> THEN <<>> ELSE <<Last(out)>>)), <<>>, j.sections)

\* The ends of the public transport.
fill_journey(j) ==
  LET pt == SelectSeq(j.sections, LAMBDA s : s.type = "public_transport")
  IN  IF pt = <<>> THEN [first |-> None, last |-> None, first_admin |-> None, last_admin |-> None]
      ELSE [first |-> pt[1].from.id, last |-> Last(pt).to.id, first_admin |-> find_admin(pt[1].from), last_admin |-> find_admin(Last(pt).to)]

MAP_JOURNEY_TAG(tag) == IF tag \in KnownTags THEN tag ELSE "unknown"

\* Tags of journeys to delete are left out, the others that are not known
\* counted as unknown.
fill_tags(j) ==
  {MAP_JOURNEY_TAG(tag) : tag \in {x \in j.tags : x \in KnownTags \/ x # "to_delete"}}

Message(j) == [ends |-> fill_journey(j), sections |-> fill_sections(j), tags |-> fill_tags(j)]

fill_journeys(c) ==
  IF c.journeys = <<>> THEN [departure |-> None, arrival |-> None, journeys |-> <<>>]
  ELSE [departure |-> find_origin_admin(c.journeys[1]), arrival |-> find_destination_admin(c.journeys[1]),
        journeys |-> [i \in DOMAIN c.journeys |-> Message(c.journeys[i])]]

\* Isochrones, which have no destination, are not detailed.
fill_result(c) ==
  IF c.api = "journeys" /\ "to" \in c.args THEN fill_journeys(c) ELSE [departure |-> None, arrival |-> None, journeys |-> <<>>]

\* One entry per value; the parts of filters that can be parsed.
fill_filters(filter) == SelectSeq(filter, LAMBDA part : part.parsed)
fill_parameters(c) == [args |-> c.args, filters |-> fill_filters(c.filter)]

\* At least one coverage, the empty one.
fill_coverages(c) == IF c.coverages = {} THEN {None} ELSE c.coverages
fill_error(c) == IF c.error = None THEN None ELSE c.error

\* Who asks: the user of the token; for the client the first address that a
\* proxy forwards.
fill_request(c) ==
  [api |-> c.api, user |-> c.user, client |-> IF c.forwarded = <<>> THEN c.address ELSE c.forwarded[1], count |-> c.items]

Filled(c) ==
  [request |-> fill_request(c), coverages |-> fill_coverages(c), parameters |-> fill_parameters(c), error |-> fill_error(c),
   result |-> fill_result(c)]

-----------------------------------------------------------------------------
(* A call                                                                  *)

Call(t) ==
  /\ thread[t].pc = "idle" /\ calls < MaxCalls /\ calls' = calls + 1
  /\ \E c \in Calls : thread' = [thread EXCEPT ![t] = [pc |-> "stat", call |-> c, response |-> c.id]]
  /\ UNCHANGED <<lock, producer, breaker, rabbit, published, now, downs>>

\* Filling may fail too (a section without place); an error is a lost
\* message and no more.
manage_stat(t) ==
  /\ thread[t].pc = "stat"
  /\ thread' = [thread EXCEPT ![t].pc = IF SaveStat /\ thread[t].call.wellFormed /\ MayCall(breaker, now) THEN "publish" ELSE "return"]
  /\ UNCHANGED <<lock, producer, breaker, rabbit, published, now, calls, downs>>

TakeLock(t) ==
  /\ thread[t].pc = "publish" /\ lock = ""
  /\ lock' = t /\ thread' = [thread EXCEPT ![t].pc = "locked"]
  /\ UNCHANGED <<producer, breaker, rabbit, published, now, calls, downs>>

\* A connection is made if there is none.
init_rabbitmq(t) ==
  /\ thread[t].pc = "locked" /\ producer = "none"
  /\ \/ /\ rabbit.up /\ producer' = "ready" /\ rabbit' = [rabbit EXCEPT !.connected = TRUE]
        /\ UNCHANGED <<thread, breaker, lock>>
     \/ /\ ~rabbit.up
        /\ thread' = [thread EXCEPT ![t].pc = "return"] /\ lock' = ""
        /\ breaker' = AfterFailure(breaker, now)
        /\ UNCHANGED <<producer, rabbit>>
  /\ UNCHANGED <<published, now, calls, downs>>

\* The message is in the broker, or the connection is released and the
\* producer made again by the next call.
publish_request(t) ==
  /\ thread[t].pc = "locked" /\ producer = "ready"
  /\ thread' = [thread EXCEPT ![t].pc = "return"] /\ lock' = ""
  /\ IF rabbit.up /\ rabbit.connected
     THEN /\ published' = Append(published, [of |-> thread[t].call, message |-> Filled(thread[t].call)])
          /\ breaker' = AfterSuccess(breaker)
          /\ UNCHANGED <<producer, rabbit>>
     ELSE /\ producer' = "none" /\ rabbit' = [rabbit EXCEPT !.connected = FALSE]
          /\ breaker' = AfterFailure(breaker, now)
          /\ UNCHANGED published
  /\ UNCHANGED <<now, calls, downs>>

Return(t) ==
  /\ thread[t].pc = "return"
  /\ thread' = [thread EXCEPT ![t] = [pc |-> "returned", call |-> thread[t].call, response |-> thread[t].response]]
  /\ UNCHANGED <<lock, producer, breaker, rabbit, published, now, calls, downs>>

Leave(t) ==
  /\ thread[t].pc = "returned" /\ thread' = [thread EXCEPT ![t] = Idle]
  /\ UNCHANGED <<lock, producer, breaker, rabbit, published, now, calls, downs>>

Down ==
  /\ rabbit.up /\ downs < MaxDowns /\ downs' = downs + 1
  /\ rabbit' = [up |-> FALSE, connected |-> FALSE]
  /\ UNCHANGED <<thread, lock, producer, breaker, published, now, calls>>

Up ==
  /\ ~rabbit.up /\ rabbit' = [rabbit EXCEPT !.up = TRUE]
  /\ UNCHANGED <<thread, lock, producer, breaker, published, now, calls, downs>>

Tick ==
  /\ now < MaxNow /\ now' = now + 1
  /\ UNCHANGED <<thread, lock, producer, breaker, rabbit, published, calls, downs>>

\* At startup the broker may be away.
Init ==
  /\ thread = [t \in Threads |-> Idle] /\ lock = "" /\ breaker = Closed /\ published = <<>>
  /\ \E u \in BOOLEAN : rabbit = [up |-> u, connected |-> u] /\ producer = IF u THEN "ready" ELSE "none"
  /\ now = 0 /\ calls = 0 /\ downs = 0

Step(t) == manage_stat(t) \/ TakeLock(t) \/ init_rabbitmq(t) \/ publish_request(t) \/ Return(t) \/ Leave(t)
Next == (\E t \in Threads : Call(t) \/ Step(t)) \/ Down \/ Up \/ Tick

Spec == Init /\ [][Next]_vars

-----------------------------------------------------------------------------
(* Properties                                                              *)

\* The lock is held by the thread that publishes, and the producer of a
\* broker that went away is not kept once a message was lost.
TypeOK ==
  /\ \A t \in Threads : thread[t].pc = "locked" <=> lock = t
  /\ rabbit.connected => producer = "ready"

\* A broken broker costs at most the breaker's FailMax attempts in a row: with
\* it open no thread tries to connect.
OpenIsRespected == \A t \in Threads : thread[t].pc = "stat" /\ thread'[t].pc = "publish" => MayCall(breaker, now)

Pt(j) == SelectSeq(j.sections, LAMBDA s : s.type = "public_transport")

\* What is published is about its own call: as many journeys and sections, the
\* bikes of the service told from the others, the ends of the public
\* transport, and no tag of a journey to delete.
MessagesMatch ==
  \A i \in DOMAIN published :
    LET c == published[i].of
        r == published[i].message.result
    IN  /\ r.journeys # <<>> => c.api = "journeys" /\ "to" \in c.args
        /\ \A k \in DOMAIN r.journeys :
             /\ Len(r.journeys[k].sections) = Len(c.journeys[k].sections)
             /\ \A n \in DOMAIN r.journeys[k].sections :
                  (r.journeys[k].sections[n].mode = "bss") <=> (n > 1 /\ c.journeys[k].sections[n - 1].type = "bss_rent" /\ c.journeys[k].sections[n].mode = "bike")
             /\ (r.journeys[k].ends.first # None) <=> (Pt(c.journeys[k]) # <<>>)
             /\ "to_delete" \notin r.journeys[k].tags
        /\ published[i].message.coverages # {}
=============================================================================
