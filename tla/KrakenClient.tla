----------------------------- MODULE KrakenClient -----------------------------
(***************************************************************************)
(* How jormungandr calls a kraken: the pool of zmq sockets that live for a *)
(* limited time (transient_socket.py), the circuit breaker and what an     *)
(* instance learns from the answers (instance.py), and the thread that     *)
(* calls until the instance is initialised (instance_manager.py).  A call  *)
(* runs in a greenlet and gives way while it waits for an answer or for a  *)
(* lock.                                                                   *)
(***************************************************************************)
EXTENDS Integers, Sequences, FiniteSets, CircuitBreaker

CONSTANTS
  Greenlets,       \* the greenlets of requests; "ping" is that of the thread
  Ttl,             \* ZMQ_SOCKET_TTL_SECONDS
  Timeout,         \* INSTANCES_TIMEOUT
  Apis,            \* what requests ask for, subset of {"metadatas", "other"}
  MaxSockets, MaxVersion, MaxNow, MaxCalls, MaxBreaks, MaxDowns

\* The thread is not one of the greenlets of requests, a socket lives for some time, and the
\* settings are numbers.
ASSUME KrakenClientAssumption ==
  /\ "ping" \notin Greenlets
  /\ Ttl \in Nat \ {0} /\ Timeout \in Nat
  /\ FailMax \in Nat /\ ResetTimeout \in Nat /\ MaxSockets \in Nat

VARIABLES
  sockets,   \* the sockets that are not closed: id |-> [t, idle, asked, answer]
  call,      \* greenlet |-> its call
  breaker,
  inst,      \* publication_date, geom, timezone, is_initialized
  kraken,    \* [up, version]
  ping,      \* "on" or "off": the thread
  now, calls, breaks, downs

vars == <<sockets, call, breaker, inst, kraken, ping, now, calls, breaks, downs>>

Callers == Greenlets \cup {"ping"}
Nothing == [kind |-> "nothing"]
Idle == [pc |-> "idle"]
Pool == {s \in DOMAIN sockets : sockets[s].idle}
Keep(ids) == [s \in ids |-> sockets[s]]
Close(s) == Keep((DOMAIN sockets) \ {s})

-----------------------------------------------------------------------------
(* TransientSocket                                                         *)

\* A socket connected now.
make_new_socket(kept) ==
  LET s == CHOOSE x \in 1 .. MaxSockets : x \notin DOMAIN kept
  IN  [id |-> s, all |-> [x \in (DOMAIN kept) \cup {s} |->
         IF x = s THEN [t |-> now, idle |-> FALSE, asked |-> "", answer |-> Nothing] ELSE kept[x]]]

Newest == CHOOSE s \in Pool : \A x \in Pool : sockets[x].t <= sockets[s].t

\* The socket stays in the pool, and its age is not looked at.
SharedSocket ==
  IF Pool = {} THEN make_new_socket(sockets) ELSE [id |-> Newest, all |-> sockets]

\* The newest socket, or all of the pool is closed and a new one made.
get_socket ==
  IF Pool = {} THEN make_new_socket(sockets)
  ELSE IF now - sockets[Newest].t < Ttl THEN [id |-> Newest, all |-> [sockets EXCEPT ![Newest].idle = FALSE]]
  ELSE make_new_socket(Keep((DOMAIN sockets) \ Pool))

Send(g) ==
  /\ call[g].pc = "call"
  /\ Cardinality(DOMAIN sockets) < MaxSockets \/ Pool # {}
  /\ \E got \in {get_socket} :
       /\ sockets' = [got.all EXCEPT ![got.id].asked = call[g].api]
       /\ call' = [call EXCEPT ![g].pc = "poll", ![g].socket = got.id, ![g].until = now + Timeout]
  /\ UNCHANGED <<breaker, inst, kraken, ping, now, calls, breaks, downs>>

\* The finally clause: back to the pool, unless the time of the socket is over.
ReturnSocket(s) ==
  IF now - sockets[s].t >= Ttl THEN Close(s)
  ELSE [sockets EXCEPT ![s].idle = TRUE, ![s].asked = "", ![s].answer = Nothing]

Receive(g) ==
  /\ call[g].pc = "poll" /\ sockets[call[g].socket].answer # Nothing
  /\ call' = [call EXCEPT ![g].pc = "parse", ![g].answer = sockets[call[g].socket].answer]
  /\ sockets' = ReturnSocket(call[g].socket)
  /\ UNCHANGED <<breaker, inst, kraken, ping, now, calls, breaks, downs>>

\* The breaker counts the failures of requests, not those of init.
Failed(g) == IF call[g].init THEN breaker ELSE AfterFailure(breaker, now)

\* No answer in time: the socket is closed.
TimedOut(g) ==
  /\ call[g].pc = "poll" /\ sockets[call[g].socket].answer = Nothing /\ now >= call[g].until
  /\ sockets' = Close(call[g].socket)
  /\ call' = [call EXCEPT ![g] = [pc |-> "over", result |-> "dead"]]
  /\ breaker' = Failed(g)
  /\ UNCHANGED <<inst, kraken, ping, now, calls, breaks, downs>>

\* Anything else that zmq raises is logged; the answer is None, which cannot
\* be parsed.
Broken(g) ==
  /\ call[g].pc = "poll" /\ breaks < MaxBreaks
  /\ sockets' = Close(call[g].socket)
  /\ call' = [call EXCEPT ![g] = [pc |-> "over", result |-> "error"]]
  /\ breaker' = Failed(g) /\ breaks' = breaks + 1
  /\ UNCHANGED <<inst, kraken, ping, now, calls, downs>>

-----------------------------------------------------------------------------
(* Instance                                                                *)

Calling(api, init) ==
  [pc |-> "call", api |-> api, init |-> init, socket |-> 0, until |-> 0, answer |-> Nothing, date |-> inst.publication_date]

\* The breaker is not asked.
CallAnyway(g) ==
  /\ call[g].pc = "idle" /\ calls < MaxCalls /\ calls' = calls + 1
  /\ \E api \in Apis :
       call' = [call EXCEPT ![g] = Calling(api, FALSE)]
  /\ UNCHANGED <<sockets, breaker, inst, kraken, ping, now, breaks, downs>>

\* Through the breaker, which fails fast.
send_and_receive(g) ==
  /\ call[g].pc = "idle" /\ calls < MaxCalls /\ calls' = calls + 1
  /\ \E api \in Apis :
       call' = [call EXCEPT ![g] = IF MayCall(breaker, now) THEN Calling(api, FALSE) ELSE [pc |-> "over", result |-> "dead"]]
  /\ UNCHANGED <<sockets, breaker, inst, kraken, ping, now, breaks, downs>>

\* After any answer the instance is initialised; only an answer with metadatas
\* and another date changes the rest.
Updated(i, answer) ==
  IF answer.metadatas /\ answer.date # i.publication_date
  THEN [publication_date |-> answer.date, geom |-> answer.date, timezone |-> answer.date, is_initialized |-> TRUE]
  ELSE [i EXCEPT !.is_initialized = TRUE]

\* An answer of the same date is left aside.
UpdateOnlyNew(g) ==
  /\ call[g].pc = "parse" /\ call[g].answer.date # inst.publication_date
  /\ inst' = Updated(inst, call[g].answer)
  /\ breaker' = IF call[g].init THEN breaker ELSE AfterSuccess(breaker)
  /\ call' = [call EXCEPT ![g] = [pc |-> "over", result |-> IF call[g].init /\ inst'.publication_date # call[g].date THEN "changed" ELSE "ok"]]
  /\ UNCHANGED <<sockets, kraken, ping, now, calls, breaks, downs>>

update_property(g) ==
  /\ call[g].pc = "parse"
  /\ inst' = Updated(inst, call[g].answer)
  /\ breaker' = IF call[g].init THEN breaker ELSE AfterSuccess(breaker)
  /\ call' = [call EXCEPT ![g] = [pc |-> "over", result |-> IF call[g].init /\ inst'.publication_date # call[g].date THEN "changed" ELSE "ok"]]
  /\ UNCHANGED <<sockets, kraken, ping, now, calls, breaks, downs>>

Over(g) ==
  /\ g \in Greenlets /\ call[g].pc = "over"
  /\ call' = [call EXCEPT ![g] = Idle]
  /\ UNCHANGED <<sockets, breaker, inst, kraken, ping, now, calls, breaks, downs>>

-----------------------------------------------------------------------------
(* InstanceManager: init_kraken_instances, thread_ping                     *)

\* A round of the thread: init without the breaker, or the end.
thread_ping ==
  /\ ping = "on" /\ call["ping"].pc \in {"idle", "over"}
  /\ IF inst.is_initialized THEN ping' = "off" /\ UNCHANGED call
     ELSE call' = [call EXCEPT !["ping"] = Calling("metadatas", TRUE)] /\ UNCHANGED ping
  /\ UNCHANGED <<sockets, breaker, inst, kraken, now, calls, breaks, downs>>

-----------------------------------------------------------------------------
(* kraken: any request is answered with the date of the data, the          *)
(* metadatas only on demand.                                               *)

Answer(s) ==
  /\ kraken.up /\ sockets[s].asked # "" /\ sockets[s].answer = Nothing
  /\ sockets' = [sockets EXCEPT ![s].answer =
                   [kind |-> "answer", to |-> sockets[s].asked, metadatas |-> sockets[s].asked = "metadatas", date |-> kraken.version]]
  /\ UNCHANGED <<call, breaker, inst, kraken, ping, now, calls, breaks, downs>>

Publish ==
  /\ kraken.version < MaxVersion
  /\ kraken' = [kraken EXCEPT !.version = @ + 1]
  /\ UNCHANGED <<sockets, call, breaker, inst, ping, now, calls, breaks, downs>>

Down ==
  /\ kraken.up /\ downs < MaxDowns /\ downs' = downs + 1
  /\ kraken' = [kraken EXCEPT !.up = FALSE]
  /\ UNCHANGED <<sockets, call, breaker, inst, ping, now, calls, breaks>>

Up ==
  /\ ~kraken.up /\ kraken' = [kraken EXCEPT !.up = TRUE]
  /\ UNCHANGED <<sockets, call, breaker, inst, ping, now, calls, breaks, downs>>

Tick ==
  /\ now < MaxNow /\ now' = now + 1
  /\ UNCHANGED <<sockets, call, breaker, inst, kraken, ping, calls, breaks, downs>>

NewInstance == [publication_date |-> -1, geom |-> -1, timezone |-> -1, is_initialized |-> FALSE]

Init ==
  /\ sockets = [s \in {} |-> Nothing]
  /\ call = [g \in Callers |-> Idle]
  /\ breaker = Closed
  /\ inst = NewInstance
  /\ kraken \in {[up |-> u, version |-> 1] : u \in BOOLEAN}
  /\ ping = "on" /\ now = 0 /\ calls = 0 /\ breaks = 0 /\ downs = 0

Progress(g) == Send(g) \/ Receive(g) \/ TimedOut(g) \/ update_property(g) \/ Over(g)
Answers == \E s \in DOMAIN sockets : Answer(s)
Next ==
  \/ \E g \in Callers : Progress(g) \/ Broken(g)
  \/ \E g \in Greenlets : send_and_receive(g)
  \/ thread_ping \/ Answers \/ Publish \/ Down \/ Up \/ Tick

Spec == Init /\ [][Next]_vars
-----------------------------------------------------------------------------
(* Properties                                                              *)

\* What the variables hold: a socket remembers the question it carries and the answer that came,
\* a call its question, its socket and its answer.
AnswerOf == [kind : {"answer"}, to : Apis \cup {"metadatas"}, metadatas : BOOLEAN, date : Nat]
Socket == [t : Nat, idle : BOOLEAN, asked : Apis \cup {"", "metadatas"}, answer : AnswerOf \cup {Nothing}]
ActiveCall == [pc : {"call", "poll", "parse"}, api : Apis \cup {"metadatas"}, init : BOOLEAN, socket : Nat,
               until : Int, answer : AnswerOf \cup {Nothing}, date : Int]
EndedCall == [pc : {"over"}, result : {"ok", "changed", "dead", "error"}]
TypeOK ==
  /\ DOMAIN sockets \subseteq 1 .. MaxSockets
  /\ sockets \in [DOMAIN sockets -> Socket]
  /\ call \in [Callers -> {Idle} \cup ActiveCall \cup EndedCall]
  /\ breaker \in [fails : Nat, opened : BOOLEAN, since : Nat]
  /\ inst \in [publication_date : Int, geom : Int, timezone : Int, is_initialized : BOOLEAN]
  /\ kraken \in [up : BOOLEAN, version : Nat \ {0}]
  /\ ping \in {"on", "off"}
  /\ now \in Nat /\ calls \in Nat /\ breaks \in Nat /\ downs \in Nat

Waiting == {g \in Callers : call[g].pc = "poll"}

\* A socket is in the pool or in one call, and none is left open outside both.
SocketsAreOwned ==
  /\ \A g \in Waiting : call[g].socket \in (DOMAIN sockets) \ Pool
  /\ \A g, h \in Waiting : g # h => call[g].socket # call[h].socket
  /\ (DOMAIN sockets) \ Pool = {call[g].socket : g \in Waiting}

\* No socket of the pool has a request on its way: a late answer cannot reach
\* the next call, and an answer is to the question of its call.
AnswersMatch ==
  /\ \A s \in Pool : sockets[s].asked = "" /\ sockets[s].answer = Nothing
  /\ \A g \in Callers : call[g].pc = "parse" => call[g].answer.to = call[g].api

\* The shape and the time zone are those of the publication date, whatever
\* the order of the answers, and that date has existed.
MetadataMatchDate ==
  /\ inst.geom = inst.publication_date /\ inst.timezone = inst.publication_date
  /\ inst.publication_date \in {-1} \cup 1 .. kraken.version

\* A socket to kraken is in the pool or in one call and an answer reaches only
\* the call that asked for it (transient_socket.py); what answers say of the
\* data is taken as a whole (instance.py).
CallsKeepToThemselves == SocketsAreOwned /\ AnswersMatch /\ MetadataMatchDate

\* With a breaker that is open, only the thread calls; and no call is given a
\* socket whose time is over.
OpenIsRespected ==
  [][/\ \A g \in Greenlets : call[g].pc = "idle" /\ call'[g].pc = "call" => MayCall(breaker, now)
     /\ \A g \in Callers : call[g].pc = "call" /\ call'[g].pc = "poll" => now - sockets'[call'[g].socket].t < Ttl]_vars
=============================================================================
