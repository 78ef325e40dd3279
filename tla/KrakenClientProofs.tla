------------------------- MODULE KrakenClientProofs -------------------------
(***************************************************************************)
(* Proofs about the calls to a kraken: any number of greenlets, sockets,   *)
(* calls, failures and versions of the data; about the limiter of the      *)
(* calls to the realtime services; and about the calls to forseti.         *)
(***************************************************************************)
EXTENDS KrakenClient, SequenceTheorems, FiniteSetTheorems, WellFoundedInduction, TLAPS

\* A socket was made before now; in the pool it carries nothing; an answer is to the question
\* that the socket carries and has a date that kraken has published.
SocketInv ==
  /\ \A s \in DOMAIN sockets : sockets[s].t <= now
  /\ \A s \in DOMAIN sockets : sockets[s].idle => sockets[s].asked = "" /\ sockets[s].answer = Nothing
  /\ \A s \in DOMAIN sockets : sockets[s].answer # Nothing =>
       sockets[s].answer.to = sockets[s].asked /\ sockets[s].answer.date \in 1 .. kraken.version

\* A call that waits has a socket of its own, which carries its question; a socket outside the pool
\* is that of such a call; an answer that was received is to the question of its call.
CallInv ==
  /\ \A g \in Callers : call[g].pc = "poll" =>
       /\ call[g].socket \in DOMAIN sockets
       /\ ~sockets[call[g].socket].idle
       /\ sockets[call[g].socket].asked = call[g].api
  /\ \A g, h \in Callers : call[g].pc = "poll" /\ call[h].pc = "poll" /\ g # h => call[g].socket # call[h].socket
  /\ \A s \in DOMAIN sockets : ~sockets[s].idle => \E g \in Callers : call[g].pc = "poll" /\ call[g].socket = s
  /\ \A g \in Callers : call[g].pc = "parse" =>
       /\ call[g].answer \in AnswerOf
       /\ call[g].answer.to = call[g].api /\ call[g].answer.date \in 1 .. kraken.version

IInv == TypeOK /\ SocketInv /\ CallInv /\ MetadataMatchDate

-----------------------------------------------------------------------------
(* The pool *)

\* A pool that is not empty has a newest socket.
LEMMA NewestInPool ==
    ASSUME TypeOK, SocketInv, Pool # {}
    PROVE  Newest \in Pool
  <1> DEFINE Ages == {n \in Nat : \E s \in Pool : n = now - sockets[s].t}
  <1>1. \A s \in Pool : sockets[s].t \in Nat /\ now - sockets[s].t \in Ages
    <2> TAKE s \in Pool
    <2>1. s \in DOMAIN sockets /\ sockets[s] \in Socket /\ sockets[s].t <= now
      BY DEF TypeOK, SocketInv, Pool
    <2>2. sockets[s].t \in Nat
      BY <2>1 DEF Socket
    <2> QED BY <2>1, <2>2 DEF TypeOK
  <1>2. Ages # {}
    BY <1>1
  <1>3. PICK m \in Ages : \A n \in Ages : ~(<<n, m>> \in OpToRel(<, Nat))
    BY <1>2, NatLessThanWellFounded, WFMin, Zenon
  <1>4. \A n \in Ages : ~(n < m)
    BY <1>3 DEF OpToRel
  <1>5. PICK s \in Pool : m = now - sockets[s].t
    BY <1>3
  <1>6. \A x \in Pool : sockets[x].t <= sockets[s].t
    <2> TAKE x \in Pool
    <2>1. ~(now - sockets[x].t < now - sockets[s].t)
      BY <1>1, <1>4, <1>5
    <2> QED BY <1>1, <2>1 DEF TypeOK
  <1> QED BY <1>5, <1>6 DEF Newest

\* The number of a new socket is one that no kept socket has.
LEMMA FreeNumber ==
    ASSUME TypeOK, NEW kept, DOMAIN kept \subseteq DOMAIN sockets,
           Cardinality(DOMAIN sockets) < MaxSockets \/ DOMAIN kept # DOMAIN sockets
    PROVE  \E x \in 1 .. MaxSockets : x \notin DOMAIN kept
  <1>1. CASE DOMAIN kept # DOMAIN sockets
    BY <1>1 DEF TypeOK
  <1>2. CASE Cardinality(DOMAIN sockets) < MaxSockets
    <2>1. SUFFICES ASSUME 1 .. MaxSockets \subseteq DOMAIN kept
                   PROVE  FALSE
      OBVIOUS
    <2>2. DOMAIN sockets = 1 .. MaxSockets
      BY <2>1 DEF TypeOK
    <2>3. Cardinality(1 .. MaxSockets) = MaxSockets
      BY FS_Interval, KrakenClientAssumption
    <2> QED BY <1>2, <2>2, <2>3, KrakenClientAssumption
  <1> QED BY <1>1, <1>2

\* What a call gets (get_socket): a socket that is its own from now on, young and without a question,
\* while the sockets of other calls stay as they are.
LEMMA GetSocket ==
    ASSUME TypeOK, SocketInv, Cardinality(DOMAIN sockets) < MaxSockets \/ Pool # {},
           NEW got, got = get_socket
    PROVE  /\ DOMAIN got.all \subseteq 1 .. MaxSockets /\ got.id \in DOMAIN got.all
           /\ got.all \in [DOMAIN got.all -> Socket]
           /\ got.id \in DOMAIN sockets => sockets[got.id].idle
           /\ ~got.all[got.id].idle /\ got.all[got.id].answer = Nothing
           /\ got.all[got.id].t <= now /\ now - got.all[got.id].t < Ttl
           /\ \A s \in DOMAIN got.all \ {got.id} : s \in DOMAIN sockets /\ got.all[s] = sockets[s]
           /\ \A s \in DOMAIN sockets : ~sockets[s].idle => s \in DOMAIN got.all
  <1> DEFINE Good(g) ==
           /\ DOMAIN g.all \subseteq 1 .. MaxSockets /\ g.id \in DOMAIN g.all
           /\ g.all \in [DOMAIN g.all -> Socket]
           /\ g.id \in DOMAIN sockets => sockets[g.id].idle
           /\ ~g.all[g.id].idle /\ g.all[g.id].answer = Nothing
           /\ g.all[g.id].t <= now /\ now - g.all[g.id].t < Ttl
           /\ \A s \in DOMAIN g.all \ {g.id} : s \in DOMAIN sockets /\ g.all[s] = sockets[s]
           /\ \A s \in DOMAIN sockets : ~sockets[s].idle => s \in DOMAIN g.all
  <1>1. ASSUME NEW kept, DOMAIN kept \subseteq DOMAIN sockets,
               kept = [s \in DOMAIN kept |-> sockets[s]],
               \A s \in DOMAIN sockets : ~sockets[s].idle => s \in DOMAIN kept,
               \A s \in DOMAIN sockets \ DOMAIN kept : sockets[s].idle,
               Cardinality(DOMAIN sockets) < MaxSockets \/ DOMAIN kept # DOMAIN sockets
        PROVE  Good(make_new_socket(kept))
    <2> DEFINE x == CHOOSE y \in 1 .. MaxSockets : y \notin DOMAIN kept
               new == [t |-> now, idle |-> FALSE, asked |-> "", answer |-> Nothing]
               all == [y \in (DOMAIN kept) \cup {x} |-> IF y = x THEN new ELSE kept[y]]
    <2>1. x \in 1 .. MaxSockets /\ x \notin DOMAIN kept
      BY <1>1, FreeNumber
    <2>2. make_new_socket(kept) = [id |-> x, all |-> all]
      BY DEF make_new_socket
    <2>3. new \in Socket
      BY DEF TypeOK, Socket
    <2> HIDE DEF x, new
    <2>4. all \in [DOMAIN all -> Socket]
      BY <1>1, <2>1, <2>3 DEF TypeOK
    <2>5. new.t = now /\ ~new.idle /\ new.answer = Nothing
      BY DEF new
    <2>6. all[x] = new /\ DOMAIN all = (DOMAIN kept) \cup {x} /\ \A s \in DOMAIN all \ {x} : all[s] = sockets[s]
      BY <1>1
    <2>7. new.t <= now /\ now - new.t < Ttl
      BY <2>5, KrakenClientAssumption DEF TypeOK
    <2> HIDE DEF all
    <2>8. Good([id |-> x, all |-> all])
      BY <1>1, <2>1, <2>4, <2>5, <2>6, <2>7 DEF TypeOK
    <2> QED BY <2>2, <2>8
  <1>2. CASE Pool = {}
    <2>1. sockets = [s \in DOMAIN sockets |-> sockets[s]]
      BY DEF TypeOK
    <2>2. Good(make_new_socket(sockets))
      BY <1>1, <1>2, <2>1 DEF Pool
    <2> QED BY <1>2, <2>2 DEF get_socket
  <1>3. CASE Pool # {} /\ now - sockets[Newest].t < Ttl
    <2>1. Newest \in Pool
      BY <1>3, NewestInPool
    <2> DEFINE all == [sockets EXCEPT ![Newest].idle = FALSE]
    <2>2. got = [id |-> Newest, all |-> all]
      BY <1>3 DEF get_socket
    <2>3. /\ Newest \in DOMAIN sockets /\ sockets[Newest] \in Socket /\ sockets[Newest].idle
          /\ sockets[Newest].answer = Nothing /\ sockets[Newest].t <= now
      BY <2>1 DEF Pool, TypeOK, SocketInv
    <2>4. /\ DOMAIN all = DOMAIN sockets
          /\ all[Newest] = [sockets[Newest] EXCEPT !.idle = FALSE]
          /\ \A s \in DOMAIN all \ {Newest} : all[s] = sockets[s]
      BY <2>3 DEF TypeOK
    <2>5. /\ all[Newest] \in Socket /\ ~all[Newest].idle /\ all[Newest].answer = Nothing
          /\ all[Newest].t = sockets[Newest].t
      BY <2>3, <2>4 DEF Socket
    <2>6. all \in [DOMAIN all -> Socket]
      BY <2>4, <2>5 DEF TypeOK
    <2> HIDE DEF all
    <2>7. Good([id |-> Newest, all |-> all])
      BY <1>3, <2>3, <2>4, <2>5, <2>6 DEF TypeOK
    <2> QED BY <2>2, <2>7
  <1>4. CASE Pool # {} /\ ~(now - sockets[Newest].t < Ttl)
    <2> DEFINE kept == Keep((DOMAIN sockets) \ Pool)
    <2>1. /\ DOMAIN kept = (DOMAIN sockets) \ Pool
          /\ kept = [s \in DOMAIN kept |-> sockets[s]]
      BY DEF Keep
    <2>2. got = make_new_socket(kept)
      BY <1>4 DEF get_socket
    <2> HIDE DEF kept
    <2>3. Good(make_new_socket(kept))
      BY <1>1, <1>4, <2>1 DEF Pool
    <2> QED BY <2>2, <2>3
  <1> QED BY <1>2, <1>3, <1>4
-----------------------------------------------------------------------------
(* Preservation of the invariant, action by action *)

\* The calls that have begun and not ended are those with a question.
LEMMA ActiveCalls ==
    ASSUME TypeOK, NEW g \in Callers, call[g].pc \in {"call", "poll", "parse"}
    PROVE  call[g] \in ActiveCall
  <1>1. call[g] \in {Idle} \cup ActiveCall \cup EndedCall
    BY DEF TypeOK
  <1>2. Idle.pc = "idle" /\ \A c \in EndedCall : c.pc = "over"
    BY DEF Idle, EndedCall
  <1> QED BY <1>1, <1>2

\* A call takes a socket of its own and sends its question on it.
LEMMA SendPreserves ==
    ASSUME IInv, NEW g \in Callers, Send(g)
    PROVE  IInv'
  <1> DEFINE got == get_socket
  <1> USE DEF IInv
  <1>1. call[g] \in ActiveCall /\ call[g].pc = "call"
    BY ActiveCalls DEF Send
  <1>2. /\ sockets' = [got.all EXCEPT ![got.id].asked = call[g].api]
        /\ call' = [call EXCEPT ![g].pc = "poll", ![g].socket = got.id, ![g].until = now + Timeout]
        /\ UNCHANGED <<breaker, inst, kraken, ping, now, calls, breaks, downs>>
    BY DEF Send
  <1> HIDE DEF got
  <1>3. /\ DOMAIN got.all \subseteq 1 .. MaxSockets /\ got.id \in DOMAIN got.all
        /\ got.all \in [DOMAIN got.all -> Socket]
        /\ got.id \in DOMAIN sockets => sockets[got.id].idle
        /\ ~got.all[got.id].idle /\ got.all[got.id].answer = Nothing
        /\ got.all[got.id].t <= now /\ now - got.all[got.id].t < Ttl
        /\ \A s \in DOMAIN got.all \ {got.id} : s \in DOMAIN sockets /\ got.all[s] = sockets[s]
        /\ \A s \in DOMAIN sockets : ~sockets[s].idle => s \in DOMAIN got.all
    BY GetSocket DEF Send, got
  <1>4. /\ call' \in [Callers -> {Idle} \cup ActiveCall \cup EndedCall]
        /\ call'[g].pc = "poll" /\ call'[g].socket = got.id /\ call'[g].api = call[g].api
        /\ \A h \in Callers \ {g} : call'[h] = call[h]
    <2>1. got.id \in Nat /\ now + Timeout \in Int
      BY <1>3, KrakenClientAssumption DEF TypeOK
    <2>2. [call[g] EXCEPT !.pc = "poll", !.socket = got.id, !.until = now + Timeout] \in ActiveCall
      BY <1>1, <2>1 DEF ActiveCall
    <2> QED BY <1>1, <1>2, <2>2 DEF TypeOK, ActiveCall
  <1>5. /\ DOMAIN sockets' = DOMAIN got.all
        /\ sockets'[got.id] = [got.all[got.id] EXCEPT !.asked = call[g].api]
        /\ \A s \in DOMAIN sockets' \ {got.id} : s \in DOMAIN sockets /\ sockets'[s] = sockets[s]
    BY <1>2, <1>3
  <1>6. /\ sockets'[got.id] \in Socket /\ ~sockets'[got.id].idle /\ sockets'[got.id].answer = Nothing
        /\ sockets'[got.id].t <= now /\ sockets'[got.id].asked = call[g].api
    <2>1. got.all[got.id] \in Socket /\ call[g].api \in Apis \cup {"metadatas"}
      BY <1>1, <1>3 DEF ActiveCall
    <2>2. sockets'[got.id] \in Socket
      BY <1>5, <2>1 DEF Socket
    <2> QED BY <1>3, <1>5, <2>1, <2>2 DEF Socket
  <1>7. TypeOK'
    <2>1. sockets' \in [DOMAIN sockets' -> Socket]
      BY <1>2, <1>3, <1>5, <1>6
    <2> QED BY <1>2, <1>3, <1>4, <1>5, <2>1 DEF TypeOK
  <1>8. SocketInv'
    <2>1. ASSUME NEW s \in DOMAIN sockets'
          PROVE  /\ sockets'[s].t <= now
                 /\ sockets'[s].idle => sockets'[s].asked = "" /\ sockets'[s].answer = Nothing
                 /\ sockets'[s].answer # Nothing =>
                      sockets'[s].answer.to = sockets'[s].asked /\ sockets'[s].answer.date \in 1 .. kraken.version
      <3>1. CASE s = got.id
        BY <1>6, <3>1
      <3>2. CASE s # got.id
        BY <1>5, <3>2 DEF SocketInv
      <3> QED BY <3>1, <3>2
    <2> QED BY <1>2, <2>1 DEF SocketInv
  <1>9. CallInv'
    <2>1. \A h \in Callers \ {g} : call[h].pc = "poll" => /\ call[h].socket # got.id
                                                          /\ call[h].socket \in DOMAIN sockets'
                                                          /\ sockets'[call[h].socket] = sockets[call[h].socket]
      BY <1>3, <1>5 DEF CallInv
    <2>2. \A s \in DOMAIN sockets' : ~sockets'[s].idle => \E h \in Callers : call'[h].pc = "poll" /\ call'[h].socket = s
      BY <1>1, <1>4, <1>5 DEF CallInv
    <2>3. ASSUME NEW h \in Callers, call'[h].pc = "poll"
          PROVE  /\ call'[h].socket \in DOMAIN sockets' /\ ~sockets'[call'[h].socket].idle
                 /\ sockets'[call'[h].socket].asked = call'[h].api
      <3>1. CASE h = g
        BY <1>3, <1>4, <1>5, <1>6, <3>1
      <3>2. CASE h # g
        BY <1>4, <2>1, <2>3, <3>2 DEF CallInv
      <3> QED BY <3>1, <3>2
    <2>4. \A h, k \in Callers : call'[h].pc = "poll" /\ call'[k].pc = "poll" /\ h # k => call'[h].socket # call'[k].socket
      BY <1>4, <2>1 DEF CallInv
    <2>5. \A h \in Callers : call'[h].pc = "parse" => call[h].pc = "parse" /\ call'[h] = call[h]
      BY <1>4
    <2>6. \A h \in Callers : call'[h].pc = "parse" =>
            /\ call'[h].answer \in AnswerOf
            /\ call'[h].answer.to = call'[h].api /\ call'[h].answer.date \in 1 .. kraken'.version
      BY <1>2, <2>5 DEF CallInv
    <2> QED BY <2>2, <2>3, <2>4, <2>6 DEF CallInv
  <1>10. MetadataMatchDate'
    BY <1>2 DEF MetadataMatchDate
  <1> QED BY <1>7, <1>8, <1>9, <1>10

\* Who ends its call closes the socket it waited on.
LEMMA ClosePreserves ==
    ASSUME IInv, NEW g \in Callers, call[g].pc = "poll", NEW r \in {"dead", "error"},
           sockets' = Close(call[g].socket),
           call' = [call EXCEPT ![g] = [pc |-> "over", result |-> r]],
           breaker' = Failed(g), breaks' \in Nat,
           UNCHANGED <<inst, kraken, ping, now, calls, downs>>
    PROVE  IInv'
  <1> USE DEF IInv
  <1> DEFINE x == call[g].socket
  <1>1. call[g] \in ActiveCall
    BY ActiveCalls
  <1>2. DOMAIN sockets' = DOMAIN sockets \ {x} /\ \A s \in DOMAIN sockets' : sockets'[s] = sockets[s]
    BY DEF Close, Keep
  <1>3. /\ call' \in [Callers -> {Idle} \cup ActiveCall \cup EndedCall]
        /\ call'[g].pc = "over" /\ \A h \in Callers \ {g} : call'[h] = call[h]
    <2>1. [pc |-> "over", result |-> r] \in EndedCall
      BY DEF EndedCall
    <2> QED BY <2>1 DEF TypeOK
  <1>4. breaker' \in [fails : Nat, opened : BOOLEAN, since : Nat]
    BY KrakenClientAssumption DEF Failed, AfterFailure, TypeOK
  <1>5. TypeOK'
    <2>1. sockets' \in [DOMAIN sockets' -> Socket]
      BY <1>2 DEF TypeOK, Close, Keep
    <2> QED BY <1>2, <1>3, <1>4, <2>1 DEF TypeOK
  <1>6. SocketInv'
    BY <1>2 DEF SocketInv
  <1>7. CallInv'
    <2>1. \A h \in Callers \ {g} : call[h].pc = "poll" => call[h].socket \in DOMAIN sockets'
      BY <1>2 DEF CallInv
    <2>2. \A s \in DOMAIN sockets' : ~sockets'[s].idle => \E h \in Callers : call'[h].pc = "poll" /\ call'[h].socket = s
      BY <1>2, <1>3 DEF CallInv
    <2> QED BY <1>2, <1>3, <2>1, <2>2 DEF CallInv
  <1>8. MetadataMatchDate'
    BY DEF MetadataMatchDate
  <1> QED BY <1>5, <1>6, <1>7, <1>8

\* A call that times out closes its socket: the answer that comes later reaches nobody.
LEMMA TimedOutPreserves ==
    ASSUME IInv, NEW g \in Callers, TimedOut(g)
    PROVE  IInv'
  <1>1. breaks' \in Nat
    BY DEF IInv, TypeOK, TimedOut
  <1> QED BY <1>1, ClosePreserves DEF TimedOut

\* An exception on a socket closes it too.
LEMMA BrokenPreserves ==
    ASSUME IInv, NEW g \in Callers, Broken(g)
    PROVE  IInv'
  <1>1. breaks' \in Nat
    BY DEF IInv, TypeOK, Broken
  <1> QED BY <1>1, ClosePreserves DEF Broken

\* The answer goes to the call that waits on the socket, and the socket goes back to the pool
\* with nothing, or is closed.
LEMMA ReceivePreserves ==
    ASSUME IInv, NEW g \in Callers, Receive(g)
    PROVE  IInv'
  <1> USE DEF IInv
  <1> DEFINE x == call[g].socket
             clean == [sockets[x] EXCEPT !.idle = TRUE, !.asked = "", !.answer = Nothing]
  <1>1. call[g] \in ActiveCall /\ call[g].pc = "poll"
    BY ActiveCalls DEF Receive
  <1>2. x \in DOMAIN sockets /\ ~sockets[x].idle /\ sockets[x].asked = call[g].api /\ sockets[x] \in Socket
    BY <1>1 DEF CallInv, TypeOK
  <1>3. /\ sockets[x].answer # Nothing
        /\ call' = [call EXCEPT ![g].pc = "parse", ![g].answer = sockets[x].answer]
        /\ UNCHANGED <<breaker, inst, kraken, ping, now, calls, breaks, downs>>
        /\ sockets' = ReturnSocket(x)
    BY DEF Receive
  <1>4. /\ sockets[x].answer \in AnswerOf /\ sockets[x].answer.to = call[g].api
        /\ sockets[x].answer.date \in 1 .. kraken.version
    BY <1>2, <1>3 DEF SocketInv, Socket
  <1>5. /\ call' \in [Callers -> {Idle} \cup ActiveCall \cup EndedCall]
        /\ call'[g].pc = "parse" /\ call'[g].answer = sockets[x].answer /\ call'[g].api = call[g].api
        /\ \A h \in Callers \ {g} : call'[h] = call[h]
    <2>1. [call[g] EXCEPT !.pc = "parse", !.answer = sockets[x].answer] \in ActiveCall
      BY <1>1, <1>4 DEF ActiveCall
    <2> QED BY <1>1, <1>3, <2>1 DEF TypeOK, ActiveCall
  <1>6. /\ clean \in Socket /\ clean.idle /\ clean.asked = "" /\ clean.answer = Nothing
        /\ clean.t <= now
    BY <1>2 DEF Socket, SocketInv
  <1>7. /\ DOMAIN sockets' \subseteq DOMAIN sockets /\ (DOMAIN sockets) \ {x} \subseteq DOMAIN sockets'
        /\ \A s \in DOMAIN sockets' \ {x} : sockets'[s] = sockets[s]
        /\ x \in DOMAIN sockets' => sockets'[x] = clean
        /\ sockets' \in [DOMAIN sockets' -> Socket]
    <2>1. CASE now - sockets[x].t >= Ttl
      <3>1. sockets' = [s \in (DOMAIN sockets) \ {x} |-> sockets[s]]
        BY <1>3, <2>1 DEF ReturnSocket, Close, Keep
      <3> QED BY <3>1 DEF TypeOK
    <2>2. CASE ~(now - sockets[x].t >= Ttl)
      <3>1. sockets' = [sockets EXCEPT ![x] = clean]
        BY <1>3, <2>2 DEF ReturnSocket
      <3> QED BY <1>2, <1>6, <3>1 DEF TypeOK
    <2> QED BY <2>1, <2>2
  <1> HIDE DEF clean, x
  <1>8. TypeOK'
    BY <1>3, <1>5, <1>7 DEF TypeOK
  <1>9. SocketInv'
    <2>1. ASSUME NEW s \in DOMAIN sockets'
          PROVE  /\ sockets'[s].t <= now
                 /\ sockets'[s].idle => sockets'[s].asked = "" /\ sockets'[s].answer = Nothing
                 /\ sockets'[s].answer # Nothing =>
                      sockets'[s].answer.to = sockets'[s].asked /\ sockets'[s].answer.date \in 1 .. kraken.version
      <3>1. CASE s = x
        BY <1>6, <1>7, <3>1
      <3>2. CASE s # x
        BY <1>7, <3>2 DEF SocketInv
      <3> QED BY <3>1, <3>2
    <2> QED BY <1>3, <2>1 DEF SocketInv
  <1>10. CallInv'
    <2>1. \A h \in Callers \ {g} : call[h].pc = "poll" => call[h].socket # x /\ call[h].socket \in DOMAIN sockets'
      BY <1>1, <1>7 DEF CallInv, x
    <2>2. ASSUME NEW s \in DOMAIN sockets', ~sockets'[s].idle
          PROVE  \E h \in Callers : call'[h].pc = "poll" /\ call'[h].socket = s
      <3>1. s # x /\ s \in DOMAIN sockets /\ ~sockets[s].idle
        BY <1>6, <1>7, <2>2
      <3>2. PICK h \in Callers : call[h].pc = "poll" /\ call[h].socket = s
        BY <3>1 DEF CallInv
      <3> QED BY <1>5, <3>1, <3>2 DEF x
    <2>3. ASSUME NEW h \in Callers, call'[h].pc = "poll"
          PROVE  /\ call'[h].socket \in DOMAIN sockets' /\ ~sockets'[call'[h].socket].idle
                 /\ sockets'[call'[h].socket].asked = call'[h].api
      <3>1. h # g /\ call'[h] = call[h]
        BY <1>5, <2>3
      <3> QED BY <1>7, <2>1, <2>3, <3>1 DEF CallInv
    <2>4. \A h, k \in Callers : call'[h].pc = "poll" /\ call'[k].pc = "poll" /\ h # k => call'[h].socket # call'[k].socket
      BY <1>5 DEF CallInv
    <2>5. ASSUME NEW h \in Callers, call'[h].pc = "parse"
          PROVE  /\ call'[h].answer \in AnswerOf
                 /\ call'[h].answer.to = call'[h].api /\ call'[h].answer.date \in 1 .. kraken'.version
      <3>1. CASE h = g
        BY <1>3, <1>4, <1>5, <3>1
      <3>2. CASE h # g
        BY <1>3, <1>5, <2>5, <3>2 DEF CallInv
      <3> QED BY <3>1, <3>2
    <2> QED BY <2>2, <2>3, <2>4, <2>5 DEF CallInv
  <1>11. MetadataMatchDate'
    BY <1>3 DEF MetadataMatchDate
  <1> QED BY <1>8, <1>9, <1>10, <1>11

\* A step of a call that neither holds nor takes a socket.
LEMMA CallMoves ==
    ASSUME IInv, NEW g \in Callers, call[g].pc # "poll",
           NEW c \in {Idle} \cup ActiveCall \cup EndedCall, c.pc \notin {"poll", "parse"},
           call' = [call EXCEPT ![g] = c], UNCHANGED <<sockets, kraken, now>>
    PROVE  SocketInv' /\ CallInv' /\ call' \in [Callers -> {Idle} \cup ActiveCall \cup EndedCall]
  <1> USE DEF IInv
  <1>1. /\ call' \in [Callers -> {Idle} \cup ActiveCall \cup EndedCall]
        /\ call'[g] = c /\ \A h \in Callers \ {g} : call'[h] = call[h]
    BY DEF TypeOK
  <1>2. SocketInv'
    BY DEF SocketInv
  <1>3. \A h \in Callers : call'[h].pc \in {"poll", "parse"} => call'[h] = call[h]
    BY <1>1
  <1>4. \A h \in Callers : call[h].pc = "poll" => call'[h] = call[h]
    BY <1>1
  <1>5. CallInv'
    BY <1>3, <1>4 DEF CallInv
  <1> QED BY <1>1, <1>2, <1>5

\* A call that begins is under way.
LEMMA CallingIsActive ==
    ASSUME TypeOK, NEW api \in Apis \cup {"metadatas"}, NEW init \in BOOLEAN
    PROVE  Calling(api, init) \in ActiveCall /\ Calling(api, init).pc = "call"
  BY DEF TypeOK, Calling, ActiveCall

\* _send_and_receive of a request, through the breaker.
LEMMA SendAndReceivePreserves ==
    ASSUME IInv, NEW g \in Greenlets, send_and_receive(g)
    PROVE  IInv'
  <1> USE DEF IInv
  <1>1. g \in Callers /\ call[g].pc = "idle"
    BY DEF Callers, send_and_receive
  <1>2. PICK api \in Apis :
          call' = [call EXCEPT ![g] = IF MayCall(breaker, now) THEN Calling(api, FALSE) ELSE [pc |-> "over", result |-> "dead"]]
    BY DEF send_and_receive
  <1> DEFINE c == IF MayCall(breaker, now) THEN Calling(api, FALSE) ELSE [pc |-> "over", result |-> "dead"]
  <1>3. c \in ActiveCall \cup EndedCall /\ c.pc \notin {"poll", "parse"}
    BY CallingIsActive DEF EndedCall
  <1> HIDE DEF c
  <1>4. /\ UNCHANGED <<sockets, breaker, inst, kraken, ping, now, breaks, downs>>
        /\ calls' = calls + 1
    BY DEF send_and_receive
  <1>5. SocketInv' /\ CallInv' /\ call' \in [Callers -> {Idle} \cup ActiveCall \cup EndedCall]
    BY <1>1, <1>2, <1>3, <1>4, CallMoves DEF c
  <1> QED BY <1>4, <1>5 DEF TypeOK, MetadataMatchDate

\* update_property takes what an answer says of the data.
LEMMA UpdatePreserves ==
    ASSUME IInv, NEW g \in Callers, update_property(g)
    PROVE  IInv'
  <1> USE DEF IInv
  <1> DEFINE c == [pc |-> "over", result |-> IF call[g].init /\ inst'.publication_date # call[g].date THEN "changed" ELSE "ok"]
             a == call[g].answer
  <1>1. /\ call[g].pc = "parse" /\ call' = [call EXCEPT ![g] = c]
        /\ inst' = Updated(inst, a) /\ UNCHANGED <<sockets, kraken, ping, now, calls, breaks, downs>>
        /\ breaker' = IF call[g].init THEN breaker ELSE AfterSuccess(breaker)
    BY DEF update_property
  <1>2. c \in EndedCall /\ c.pc = "over"
    BY DEF EndedCall
  <1> HIDE DEF c
  <1>3. SocketInv' /\ CallInv' /\ call' \in [Callers -> {Idle} \cup ActiveCall \cup EndedCall]
    BY <1>1, <1>2, CallMoves
  <1>4. breaker' \in [fails : Nat, opened : BOOLEAN, since : Nat]
    BY <1>1 DEF AfterSuccess, Closed, TypeOK
  <1>5. a \in AnswerOf /\ a.date \in 1 .. kraken.version
    BY <1>1 DEF CallInv
  <1>6. /\ inst' \in [publication_date : Int, geom : Int, timezone : Int, is_initialized : BOOLEAN]
        /\ inst'.geom = inst'.publication_date /\ inst'.timezone = inst'.publication_date
        /\ inst'.publication_date \in {-1} \cup 1 .. kraken.version
    <2>1. CASE a.metadatas /\ a.date # inst.publication_date
      <3>1. inst' = [publication_date |-> a.date, geom |-> a.date, timezone |-> a.date, is_initialized |-> TRUE]
        BY <1>1, <2>1 DEF Updated
      <3>2. a.date \in Int
        BY <1>5 DEF AnswerOf
      <3> QED BY <1>5, <3>1, <3>2
    <2>2. CASE ~(a.metadatas /\ a.date # inst.publication_date)
      <3>1. inst' = [inst EXCEPT !.is_initialized = TRUE]
        BY <1>1, <2>2 DEF Updated
      <3> QED BY <3>1 DEF TypeOK, MetadataMatchDate
    <2> QED BY <2>1, <2>2
  <1> QED BY <1>1, <1>3, <1>4, <1>6 DEF TypeOK, MetadataMatchDate

\* A request is over.
LEMMA OverPreserves ==
    ASSUME IInv, NEW g \in Callers, Over(g)
    PROVE  IInv'
  <1>1. SocketInv' /\ CallInv' /\ call' \in [Callers -> {Idle} \cup ActiveCall \cup EndedCall]
    BY CallMoves DEF Over, Idle
  <1> QED BY <1>1 DEF IInv, Over, TypeOK, MetadataMatchDate

\* A step that leaves sockets and calls alone, with a clock and a version that do not go back,
\* keeps what is known of them.
LEMMA NothingMoves ==
    ASSUME TypeOK, SocketInv, CallInv, UNCHANGED <<sockets, call>>,
           now' \in Nat, now <= now', kraken'.version \in Nat, kraken.version <= kraken'.version
    PROVE  SocketInv' /\ CallInv'
  <1>1. \A d \in 1 .. kraken.version : d \in 1 .. kraken'.version
    BY DEF TypeOK
  <1>2. SocketInv'
    <2>1. \A s \in DOMAIN sockets : sockets[s].t \in Nat
      BY DEF TypeOK, Socket
    <2>2. now \in Nat /\ \A s \in DOMAIN sockets : sockets[s].t <= now
      BY DEF TypeOK, SocketInv
    <2>3. \A s \in DOMAIN sockets : sockets[s].t <= now'
      BY <2>1, <2>2
    <2> QED BY <1>1, <2>3 DEF SocketInv
  <1>3. CallInv'
    BY <1>1 DEF CallInv
  <1> QED BY <1>2, <1>3

\* The thread that pings the krakens.
LEMMA PingPreserves ==
    ASSUME IInv, thread_ping
    PROVE  IInv'
  <1> USE DEF IInv
  <1>1. /\ call["ping"].pc # "poll" /\ "ping" \in Callers /\ ping' \in {"on", "off"}
        /\ UNCHANGED <<sockets, breaker, inst, kraken, now, calls, breaks, downs>>
    BY DEF thread_ping, Callers, TypeOK
  <1>2. CASE UNCHANGED call
    <2>1. TypeOK'
      BY <1>1, <1>2 DEF TypeOK
    <2>2. SocketInv' /\ CallInv'
      BY <1>1, <1>2, NothingMoves DEF TypeOK
    <2> QED BY <1>1, <2>1, <2>2 DEF MetadataMatchDate
  <1>3. CASE call' = [call EXCEPT !["ping"] = Calling("metadatas", TRUE)]
    <2>1. SocketInv' /\ CallInv' /\ call' \in [Callers -> {Idle} \cup ActiveCall \cup EndedCall]
      BY <1>1, <1>3, CallMoves, CallingIsActive
    <2> QED BY <1>1, <2>1 DEF TypeOK, MetadataMatchDate
  <1> QED BY <1>2, <1>3 DEF thread_ping

\* kraken answers the question of a socket.
LEMMA AnswerPreserves ==
    ASSUME IInv, NEW x \in DOMAIN sockets, Answer(x)
    PROVE  IInv'
  <1> USE DEF IInv
  <1> DEFINE a == [kind |-> "answer", to |-> sockets[x].asked, metadatas |-> sockets[x].asked = "metadatas", date |-> kraken.version]
  <1>1. /\ sockets' = [sockets EXCEPT ![x].answer = a] /\ sockets[x].asked # "" /\ sockets[x] \in Socket
        /\ UNCHANGED <<call, breaker, inst, kraken, ping, now, calls, breaks, downs>>
    BY DEF Answer, TypeOK
  <1>2. a \in AnswerOf /\ a.to = sockets[x].asked /\ a.date = kraken.version
    BY <1>1 DEF Socket, AnswerOf, TypeOK
  <1> HIDE DEF a
  <1>3. /\ DOMAIN sockets' = DOMAIN sockets /\ sockets'[x] = [sockets[x] EXCEPT !.answer = a]
        /\ \A s \in DOMAIN sockets \ {x} : sockets'[s] = sockets[s]
    BY <1>1 DEF TypeOK
  <1>4. /\ sockets'[x] \in Socket /\ sockets'[x].answer = a /\ sockets'[x].t = sockets[x].t
        /\ sockets'[x].idle = sockets[x].idle /\ sockets'[x].asked = sockets[x].asked
    BY <1>1, <1>2, <1>3 DEF Socket
  <1>5. ~sockets[x].idle
    BY <1>1 DEF SocketInv
  <1>6. TypeOK'
    <2>1. sockets' \in [DOMAIN sockets' -> Socket]
      BY <1>1, <1>3, <1>4 DEF TypeOK
    <2> QED BY <1>1, <1>3, <2>1 DEF TypeOK
  <1>7. SocketInv'
    <2>1. kraken.version \in 1 .. kraken.version
      BY DEF TypeOK
    <2> QED BY <1>1, <1>2, <1>3, <1>4, <1>5, <2>1 DEF SocketInv
  <1>8. \A s \in DOMAIN sockets : sockets'[s].idle = sockets[s].idle /\ sockets'[s].asked = sockets[s].asked
    BY <1>3, <1>4
  <1>9. CallInv'
    <2>1. \A g \in Callers : call'[g] = call[g]
      BY <1>1
    <2>2. \A g \in Callers : call[g].pc = "poll" =>
             /\ call[g].socket \in DOMAIN sockets /\ ~sockets[call[g].socket].idle
             /\ sockets[call[g].socket].asked = call[g].api
      BY DEF CallInv
    <2>3. \A g \in Callers : call'[g].pc = "poll" =>
             /\ call'[g].socket \in DOMAIN sockets' /\ ~sockets'[call'[g].socket].idle
             /\ sockets'[call'[g].socket].asked = call'[g].api
      BY <1>3, <1>8, <2>1, <2>2
    <2>4. \A s \in DOMAIN sockets' : ~sockets'[s].idle => \E g \in Callers : call'[g].pc = "poll" /\ call'[g].socket = s
      BY <1>3, <1>8, <2>1 DEF CallInv
    <2>5. \A g, h \in Callers : call'[g].pc = "poll" /\ call'[h].pc = "poll" /\ g # h => call'[g].socket # call'[h].socket
      BY <2>1 DEF CallInv
    <2>6. \A g \in Callers : call'[g].pc = "parse" =>
             /\ call'[g].answer \in AnswerOf
             /\ call'[g].answer.to = call'[g].api /\ call'[g].answer.date \in 1 .. kraken'.version
      BY <1>1, <2>1 DEF CallInv
    <2> QED BY <2>3, <2>4, <2>5, <2>6 DEF CallInv
  <1>10. MetadataMatchDate'
    BY <1>1 DEF MetadataMatchDate
  <1> QED BY <1>6, <1>7, <1>9, <1>10

\* The world around: kraken publishes, stops and starts, time passes.
LEMMA WorldPreserves ==
    ASSUME IInv, Publish \/ Down \/ Up \/ Tick
    PROVE  IInv'
  <1> USE DEF IInv
  <1>1. /\ UNCHANGED <<sockets, call, breaker, inst, ping, calls, breaks>>
        /\ now' \in Nat /\ now <= now' /\ downs' \in Nat
        /\ kraken' \in [up : BOOLEAN, version : Nat \ {0}] /\ kraken.version <= kraken'.version
    <2>1. CASE Publish
      BY <2>1 DEF Publish, TypeOK
    <2>2. CASE Down
      <3>1. kraken' = [up |-> FALSE, version |-> kraken.version]
        BY <2>2 DEF Down, TypeOK
      <3>2. kraken.version \in Nat \ {0} /\ now \in Nat /\ downs \in Nat
        BY DEF TypeOK
      <3>3. UNCHANGED <<sockets, call, breaker, inst, ping, calls, breaks, now>> /\ downs' \in Nat
        BY <2>2, <3>2 DEF Down
      <3> QED BY <3>1, <3>2, <3>3
    <2>3. CASE Up
      <3>1. kraken' = [up |-> TRUE, version |-> kraken.version]
        BY <2>3 DEF Up, TypeOK
      <3>2. kraken.version \in Nat \ {0} /\ now \in Nat /\ downs \in Nat
        BY DEF TypeOK
      <3>3. UNCHANGED <<sockets, call, breaker, inst, ping, calls, breaks, now>> /\ downs' \in Nat
        BY <2>3, <3>2 DEF Up
      <3> QED BY <3>1, <3>2, <3>3
    <2>4. CASE Tick
      BY <2>4 DEF Tick, TypeOK
    <2> QED BY <2>1, <2>2, <2>3, <2>4
  <1>2. TypeOK'
    BY <1>1 DEF TypeOK
  <1>3. SocketInv' /\ CallInv'
    BY <1>1, NothingMoves
  <1>4. MetadataMatchDate'
    BY <1>1 DEF MetadataMatchDate, TypeOK
  <1> QED BY <1>2, <1>3, <1>4

\* The socket of a call that is sent is younger than Ttl.
LEMMA SendOnlyYoung ==
    ASSUME IInv, NEW g \in Callers, Send(g)
    PROVE  /\ \A h \in Callers : call[h].pc = "idle" => call'[h].pc # "call"
           /\ \A h \in Callers : call[h].pc = "call" /\ call'[h].pc = "poll" => now - sockets'[call'[h].socket].t < Ttl
  <1>1. call[g].pc = "call" /\ (Cardinality(DOMAIN sockets) < MaxSockets \/ Pool # {})
    BY DEF Send
  <1>2. PICK got : /\ got = get_socket
                   /\ sockets' = [got.all EXCEPT ![got.id].asked = call[g].api]
                   /\ call' = [call EXCEPT ![g].pc = "poll", ![g].socket = got.id, ![g].until = now + Timeout]
    BY DEF Send
  <1>3. got.id \in DOMAIN got.all /\ got.all \in [DOMAIN got.all -> Socket] /\ now - got.all[got.id].t < Ttl
    BY <1>1, <1>2, GetSocket DEF IInv
  <1>4. sockets'[got.id].t = got.all[got.id].t
    <2>1. got.all[got.id] \in Socket
      BY <1>3
    <2>2. sockets'[got.id] = [got.all[got.id] EXCEPT !.asked = call[g].api]
      BY <1>2, <1>3
    <2> QED BY <2>1, <2>2 DEF Socket
  <1>5. call[g] \in ActiveCall
    BY <1>1, ActiveCalls DEF IInv
  <1>6. call'[g].socket = got.id /\ call'[g].pc = "poll" /\ \A h \in Callers : h # g => call'[h] = call[h]
    BY <1>2, <1>5 DEF IInv, TypeOK, ActiveCall
  <1> QED BY <1>3, <1>4, <1>6, <1>1

-----------------------------------------------------------------------------
(* The theorems *)

\* The pool is empty and nobody calls at first.
LEMMA InitIInv == Init => IInv
  <1> SUFFICES ASSUME Init PROVE IInv
    OBVIOUS
  <1>1. DOMAIN sockets = {} /\ sockets \in [{} -> Socket]
    BY DEF Init
  <1>2. \A g \in Callers : call[g] = Idle /\ call[g].pc = "idle"
    BY DEF Init, Idle
  <1>3. TypeOK
    BY <1>1 DEF Init, TypeOK, Closed, NewInstance, Idle
  <1>4. SocketInv /\ CallInv
    BY <1>1, <1>2 DEF SocketInv, CallInv
  <1>5. MetadataMatchDate
    BY DEF Init, NewInstance, MetadataMatchDate
  <1> QED BY <1>3, <1>4, <1>5 DEF IInv

\* Every step preserves the invariant.
LEMMA Inductive == IInv /\ [Next]_vars => IInv'
  <1> SUFFICES ASSUME IInv, [Next]_vars PROVE IInv'
    OBVIOUS
  <1>1. CASE \E g \in Callers : Progress(g) \/ Broken(g)
    <2>1. PICK g \in Callers : Progress(g) \/ Broken(g)
      BY <1>1
    <2> QED BY <2>1, SendPreserves, ReceivePreserves, TimedOutPreserves, UpdatePreserves, OverPreserves, BrokenPreserves
              DEF Progress
  <1>2. CASE \E g \in Greenlets : send_and_receive(g)
    BY <1>2, SendAndReceivePreserves DEF Callers
  <1>3. CASE thread_ping
    BY <1>3, PingPreserves
  <1>4. CASE Answers
    BY <1>4, AnswerPreserves DEF Answers
  <1>5. CASE Publish \/ Down \/ Up \/ Tick
    BY <1>5, WorldPreserves
  <1>6. CASE UNCHANGED vars
    <2>1. TypeOK' /\ MetadataMatchDate'
      BY <1>6 DEF vars, IInv, TypeOK, MetadataMatchDate
    <2>2. SocketInv' /\ CallInv'
      BY <1>6, NothingMoves DEF vars, IInv, TypeOK
    <2> QED BY <2>1, <2>2 DEF IInv
  <1> QED BY <1>1, <1>2, <1>3, <1>4, <1>5, <1>6 DEF Next

\* The inductive invariant holds in every state.
THEOREM Invariance == Spec => []IInv
  BY InitIInv, Inductive, PTL DEF Spec

\* Type correctness of the calls to a kraken: sockets, calls, breaker and instance keep their shape.
THEOREM TypeCorrectness == Spec => []TypeOK
  <1>1. IInv => TypeOK
    BY DEF IInv
  <1> QED BY <1>1, Invariance, PTL

\* transient_socket.py: a socket is in the pool or in one call, an answer reaches only the call that
\* asked for it, and instance.py takes what an answer says of the data as a whole.
THEOREM CallIsolation == Spec => []CallsKeepToThemselves
  <1>1. IInv => CallsKeepToThemselves
    <2> SUFFICES ASSUME IInv PROVE CallsKeepToThemselves
      OBVIOUS
    <2>1. SocketsAreOwned
      <3>1. \A g \in Waiting : call[g].socket \in (DOMAIN sockets) \ Pool
        BY DEF IInv, CallInv, Waiting, Pool
      <3>2. \A g, h \in Waiting : g # h => call[g].socket # call[h].socket
        BY DEF IInv, CallInv, Waiting
      <3>3. \A s \in (DOMAIN sockets) \ Pool : s \in {call[g].socket : g \in Waiting}
        BY DEF IInv, CallInv, Waiting, Pool
      <3> QED BY <3>1, <3>2, <3>3 DEF SocketsAreOwned
    <2>2. AnswersMatch
      BY DEF IInv, SocketInv, CallInv, AnswersMatch, Pool
    <2> QED BY <2>1, <2>2 DEF CallsKeepToThemselves, IInv
  <1> QED BY <1>1, Invariance, PTL

\* instance.py, transient_socket.py: while the breaker is open a request fails without a call, and
\* no call is sent on a socket whose time is over.
THEOREM BreakerAndAge == Spec => OpenIsRespected
  <1> DEFINE Respected ==
        /\ \A g \in Greenlets : call[g].pc = "idle" /\ call'[g].pc = "call" => MayCall(breaker, now)
        /\ \A g \in Callers : call[g].pc = "call" /\ call'[g].pc = "poll" => now - sockets'[call'[g].socket].t < Ttl
  <1>1. IInv /\ [Next]_vars => [Respected]_vars
    <2> SUFFICES ASSUME IInv, Next PROVE Respected
      OBVIOUS
    <2>1. ASSUME NEW g \in Callers, Send(g) PROVE Respected
      BY <2>1, SendOnlyYoung DEF Callers
    <2>2. ASSUME NEW g \in Callers, Receive(g) \/ TimedOut(g) \/ Broken(g) \/ update_property(g) \/ Over(g)
          PROVE  Respected
      <3>1. \A h \in Callers : h # g => call'[h] = call[h]
        BY <2>2 DEF IInv, TypeOK, Receive, TimedOut, Broken, update_property, Over
      <3>2. call'[g].pc \in {"parse", "over", "idle"}
        <4>1. CASE Receive(g)
          <5>1. call[g] \in ActiveCall
            BY <4>1, ActiveCalls DEF IInv, Receive
          <5> QED BY <4>1, <5>1 DEF Receive, IInv, TypeOK, ActiveCall
        <4>2. CASE TimedOut(g) \/ Broken(g)
          BY <4>2 DEF TimedOut, Broken, IInv, TypeOK
        <4>3. CASE update_property(g)
          BY <4>3 DEF update_property, IInv, TypeOK
        <4>4. CASE Over(g)
          BY <4>4 DEF Over, Idle, IInv, TypeOK
        <4> QED BY <2>2, <4>1, <4>2, <4>3, <4>4
      <3> QED BY <3>1, <3>2 DEF Callers
    <2>3. ASSUME NEW g \in Greenlets, send_and_receive(g) PROVE Respected
      <3>1. \A h \in Callers : h # g => call'[h] = call[h]
        BY <2>3 DEF IInv, TypeOK, send_and_receive, Callers
      <3>2. call[g].pc = "idle"
        BY <2>3 DEF send_and_receive
      <3>3. call'[g].pc = "call" => MayCall(breaker, now)
        <4>1. SUFFICES ASSUME ~MayCall(breaker, now) PROVE call'[g].pc # "call"
          OBVIOUS
        <4>2. g \in DOMAIN call
          BY DEF IInv, TypeOK, Callers
        <4>3. call'[g] = [pc |-> "over", result |-> "dead"]
          BY <2>3, <4>1, <4>2 DEF send_and_receive
        <4> QED BY <4>3
      <3> QED BY <3>1, <3>2, <3>3 DEF Callers
    <2>4. CASE thread_ping
      <3>1. \A h \in Callers : h # "ping" => call'[h] = call[h]
        BY <2>4 DEF IInv, TypeOK, thread_ping, Callers
      <3>2. call["ping"].pc # "call"
        BY <2>4 DEF thread_ping
      <3> QED BY <3>1, <3>2, KrakenClientAssumption DEF Callers
    <2>5. CASE Answers \/ Publish \/ Down \/ Up \/ Tick
      <3>1. call' = call
        BY <2>5 DEF Answers, Answer, Publish, Down, Up, Tick
      <3> QED BY <3>1
    <2> QED BY <2>1, <2>2, <2>3, <2>4, <2>5 DEF Next, Progress
  <1> QED BY <1>1, Invariance, PTL DEF Spec, OpenIsRespected

-----------------------------------------------------------------------------
(***************************************************************************)
(* The limiter of calls to the realtime services: any conditions, number   *)
(* of processes and blocks.                                                *)
(***************************************************************************)
CONSTANTS Conditions, Processes, Patient, Blocks, LockTimeout, InTime
VARIABLES log, logLeft, block, lock, proc, granted

Limiter == INSTANCE RateLimiter

\* What the proofs need to know of the settings: add_condition sorts, which the provers cannot compute and TLC
\* checks; the lock lasts for some time.
Condition == [requests : Nat, seconds : Nat \ {0}]
LimiterSettings ==
  /\ Limiter!conditions \in Seq(Condition)
  /\ Limiter!ConditionsAreSorted
  /\ "" \notin Processes /\ LockTimeout \in Nat \ {0} /\ Blocks \subseteq Nat /\ IsFiniteSet(Blocks)

\* A list of numbers has a largest one.
LEMMA LargestInList ==
    ASSUME NEW n \in Nat \ {0}, NEW f, \A i \in 1 .. n : f[i] \in Int
    PROVE  \E i \in 1 .. n : \A j \in 1 .. n : f[j] <= f[i]
  <1> DEFINE Has(m) == \E i \in 1 .. m : \A j \in 1 .. m : f[j] <= f[i]
             Without == {m \in Nat : m \in 1 .. n /\ ~Has(m)}
  <1> HIDE DEF Has
  <1> SUFFICES ASSUME Without # {} PROVE FALSE
    <2>1. n \in Nat /\ n \in 1 .. n
      OBVIOUS
    <2> QED BY <2>1 DEF Has
  <1>1. PICK m \in Without : \A k \in Without : ~(<<k, m>> \in OpToRel(<, Nat))
    BY NatLessThanWellFounded, WFMin, Zenon
  <1>2. \A k \in Without : ~(k < m)
    BY <1>1 DEF OpToRel
  <1>3. m # 1
    <2>1. f[1] <= f[1] /\ \A j \in 1 .. 1 : j = 1
      OBVIOUS
    <2>2. Has(1)
      BY <2>1 DEF Has
    <2> QED BY <1>1, <2>2
  <1>4. m \in Nat /\ m \in 1 .. n /\ m - 1 \in 1 .. n /\ m - 1 \in Nat /\ m - 1 < m
    <2>1. m \in Nat /\ m \in 1 .. n
      BY <1>1
    <2> QED BY <1>3, <2>1
  <1>5. Has(m - 1)
    BY <1>2, <1>4
  <1>6. PICK i \in 1 .. (m - 1) : \A j \in 1 .. (m - 1) : f[j] <= f[i]
    BY <1>5 DEF Has
  <1>7. \A j \in 1 .. m : j \in 1 .. (m - 1) \/ j = m
    BY <1>4
  <1>8. i \in 1 .. m /\ m \in 1 .. m /\ f[i] \in Int /\ f[m] \in Int /\ \A j \in 1 .. (m - 1) : f[j] \in Int
    BY <1>4
  <1>9. Has(m)
    <2>1. CASE f[m] <= f[i]
      <3>1. \A j \in 1 .. m : f[j] <= f[i]
        BY <1>6, <1>7, <2>1
      <3> QED BY <1>8, <3>1 DEF Has
    <2>2. CASE ~(f[m] <= f[i])
      <3>1. \A j \in 1 .. (m - 1) : f[j] <= f[m]
        BY <1>6, <1>8, <2>2
      <3>2. \A j \in 1 .. m : f[j] <= f[m]
        BY <1>7, <1>8, <3>1
      <3> QED BY <1>8, <3>2 DEF Has
    <2> QED BY <2>1, <2>2
  <1> QED BY <1>1, <1>9

\* So has a finite set that is not empty.
LEMMA LargestInSet ==
    ASSUME NEW S \in SUBSET Int, IsFiniteSet(S), S # {}
    PROVE  Limiter!Max(S) \in S /\ \A x \in S : x <= Limiter!Max(S)
  <1>1. PICK n \in Nat : ExistsBijection(1 .. n, S)
    BY FS_NatBijection
  <1>2. PICK f \in Bijection(1 .. n, S) : TRUE
    BY <1>1 DEF ExistsBijection
  <1>3. (\A i \in 1 .. n : f[i] \in S) /\ \A x \in S : \E i \in 1 .. n : f[i] = x
    BY <1>2 DEF Bijection, Injection, Surjection
  <1>4. n \in Nat \ {0} /\ \A i \in 1 .. n : f[i] \in Int
    <2>1. PICK x \in S : TRUE
      OBVIOUS
    <2>2. PICK i \in 1 .. n : f[i] = x
      BY <1>3, <2>1
    <2>3. \A j \in 1 .. n : f[j] \in Int
      BY <1>3
    <2> QED BY <2>2, <2>3
  <1>5. PICK i \in 1 .. n : \A j \in 1 .. n : f[j] <= f[i]
    BY <1>4, LargestInList
  <1>6. f[i] \in S /\ \A x \in S : f[i] >= x
    BY <1>3, <1>5
  <1>7. Limiter!Max(S) \in S /\ \A x \in S : Limiter!Max(S) >= x
    BY <1>6 DEF Limiter!Max
  <1> QED BY <1>7

LEMMA Smaller ==
    ASSUME NEW a \in Int, NEW b \in Int
    PROVE  Limiter!Min({a, b}) = IF a <= b THEN a ELSE b
  <1> DEFINE m == Limiter!Min({a, b})
  <1>1. \E x \in {a, b} : \A y \in {a, b} : x <= y
    OBVIOUS
  <1>2. m \in {a, b} /\ \A y \in {a, b} : m <= y
    BY <1>1 DEF Limiter!Min
  <1> QED BY <1>2

LEMMA LeastInSet ==
    ASSUME NEW S \in SUBSET Nat, S # {}
    PROVE  Limiter!Min(S) \in S
  <1>1. PICK m \in S : \A k \in S : ~(<<k, m>> \in OpToRel(<, Nat))
    BY NatLessThanWellFounded, WFMin, Zenon
  <1>2. \A k \in S : m <= k
    <2>1. \A k \in S : k \in Nat /\ m \in Nat
      OBVIOUS
    <2>2. \A k \in S : ~(k < m)
      BY <1>1, <2>1 DEF OpToRel
    <2> QED BY <2>1, <2>2
  <1> QED BY <1>2 DEF Limiter!Min

\* The longest period and the largest number of requests.
LEMMA Largest ==
    ASSUME LimiterSettings
    PROVE  /\ Limiter!list_ttl \in Nat /\ Limiter!Horizon = Limiter!list_ttl + 1
           /\ \A i \in DOMAIN Limiter!conditions :
                /\ Limiter!conditions[i].seconds \in Nat \ {0} /\ Limiter!conditions[i].requests \in Nat
                /\ Limiter!conditions[i].seconds <= Limiter!list_ttl
                /\ Limiter!conditions[1].requests <= Limiter!conditions[i].requests
                /\ Limiter!conditions[i].requests <= Limiter!max_requests
           /\ Limiter!conditions # <<>> =>
                1 \in DOMAIN Limiter!conditions /\ Limiter!max_requests \in Nat /\ Limiter!list_ttl >= 1
  <1> DEFINE C == Limiter!conditions
             S == {C[i].seconds : i \in DOMAIN C}
  <1>1. C \in Seq(Condition) /\ Len(C) \in Nat /\ DOMAIN C = 1 .. Len(C)
    <2>1. C \in Seq(Condition)
      BY Zenon DEF LimiterSettings
    <2> HIDE DEF C
    <2> QED BY <2>1
  <1>2. \A i \in DOMAIN C : C[i] \in Condition
    BY <1>1
  <1>3. \A i \in DOMAIN C : C[i].seconds \in Nat \ {0} /\ C[i].requests \in Nat
    BY <1>2 DEF Condition
  <1>4. CASE C = <<>>
    BY <1>1, <1>4 DEF Limiter!list_ttl, Limiter!Horizon
  <1>5. CASE C # <<>>
    <2>1. Len(C) \in DOMAIN C /\ 1 \in DOMAIN C
      BY <1>1, <1>5
    <2>2. PICK k \in DOMAIN C : \A j \in DOMAIN C : C[j].seconds <= C[k].seconds
      <3> DEFINE f == [i \in DOMAIN C |-> C[i].seconds]
                 n == Len(C)
      <3>1. n \in Nat \ {0} /\ \A i \in 1 .. n : f[i] \in Int /\ f[i] = C[i].seconds
        BY <1>1, <1>3, <1>5
      <3> HIDE DEF f, n
      <3>2. \E i \in 1 .. n : \A j \in 1 .. n : f[j] <= f[i]
        BY <3>1, LargestInList
      <3>3. DOMAIN C = 1 .. n
        BY <1>1 DEF n
      <3> QED BY <3>1, <3>2, <3>3
    <2>3. C[k].seconds \in S /\ \A y \in S : C[k].seconds >= y
      BY <1>3, <2>2
    <2>4. Limiter!list_ttl = Limiter!Max(S)
      BY <1>5 DEF Limiter!list_ttl
    <2>5. Limiter!Max(S) \in S /\ \A y \in S : Limiter!Max(S) >= y
      BY <2>3 DEF Limiter!Max
    <2>6. Limiter!list_ttl \in Nat \ {0} /\ \A i \in DOMAIN C : C[i].seconds <= Limiter!list_ttl
      BY <1>3, <2>4, <2>5
    <2>7. Limiter!max_requests = C[Len(C)].requests
      BY DEF Limiter!max_requests
    <2>8. \A i \in DOMAIN C : C[1].requests <= C[i].requests /\ C[i].requests <= C[Len(C)].requests
      <3>1. \A i, j \in DOMAIN C : i <= j => C[i].requests <= C[j].requests
        BY Zenon DEF LimiterSettings, Limiter!ConditionsAreSorted
      <3> QED BY <1>1, <2>1, <3>1
    <2> QED BY <1>3, <2>1, <2>6, <2>7, <2>8 DEF Limiter!Horizon
  <1> QED BY <1>4, <1>5

-----------------------------------------------------------------------------
(* What holds even when the lock expires while it is held *)

Bound == Limiter!Max({Limiter!list_ttl} \cup Blocks)
Shut == Limiter!conditions # <<>> /\ Limiter!conditions[1].requests = 0
Caller(pc, seen, wait, since) == [pc |-> pc, seen |-> seen, wait |-> wait, since |-> since]

\* A caller q when b is left of the block.
CallerOK(q, b) ==
  /\ q = Caller(q.pc, q.seen, q.wait, q.since) /\ q.since \in BOOLEAN
  /\ q.wait \in Nat /\ q.wait <= Bound
  /\ q.pc = "read" =>
       DOMAIN q.seen = DOMAIN Limiter!conditions /\ \A i \in DOMAIN Limiter!conditions : q.seen[i] = -1 \/ q.seen[i] \in Nat
  /\ q.pc = "record" => 1 \in DOMAIN q.seen /\ q.seen[1] \in Nat
  /\ Shut => q.pc \in {"idle", "ping", "no"}
  /\ Limiter!conditions = <<>> => q.pc \in {"idle", "ping", "yes"}
  /\ Limiter!conditions # <<>> /\ q.since /\ b > 0 => q.pc \notin {"read", "record", "allowed", "yes"}

LimiterInv ==
  /\ block \in Nat /\ block <= Bound /\ log \in Seq(Nat) /\ (Shut => granted = <<>>)
  /\ DOMAIN proc = Processes /\ \A p \in Processes : CallerOK(proc[p], block)

LEMMA BoundIsLargest ==
    ASSUME LimiterSettings
    PROVE  Bound \in Nat /\ Limiter!list_ttl <= Bound /\ \A s \in Blocks : s \in Nat /\ s <= Bound
  <1> DEFINE S == {Limiter!list_ttl} \cup Blocks
  <1>1. Limiter!list_ttl \in Nat /\ Blocks \subseteq Nat /\ IsFiniteSet(Blocks)
    BY Largest DEF LimiterSettings
  <1>2. IsFiniteSet(S)
    BY <1>1, FS_Singleton, FS_Union
  <1>3. S \in SUBSET Int /\ S # {} /\ S \subseteq Nat
    BY <1>1
  <1>4. Limiter!Max(S) \in S /\ \A x \in S : x <= Limiter!Max(S)
    BY <1>2, <1>3, LargestInSet
  <1> QED BY <1>3, <1>4 DEF Bound

\* What a step makes of its caller.
LEMMA TakeLockForm ==
    ASSUME NEW p \in DOMAIN proc, NEW o, o = proc[p], o = Caller(o.pc, o.seen, o.wait, o.since), Limiter!TakeLock(p)
    PROVE  proc' = [proc EXCEPT ![p] = Caller("locked", o.seen, o.wait, o.since)]
  <1>1. PICK n : n = [o EXCEPT !.pc = "locked"] /\ proc' = [proc EXCEPT ![p] = n]
    BY DEF Limiter!TakeLock
  <1>2. n = Caller("locked", o.seen, o.wait, o.since)
    BY <1>1 DEF Caller
  <1> QED BY <1>1, <1>2, Zenon

LEMMA RecordForm ==
    ASSUME NEW p \in DOMAIN proc, NEW o, o = proc[p], o = Caller(o.pc, o.seen, o.wait, o.since), Limiter!Record(p)
    PROVE  proc' = [proc EXCEPT ![p] = Caller("allowed", o.seen, o.wait, o.since)]
  <1>1. PICK n : n = [o EXCEPT !.pc = "allowed"] /\ proc' = [proc EXCEPT ![p] = n]
    BY DEF Limiter!Record
  <1>2. n = Caller("allowed", o.seen, o.wait, o.since)
    BY <1>1 DEF Caller
  <1> QED BY <1>1, <1>2, Zenon

LEMMA ShortcutForm ==
    ASSUME NEW p \in DOMAIN proc, NEW o, o = proc[p], o = Caller(o.pc, o.seen, o.wait, o.since), Limiter!Shortcut(p)
    PROVE  \/ Limiter!conditions = <<>> /\ proc' = [proc EXCEPT ![p] = Caller("yes", o.seen, o.wait, o.since)]
           \/ Limiter!conditions # <<>> /\ proc' = [proc EXCEPT ![p] = Caller("no", o.seen, Limiter!conditions[1].seconds, o.since)]
  <1>1. CASE Limiter!conditions = <<>>
    <2>1. PICK n : n = [o EXCEPT !.pc = "yes"] /\ proc' = [proc EXCEPT ![p] = n]
      BY <1>1 DEF Limiter!Shortcut
    <2>2. n = Caller("yes", o.seen, o.wait, o.since)
      BY <2>1 DEF Caller
    <2> QED BY <1>1, <2>1, <2>2, Zenon
  <1>2. CASE Limiter!conditions # <<>>
    <2>1. PICK n : n = [o EXCEPT !.pc = "no", !.wait = Limiter!conditions[1].seconds] /\ proc' = [proc EXCEPT ![p] = n]
      BY <1>2 DEF Limiter!Shortcut
    <2>2. n = Caller("no", o.seen, Limiter!conditions[1].seconds, o.since)
      BY <2>1 DEF Caller
    <2> QED BY <1>2, <2>1, <2>2, Zenon
  <1> QED BY <1>1, <1>2

LEMMA ReadForm ==
    ASSUME NEW p \in DOMAIN proc, NEW o, o = proc[p], o = Caller(o.pc, o.seen, o.wait, o.since), Limiter!Read(p)
    PROVE  \/ block > 0 /\ proc' = [proc EXCEPT ![p] = Caller("refused", o.seen, block, o.since)]
           \/ ~(block > 0) /\ proc' = [proc EXCEPT ![p] = Caller("read", Limiter!Boundaries, o.wait, o.since)]
  <1>1. CASE block > 0
    <2>1. PICK n : n = [o EXCEPT !.pc = "refused", !.wait = block] /\ proc' = [proc EXCEPT ![p] = n]
      BY <1>1 DEF Limiter!Read
    <2>2. n = Caller("refused", o.seen, block, o.since)
      BY <2>1 DEF Caller
    <2> QED BY <1>1, <2>1, <2>2, Zenon
  <1>2. CASE ~(block > 0)
    <2>1. PICK n : n = [o EXCEPT !.pc = "read", !.seen = Limiter!Boundaries] /\ proc' = [proc EXCEPT ![p] = n]
      BY <1>2 DEF Limiter!Read
    <2>2. n = Caller("read", Limiter!Boundaries, o.wait, o.since)
      BY <2>1 DEF Caller
    <2> QED BY <1>2, <2>1, <2>2, Zenon
  <1> QED BY <1>1, <1>2

LEMMA ReleaseForm ==
    ASSUME NEW p \in DOMAIN proc, NEW o, o = proc[p], o = Caller(o.pc, o.seen, o.wait, o.since), Limiter!Release(p)
    PROVE  \/ lock.by = p /\ o.pc = "allowed" /\ proc' = [proc EXCEPT ![p] = Caller("yes", o.seen, o.wait, o.since)]
           \/ lock.by = p /\ o.pc = "refused" /\ proc' = [proc EXCEPT ![p] = Caller("no", o.seen, o.wait, o.since)]
           \/ lock.by # p /\ proc' = [proc EXCEPT ![p] = Caller("error", o.seen, o.wait, o.since)]
  <1>1. CASE lock.by = p /\ o.pc = "allowed"
    <2>1. PICK n : n = [o EXCEPT !.pc = "yes"] /\ proc' = [proc EXCEPT ![p] = n]
      BY <1>1 DEF Limiter!Release
    <2>2. n = Caller("yes", o.seen, o.wait, o.since)
      BY <2>1 DEF Caller
    <2> QED BY <1>1, <2>1, <2>2, Zenon
  <1>2. CASE lock.by = p /\ o.pc = "refused"
    <2>1. PICK n : n = [o EXCEPT !.pc = "no"] /\ proc' = [proc EXCEPT ![p] = n]
      BY <1>2 DEF Limiter!Release
    <2>2. n = Caller("no", o.seen, o.wait, o.since)
      BY <2>1 DEF Caller
    <2> QED BY <1>2, <2>1, <2>2, Zenon
  <1>3. CASE lock.by # p
    <2>1. PICK n : n = [o EXCEPT !.pc = "error"] /\ proc' = [proc EXCEPT ![p] = n]
      BY <1>3 DEF Limiter!Release
    <2>2. n = Caller("error", o.seen, o.wait, o.since)
      BY <2>1 DEF Caller
    <2> QED BY <1>3, <2>1, <2>2, Zenon
  <1> QED BY <1>1, <1>2, <1>3 DEF Limiter!Release

LEMMA AcquireForm ==
    ASSUME NEW p \in DOMAIN proc, NEW o, o = proc[p], o = Caller(o.pc, o.seen, o.wait, o.since), Limiter!acquire(p) \/ Limiter!Retry(p)
    PROVE  \E since \in BOOLEAN :
             since = (block > 0) /\ proc' = [proc EXCEPT ![p] = Caller("ping", o.seen, o.wait, since)]
  <1> DEFINE since == block > 0
  <1>1. since \in BOOLEAN
    OBVIOUS
  <1>2. PICK n : n = [o EXCEPT !.pc = "ping", !.since = since] /\ proc' = [proc EXCEPT ![p] = n]
    BY DEF Limiter!acquire, Limiter!Retry
  <1> HIDE DEF since
  <1>3. n = Caller("ping", o.seen, o.wait, since)
    BY <1>2 DEF Caller
  <1> QED BY <1>1, <1>2, <1>3, Zenon DEF since

LEMMA DecideForm ==
    ASSUME NEW p \in DOMAIN proc, NEW o, o = proc[p], o = Caller(o.pc, o.seen, o.wait, o.since), Limiter!Decide(p)
    PROVE  \/ /\ Limiter!Hit(o.seen) = {}
              /\ proc' = [proc EXCEPT ![p] = Caller("record", << 0 >>, o.wait, o.since)]
           \/ /\ Limiter!Hit(o.seen) # {} /\ granted' = granted
              /\ \E i, wait : /\ i = Limiter!Min(Limiter!Hit(o.seen)) /\ wait = Limiter!conditions[i].seconds - o.seen[i]
                              /\ proc' = [proc EXCEPT ![p] = Caller("refused", <<>>, wait, o.since)]
  <1>1. CASE Limiter!Hit(o.seen) = {}
    <2>1. PICK n : n = [o EXCEPT !.pc = "record", !.seen = << 0 >>] /\ proc' = [proc EXCEPT ![p] = n]
      BY <1>1 DEF Limiter!Decide
    <2>2. n = Caller("record", << 0 >>, o.wait, o.since)
      BY <2>1 DEF Caller
    <2> QED BY <1>1, <2>1, <2>2, Zenon
  <1>2. CASE Limiter!Hit(o.seen) # {}
    <2> DEFINE i == Limiter!Min(Limiter!Hit(o.seen))
               wait == Limiter!conditions[i].seconds - o.seen[i]
    <2>1. PICK n : n = [o EXCEPT !.pc = "refused", !.wait = wait, !.seen = <<>>] /\ proc' = [proc EXCEPT ![p] = n] /\ granted' = granted
      BY <1>2 DEF Limiter!Decide
    <2> HIDE DEF wait
    <2>2. n = Caller("refused", <<>>, wait, o.since)
      BY <2>1 DEF Caller
    <2> QED BY <1>2, <2>1, <2>2, Zenon DEF wait
  <1> QED BY <1>1, <1>2

LEMMA OldCaller ==
    ASSUME LimiterInv, NEW p \in Processes, NEW o, o = proc[p]
    PROVE  /\ p \in DOMAIN proc /\ o = Caller(o.pc, o.seen, o.wait, o.since) /\ o.since \in BOOLEAN
           /\ o.wait \in Nat /\ o.wait <= Bound
           /\ Shut => o.pc \in {"idle", "ping", "no"}
           /\ Limiter!conditions = <<>> => o.pc \in {"idle", "ping", "yes"}
           /\ Limiter!conditions # <<>> /\ o.since /\ block > 0 => o.pc \notin {"read", "record", "allowed", "yes"}
           /\ o.pc = "read" =>
                /\ DOMAIN o.seen = DOMAIN Limiter!conditions
                /\ \A i \in DOMAIN Limiter!conditions : o.seen[i] = -1 \/ o.seen[i] \in Nat
           /\ o.pc = "record" => 1 \in DOMAIN o.seen /\ o.seen[1] \in Nat
  BY DEF LimiterInv, CallerOK

Fits(pc, seen, wait, since) ==
  /\ wait \in Nat /\ wait <= Bound /\ since \in BOOLEAN
  /\ Shut => pc \in {"idle", "ping", "no"}
  /\ Limiter!conditions = <<>> => pc \in {"idle", "ping", "yes"}
  /\ Limiter!conditions # <<>> /\ since /\ block > 0 => pc \notin {"read", "record", "allowed", "yes"}
  /\ pc = "read" => /\ DOMAIN seen = DOMAIN Limiter!conditions
                    /\ \A i \in DOMAIN Limiter!conditions : seen[i] = -1 \/ seen[i] \in Nat
  /\ pc = "record" => 1 \in DOMAIN seen /\ seen[1] \in Nat

LEMMA NewCaller ==
    ASSUME LimiterInv, NEW p \in Processes, NEW pc, NEW seen, NEW wait, NEW since, Fits(pc, seen, wait, since),
           proc' = [proc EXCEPT ![p] = Caller(pc, seen, wait, since)], block' = block
    PROVE  DOMAIN proc' = Processes /\ \A r \in Processes : CallerOK(proc'[r], block')
  <1> DEFINE q == Caller(pc, seen, wait, since)
  <1>1. q.pc = pc /\ q.seen = seen /\ q.wait = wait /\ q.since = since
    BY DEF Caller
  <1>2. CallerOK(q, block)
    <2>1. q = Caller(q.pc, q.seen, q.wait, q.since)
      BY <1>1, Zenon
    <2> HIDE DEF q
    <2> QED BY <1>1, <2>1 DEF CallerOK, Fits
  <1>3. DOMAIN proc' = Processes /\ \A r \in Processes : proc'[r] = q \/ proc'[r] = proc[r]
    BY DEF LimiterInv
  <1> QED BY <1>2, <1>3 DEF LimiterInv

\* What is pushed to the log: the new age first, and no more than the largest condition needs.
PushIsLogOf(age, new) ==
  /\ new \in Seq(Nat)
  /\ Len(new) = IF Len(log) + 1 <= Limiter!max_requests THEN Len(log) + 1 ELSE Limiter!max_requests
  /\ \A i \in 1 .. Len(new) : new[i] = IF i = 1 THEN age ELSE log[i - 1]

LEMMA PushedLog ==
    ASSUME log \in Seq(Nat), NEW age \in Nat, Limiter!max_requests \in Nat
    PROVE  PushIsLogOf(age, Limiter!Push(age))
  <1> DEFINE all == <<age>> \o log
             m == Limiter!max_requests
             n == IF Len(log) + 1 <= m THEN Len(log) + 1 ELSE m
  <1>1. <<age>> \in Seq(Nat) /\ Len(<<age>>) = 1 /\ <<age>>[1] = age /\ Len(log) \in Nat
    OBVIOUS
  <1> HIDE DEF m
  <1>2. /\ all \in Seq(Nat) /\ Len(all) = Len(log) + 1
        /\ \A i \in 1 .. Len(all) : all[i] = IF i = 1 THEN age ELSE log[i - 1]
    <2>1. all \in Seq(Nat) /\ Len(all) = 1 + Len(log)
      BY <1>1, ConcatProperties
    <2>2. \A i \in 1 .. (1 + Len(log)) : all[i] = IF i <= 1 THEN <<age>>[i] ELSE log[i - 1]
      BY <1>1, ConcatProperties
    <2> QED BY <1>1, <2>1, <2>2
  <1>3. Limiter!Push(age) = SubSeq(all, 1, n)
    BY <1>1, Smaller DEF Limiter!Push, m
  <1>4. n \in Nat /\ n <= Len(all) /\ n \in 0 .. Len(all)
    BY <1>1, <1>2 DEF m
  <1> HIDE DEF all
  <1>5. n = IF Len(log) + 1 <= m THEN Len(log) + 1 ELSE m
    OBVIOUS
  <1> HIDE DEF n
  <1>6. SubSeq(all, 1, n) \in Seq(Nat) /\ Len(SubSeq(all, 1, n)) = n /\ \A i \in 1 .. n : SubSeq(all, 1, n)[i] = all[i]
    BY <1>2, <1>4, SubSeqProperties
  <1>7. \A i \in 1 .. n : all[i] = IF i = 1 THEN age ELSE log[i - 1]
    BY <1>2, <1>4
  <1> HIDE DEF all
  <1>8. PushIsLogOf(age, SubSeq(all, 1, n))
    BY <1>5, <1>6, <1>7 DEF PushIsLogOf, m
  <1> QED BY <1>3, <1>8

\* A step of make_ping.
LEMMA PingKeeps ==
    ASSUME LimiterSettings, LimiterInv, NEW p \in Processes, Limiter!make_ping(p)
    PROVE  LimiterInv'
  <1> DEFINE o == proc[p]
             Rest == block' = block /\ log' \in Seq(Nat) /\ (Shut => granted' = <<>>)
             Callers2 == DOMAIN proc' = Processes /\ \A r \in Processes : CallerOK(proc'[r], block')
  <1>0. /\ p \in DOMAIN proc /\ o = Caller(o.pc, o.seen, o.wait, o.since) /\ o.since \in BOOLEAN
        /\ o.wait \in Nat /\ o.wait <= Bound
        /\ Shut => o.pc \in {"idle", "ping", "no"}
        /\ Limiter!conditions = <<>> => o.pc \in {"idle", "ping", "yes"}
        /\ Limiter!conditions # <<>> /\ o.since /\ block > 0 => o.pc \notin {"read", "record", "allowed", "yes"}
        /\ o.pc = "read" =>
             /\ DOMAIN o.seen = DOMAIN Limiter!conditions
             /\ \A i \in DOMAIN Limiter!conditions : o.seen[i] = -1 \/ o.seen[i] \in Nat
        /\ o.pc = "record" => 1 \in DOMAIN o.seen /\ o.seen[1] \in Nat
    BY OldCaller
  <1>1. Bound \in Nat /\ Limiter!list_ttl \in Nat /\ Limiter!list_ttl <= Bound
    BY BoundIsLargest, Largest
  <1>2. block \in Nat /\ block <= Bound /\ log \in Seq(Nat) /\ (Shut => granted = <<>>)
    BY DEF LimiterInv
  <1> SUFFICES Rest /\ Callers2
    BY <1>2 DEF LimiterInv
  <1>3. CASE Limiter!Shortcut(p)
    <2>1. Rest
      BY <1>2, <1>3 DEF Limiter!Shortcut
    <2>2. CASE Limiter!conditions = <<>> /\ proc' = [proc EXCEPT ![p] = Caller("yes", o.seen, o.wait, o.since)]
      <3> HIDE DEF o
      <3>1. Fits("yes", o.seen, o.wait, o.since)
        BY <1>0, <2>2 DEF Fits, Shut
      <3> QED BY <2>1, <2>2, <3>1, NewCaller
    <2>3. CASE Limiter!conditions # <<>> /\ proc' = [proc EXCEPT ![p] = Caller("no", o.seen, Limiter!conditions[1].seconds, o.since)]
      <3> DEFINE wait == Limiter!conditions[1].seconds
      <3>1. wait \in Nat /\ wait <= Bound
        BY <1>1, <2>3, Largest
      <3> HIDE DEF o, wait
      <3>2. proc' = [proc EXCEPT ![p] = Caller("no", o.seen, wait, o.since)]
        BY <2>3 DEF wait
      <3>3. Fits("no", o.seen, wait, o.since)
        BY <1>0, <2>3, <3>1 DEF Fits
      <3> QED BY <2>1, <3>2, <3>3, NewCaller
    <2> QED BY <1>0, <1>3, <2>1, <2>2, <2>3, ShortcutForm
  <1>4. CASE Limiter!TakeLock(p)
    <2>1. Rest /\ ~Shut /\ Limiter!conditions # <<>>
      BY <1>2, <1>4 DEF Limiter!TakeLock, Shut
    <2>2. proc' = [proc EXCEPT ![p] = Caller("locked", o.seen, o.wait, o.since)]
      BY <1>0, <1>4, TakeLockForm
    <2> HIDE DEF o
    <2>3. Fits("locked", o.seen, o.wait, o.since)
      BY <1>0, <2>1 DEF Fits
    <2> QED BY <2>1, <2>2, <2>3, NewCaller
  <1>5. CASE Limiter!Read(p)
    <2>1. Rest /\ ~Shut /\ Limiter!conditions # <<>>
      BY <1>0, <1>2, <1>5 DEF Limiter!Read
    <2>2. CASE block > 0 /\ proc' = [proc EXCEPT ![p] = Caller("refused", o.seen, block, o.since)]
      <3> HIDE DEF o
      <3>1. Fits("refused", o.seen, block, o.since)
        BY <1>0, <1>2, <2>1 DEF Fits
      <3> QED BY <2>1, <2>2, <3>1, NewCaller
    <2>3. CASE ~(block > 0) /\ proc' = [proc EXCEPT ![p] = Caller("read", Limiter!Boundaries, o.wait, o.since)]
      <3> DEFINE seen == Limiter!Boundaries
      <3>1. DOMAIN seen = DOMAIN Limiter!conditions
        BY DEF Limiter!Boundaries
      <3>2. \A i \in DOMAIN Limiter!conditions : seen[i] = -1 \/ seen[i] \in Nat
        <4> TAKE i \in DOMAIN Limiter!conditions
        <4>1. Limiter!conditions[i].requests \in Nat /\ Limiter!conditions[1].requests <= Limiter!conditions[i].requests
              /\ Limiter!conditions # <<>>
          BY Largest
        <4>2. Limiter!conditions[i].requests >= 1
          BY <2>1, <4>1, Largest DEF Shut
        <4>3. CASE Limiter!conditions[i].requests <= Len(log)
          <5>1. Limiter!conditions[i].requests \in 1 .. Len(log)
            BY <1>2, <4>1, <4>2, <4>3
          <5>2. log[Limiter!conditions[i].requests] \in Nat
            BY <1>2, <5>1
          <5> QED BY <4>3, <5>2 DEF Limiter!Boundaries
        <4>4. CASE ~(Limiter!conditions[i].requests <= Len(log))
          BY <4>4 DEF Limiter!Boundaries
        <4> QED BY <4>3, <4>4
      <3> HIDE DEF o, seen
      <3>3. proc' = [proc EXCEPT ![p] = Caller("read", seen, o.wait, o.since)]
        BY <2>3 DEF seen
      <3>4. Fits("read", seen, o.wait, o.since)
        BY <1>0, <2>1, <2>3, <3>1, <3>2 DEF Fits
      <3> QED BY <2>1, <3>3, <3>4, NewCaller
    <2> QED BY <1>0, <1>5, <2>1, <2>2, <2>3, ReadForm
  <1>6. CASE Limiter!Decide(p)
    <2>0. o.pc = "read"
      BY <1>6 DEF Limiter!Decide
    <2>1. Rest /\ ~Shut /\ Limiter!conditions # <<>>
      BY <1>0, <1>2, <1>6, <2>0 DEF Limiter!Decide
    <2>2. CASE proc' = [proc EXCEPT ![p] = Caller("record", << 0 >>, o.wait, o.since)]
      <3> HIDE DEF o
      <3>1. Fits("record", << 0 >>, o.wait, o.since)
        BY <1>0, <2>0, <2>1 DEF Fits
      <3> QED BY <2>1, <2>2, <3>1, NewCaller
    <2>3. ASSUME Limiter!Hit(o.seen) # {},
                 NEW i, NEW wait, i = Limiter!Min(Limiter!Hit(o.seen)), wait = Limiter!conditions[i].seconds - o.seen[i],
                 proc' = [proc EXCEPT ![p] = Caller("refused", <<>>, wait, o.since)]
          PROVE  Callers2
      <3>1. Limiter!Hit(o.seen) \subseteq DOMAIN Limiter!conditions /\ DOMAIN Limiter!conditions \subseteq Nat
        <4>1. DOMAIN Limiter!conditions \subseteq Nat
          <5> DEFINE C == Limiter!conditions
          <5>1. C \in Seq(Condition)
            BY Zenon DEF LimiterSettings
          <5> HIDE DEF C
          <5>2. DOMAIN C \subseteq Nat
            BY <5>1
          <5> QED BY <5>2 DEF C
        <4> QED BY <4>1 DEF Limiter!Hit
      <3>2. i \in Limiter!Hit(o.seen)
        BY <2>3, <3>1, LeastInSet
      <3>3. i \in DOMAIN Limiter!conditions /\ o.seen[i] # -1 /\ o.seen[i] < Limiter!conditions[i].seconds
        BY <3>2 DEF Limiter!Hit
      <3>4. o.seen[i] \in Nat
        BY <1>0, <2>0, <3>3
      <3>5. Limiter!conditions[i].seconds \in Nat /\ Limiter!conditions[i].seconds <= Limiter!list_ttl
        BY <3>3, Largest
      <3>6. wait \in Nat /\ wait <= Bound
        BY <1>1, <2>3, <3>3, <3>4, <3>5
      <3> HIDE DEF o
      <3>7. Fits("refused", <<>>, wait, o.since)
        BY <1>0, <2>1, <3>6 DEF Fits
      <3> QED BY <2>1, <2>3, <3>7, NewCaller
    <2> QED BY <1>0, <1>6, <2>1, <2>2, <2>3, DecideForm
  <1>7. CASE Limiter!Record(p)
    <2>0. o.pc = "record" /\ log' = Limiter!Push(o.seen[1]) /\ block' = block /\ granted' = granted
      BY <1>7 DEF Limiter!Record
    <2>1. ~Shut /\ Limiter!conditions # <<>> /\ Limiter!max_requests \in Nat
      BY <1>0, <2>0, Largest
    <2>2. log' \in Seq(Nat)
      <3> QED BY <1>0, <1>2, <2>0, <2>1, PushedLog DEF PushIsLogOf
    <2>3. proc' = [proc EXCEPT ![p] = Caller("allowed", o.seen, o.wait, o.since)]
      BY <1>0, <1>7, RecordForm
    <2> HIDE DEF o
    <2>4. Fits("allowed", o.seen, o.wait, o.since)
      BY <1>0, <2>0, <2>1 DEF Fits
    <2> QED BY <1>2, <2>0, <2>2, <2>3, <2>4, NewCaller
  <1>8. CASE Limiter!Release(p)
    <2>0. o.pc \in {"refused", "allowed"} /\ log' = log /\ block' = block /\ granted' = granted
      BY <1>8 DEF Limiter!Release
    <2>1. Rest /\ ~Shut /\ Limiter!conditions # <<>>
      BY <1>0, <1>2, <2>0
    <2>2. CASE o.pc = "allowed" /\ proc' = [proc EXCEPT ![p] = Caller("yes", o.seen, o.wait, o.since)]
      <3> HIDE DEF o
      <3>1. Fits("yes", o.seen, o.wait, o.since)
        BY <1>0, <2>1, <2>2 DEF Fits
      <3> QED BY <2>1, <2>2, <3>1, NewCaller
    <2>3. CASE proc' = [proc EXCEPT ![p] = Caller("no", o.seen, o.wait, o.since)]
      <3> HIDE DEF o
      <3>1. Fits("no", o.seen, o.wait, o.since)
        BY <1>0, <2>1 DEF Fits
      <3> QED BY <2>1, <2>3, <3>1, NewCaller
    <2>4. CASE proc' = [proc EXCEPT ![p] = Caller("error", o.seen, o.wait, o.since)]
      <3> HIDE DEF o
      <3>1. Fits("error", o.seen, o.wait, o.since)
        BY <1>0, <2>1 DEF Fits
      <3> QED BY <2>1, <2>4, <3>1, NewCaller
    <2> QED BY <1>0, <1>8, <2>1, <2>2, <2>3, <2>4, ReleaseForm
  <1> QED BY <1>3, <1>4, <1>5, <1>6, <1>7, <1>8 DEF Limiter!make_ping

LEMMA OlderIsNumber ==
    ASSUME LimiterSettings
    PROVE  /\ Limiter!Older(-1) = -1
           /\ \A n \in Nat : Limiter!Older(n) \in Nat /\ Limiter!Older(n) = IF n <= Limiter!list_ttl THEN n + 1 ELSE Limiter!Horizon
  <1>1. Limiter!Horizon \in Nat /\ Limiter!list_ttl \in Nat /\ Limiter!Horizon = Limiter!list_ttl + 1
    BY Largest
  <1> SUFFICES ASSUME NEW n \in Nat
               PROVE  Limiter!Older(n) \in Nat /\ Limiter!Older(n) = IF n <= Limiter!list_ttl THEN n + 1 ELSE Limiter!Horizon
    BY DEF Limiter!Older
  <1>2. n # -1 /\ n + 1 \in Int
    OBVIOUS
  <1>3. Limiter!Older(n) = Limiter!Min({n + 1, Limiter!Horizon})
    BY <1>2 DEF Limiter!Older
  <1>4. Limiter!Min({n + 1, Limiter!Horizon}) = IF n + 1 <= Limiter!Horizon THEN n + 1 ELSE Limiter!Horizon
    BY <1>1, <1>2, Smaller
  <1> QED BY <1>1, <1>3, <1>4

LEMMA CallerHas ==
    ASSUME NEW pc, NEW seen, NEW wait, NEW since, NEW n, n = Caller(pc, seen, wait, since)
    PROVE  /\ n.pc = pc /\ n.seen = seen /\ n.wait = wait /\ n.since = since
           /\ n = Caller(n.pc, n.seen, n.wait, n.since)
  <1>1. n.pc = pc /\ n.seen = seen /\ n.wait = wait /\ n.since = since
    BY DEF Caller
  <1> QED BY <1>1, Zenon

\* What time makes of a caller.
AgedFrom(o, n) ==
  /\ n = Caller(n.pc, n.seen, n.wait, n.since) /\ n.pc = o.pc /\ n.wait = Limiter!Less(o.wait) /\ n.since = o.since
  /\ DOMAIN n.seen = DOMAIN o.seen /\ \A i \in DOMAIN o.seen : n.seen[i] = Limiter!Older(o.seen[i])

LEMMA AgedCaller ==
    ASSUME LimiterInv, Limiter!Tick, NEW p \in Processes
    PROVE  AgedFrom(proc[p], proc'[p])
  <1> DEFINE o == proc[p]
             n == proc'[p]
             seen == [i \in DOMAIN o.seen |-> Limiter!Older(o.seen[i])]
             wait == Limiter!Less(o.wait)
  <1>0. o = Caller(o.pc, o.seen, o.wait, o.since)
    BY DEF LimiterInv, CallerOK
  <1>1. n = [o EXCEPT !.seen = seen, !.wait = wait]
    BY DEF Limiter!Tick
  <1>2. DOMAIN seen = DOMAIN o.seen /\ \A i \in DOMAIN o.seen : seen[i] = Limiter!Older(o.seen[i])
    OBVIOUS
  <1> HIDE DEF seen, wait, o, n
  <1>3. n = Caller(o.pc, seen, wait, o.since)
    BY <1>0, <1>1 DEF Caller
  <1>4. /\ n.pc = o.pc /\ n.seen = seen /\ n.wait = wait /\ n.since = o.since
        /\ n = Caller(n.pc, n.seen, n.wait, n.since)
    BY <1>3, CallerHas
  <1>5. AgedFrom(o, n)
    BY <1>2, <1>4, Zenon DEF wait, AgedFrom
  <1> QED BY <1>5 DEF o, n

LEMMA TimeKeeps ==
    ASSUME LimiterSettings, LimiterInv, Limiter!Tick
    PROVE  LimiterInv'
  <1>1. /\ log' = IF logLeft = 1 THEN <<>> ELSE [i \in DOMAIN log |-> Limiter!Older(log[i])]
        /\ block' = Limiter!Less(block)
        /\ granted' = [i \in DOMAIN granted |-> Limiter!Older(granted[i])]
        /\ proc' = [p \in Processes |->
             [proc[p] EXCEPT !.seen = [i \in DOMAIN @ |-> Limiter!Older(@[i])], !.wait = Limiter!Less(@)]]
    BY DEF Limiter!Tick
  <1>2. \A n \in Nat : Limiter!Less(n) \in Nat /\ Limiter!Less(n) <= n
    BY DEF Limiter!Less
  <1>3. block \in Nat /\ block' \in Nat /\ block' <= Bound /\ (block' > 0 => block > 0) /\ Bound \in Nat
    <2>1. block \in Nat /\ block <= Bound /\ Bound \in Nat
      BY BoundIsLargest DEF LimiterInv
    <2>2. block' \in Nat /\ block' <= block
      BY <1>1, <1>2, <2>1
    <2> QED BY <2>1, <2>2
  <1>4. log' \in Seq(Nat)
    <2>0. log \in Seq(Nat) /\ <<>> \in Seq(Nat)
      BY DEF LimiterInv
    <2>1. \A i \in 1 .. Len(log) : Limiter!Older(log[i]) \in Nat
      <3>1. \A i \in 1 .. Len(log) : log[i] \in Nat
        BY <2>0
      <3> QED BY <3>1, OlderIsNumber
    <2>2. Len(log) \in Nat /\ DOMAIN log = 1 .. Len(log)
      BY DEF LimiterInv
    <2>3. [i \in 1 .. Len(log) |-> Limiter!Older(log[i])] \in Seq(Nat)
      BY <2>1, <2>2
    <2> QED BY <1>1, <2>0, <2>2, <2>3
  <1>5. Shut => granted' = <<>>
    <2> SUFFICES ASSUME Shut PROVE granted' = <<>>
      OBVIOUS
    <2>1. granted = <<>> /\ DOMAIN granted = 1 .. 0
      BY DEF LimiterInv
    <2>2. granted' = [i \in 1 .. 0 |-> Limiter!Older(granted[i])]
      BY <1>1, <2>1
    <2>3. granted' \in Seq(Nat) /\ Len(granted') = 0
      BY <2>2
    <2> QED BY <2>3, EmptySeq
  <1>6. ASSUME NEW p \in Processes
        PROVE  CallerOK(proc'[p], block')
    <2> DEFINE o == proc[p]
    <2>1. CallerOK(o, block) /\ o = Caller(o.pc, o.seen, o.wait, o.since)
      BY DEF LimiterInv, CallerOK
    <2> DEFINE n == proc'[p]
    <2>3. AgedFrom(o, n)
      BY AgedCaller
    <2> HIDE DEF o, n
    <2>4. n.wait \in Nat /\ n.wait <= Bound
      BY <1>2, <1>3, <2>1, <2>3 DEF CallerOK, AgedFrom
    <2>5. n.pc = "read" =>
            DOMAIN n.seen = DOMAIN Limiter!conditions /\ \A i \in DOMAIN Limiter!conditions : n.seen[i] = -1 \/ n.seen[i] \in Nat
      BY <2>1, <2>3, OlderIsNumber DEF CallerOK, AgedFrom
    <2>6. n.pc = "record" => 1 \in DOMAIN n.seen /\ n.seen[1] \in Nat
      BY <2>1, <2>3, OlderIsNumber DEF CallerOK, AgedFrom
    <2>7. CallerOK(n, block')
      BY <1>3, <2>1, <2>3, <2>4, <2>5, <2>6 DEF CallerOK, AgedFrom
    <2> QED BY <2>7 DEF n
  <1>7. DOMAIN proc' = Processes
    BY <1>1
  <1> QED BY <1>3, <1>4, <1>5, <1>6, <1>7 DEF LimiterInv

LEMMA BlockKeeps ==
    ASSUME LimiterSettings, LimiterInv, NEW s \in Blocks, Limiter!Block(s)
    PROVE  LimiterInv'
  <1>1. /\ block' = Limiter!block_key(s) /\ log' = log /\ granted' = granted
        /\ proc' = [p \in Processes |-> [proc[p] EXCEPT !.since = FALSE]]
    BY DEF Limiter!Block
  <1>2. block' \in Nat /\ block' <= Bound
    BY <1>1, BoundIsLargest, Largest DEF Limiter!block_key
  <1>3. ASSUME NEW p \in Processes
        PROVE  CallerOK(proc'[p], block')
    <2> DEFINE o == proc[p]
    <2>1. CallerOK(o, block) /\ o = Caller(o.pc, o.seen, o.wait, o.since)
      BY DEF LimiterInv, CallerOK
    <2>2. PICK n : n = [o EXCEPT !.since = FALSE] /\ proc'[p] = n
      BY <1>1
    <2> HIDE DEF o
    <2>3. n = Caller(o.pc, o.seen, o.wait, FALSE)
      BY <2>1, <2>2 DEF Caller
    <2>4. n.pc = o.pc /\ n.seen = o.seen /\ n.wait = o.wait /\ n.since = FALSE
      BY <2>3 DEF Caller
    <2>5. n = Caller(n.pc, n.seen, n.wait, n.since)
      BY <2>3, <2>4, Zenon
    <2>6. CallerOK(n, block')
      BY <2>1, <2>4, <2>5 DEF CallerOK
    <2> QED BY <2>2, <2>6
  <1>4. DOMAIN proc' = Processes
    BY <1>1
  <1> QED BY <1>1, <1>2, <1>3, <1>4 DEF LimiterInv

LEMMA LimiterInductive == ASSUME LimiterSettings PROVE Limiter!Spec => []LimiterInv
  <1>1. Limiter!Init => LimiterInv
    <2> SUFFICES ASSUME Limiter!Init PROVE LimiterInv
      OBVIOUS
    <2>1. Bound \in Nat
      BY BoundIsLargest
    <2>2. \A p \in Processes : proc[p] = Caller("idle", <<>>, 0, FALSE)
      BY DEF Limiter!Init, Limiter!Idle, Caller
    <2>3. CallerOK(Caller("idle", <<>>, 0, FALSE), 0)
      <3> DEFINE q == Caller("idle", <<>>, 0, FALSE)
      <3>1. q.pc = "idle" /\ q.seen = <<>> /\ q.wait = 0 /\ q.since = FALSE
        BY DEF Caller
      <3>2. q = Caller(q.pc, q.seen, q.wait, q.since)
        BY <3>1, Zenon
      <3> HIDE DEF q
      <3>3. CallerOK(q, 0)
        <4>1. q.since \in BOOLEAN
          BY <3>1
        <4> QED BY <2>1, <3>1, <3>2, <4>1 DEF CallerOK
      <3> QED BY <3>3 DEF q
    <2>4. block = 0 /\ log = <<>> /\ granted = <<>> /\ DOMAIN proc = Processes
      BY DEF Limiter!Init
    <2>5. \A p \in Processes : CallerOK(proc[p], block)
      BY <2>2, <2>3, <2>4, Zenon
    <2> QED BY <2>1, <2>4, <2>5 DEF LimiterInv
  <1>2. LimiterInv /\ [Limiter!Next]_Limiter!vars => LimiterInv'
    <2> SUFFICES ASSUME LimiterInv, [Limiter!Next]_Limiter!vars PROVE LimiterInv'
      OBVIOUS
    <2>1. ASSUME NEW p \in Processes, Limiter!acquire(p) \/ Limiter!Retry(p) PROVE LimiterInv'
      <3> DEFINE o == proc[p]
      <3>1. /\ p \in DOMAIN proc /\ o = Caller(o.pc, o.seen, o.wait, o.since) /\ o.wait \in Nat /\ o.wait <= Bound
        BY OldCaller
      <3>2. block' = block /\ log' = log /\ granted' = granted
        BY <2>1 DEF Limiter!acquire, Limiter!Retry
      <3>3. PICK since \in BOOLEAN : proc' = [proc EXCEPT ![p] = Caller("ping", o.seen, o.wait, since)]
        BY <2>1, <3>1, AcquireForm
      <3> HIDE DEF o
      <3>4. Fits("ping", o.seen, o.wait, since)
        BY <3>1 DEF Fits
      <3>5. DOMAIN proc' = Processes /\ \A r \in Processes : CallerOK(proc'[r], block')
        BY <3>2, <3>3, <3>4, NewCaller
      <3> QED BY <3>2, <3>5 DEF LimiterInv
    <2>2. ASSUME NEW p \in Processes, Limiter!Return(p) PROVE LimiterInv'
      <3>1. /\ block' = block /\ log' = log /\ granted' = granted
            /\ proc' = [proc EXCEPT ![p] = Caller("idle", <<>>, 0, FALSE)]
        BY <2>2 DEF Limiter!Return, Limiter!Idle, Caller
      <3>2. Fits("idle", <<>>, 0, FALSE)
        BY BoundIsLargest DEF Fits
      <3>3. DOMAIN proc' = Processes /\ \A r \in Processes : CallerOK(proc'[r], block')
        <4> DEFINE no == FALSE
        <4>1. Fits("idle", <<>>, 0, no) /\ proc' = [proc EXCEPT ![p] = Caller("idle", <<>>, 0, no)]
          BY <3>1, <3>2
        <4> HIDE DEF no
        <4> QED BY <3>1, <4>1, NewCaller
      <3> QED BY <3>1, <3>3 DEF LimiterInv
    <2>3. CASE UNCHANGED Limiter!vars
      BY <2>3 DEF Limiter!vars, LimiterInv
    <2> QED BY <2>1, <2>2, <2>3, PingKeeps, BlockKeeps, TimeKeeps DEF Limiter!Next, Limiter!Step
  <1> QED BY <1>1, <1>2, PTL DEF Limiter!Spec

\* A call that begins while the key is blocked is not allowed before the block ends, if there is a condition:
\* whatever the lock does.
THEOREM BlocksHold == ASSUME LimiterSettings, Limiter!conditions # <<>> PROVE Limiter!Spec => []Limiter!BlockHolds
  <1>1. LimiterInv => Limiter!BlockHolds
    BY DEF LimiterInv, CallerOK, Limiter!BlockHolds
  <1> QED BY <1>1, LimiterInductive, PTL

\* Nobody is told to wait longer than the longest period or block.
THEOREM WaitsAreBounded == ASSUME LimiterSettings PROVE Limiter!Spec => []Limiter!WaitIsBounded
  <1>1. LimiterInv => Limiter!WaitIsBounded
    BY DEF LimiterInv, CallerOK, Limiter!WaitIsBounded, Bound
  <1> QED BY <1>1, LimiterInductive, PTL

\* A condition of no request allows nothing, whatever the others are.
THEOREM ClosedAllowsNothing == ASSUME LimiterSettings PROVE Limiter!Spec => []Limiter!NothingIsAllowed
  <1>1. LimiterInv => Limiter!NothingIsAllowed
    <2> SUFFICES ASSUME LimiterInv, NEW c \in Limiter!Range(Conditions), c.requests = 0, c.seconds > 0
                 PROVE  granted = <<>> /\ \A p \in Processes : proc[p].pc # "yes"
      BY DEF Limiter!NothingIsAllowed
    <2>1. c \in Limiter!Range(Limiter!conditions)
      <3>1. Limiter!Range(Limiter!conditions) = {d \in Limiter!Range(Conditions) : d.seconds > 0}
        BY Zenon DEF LimiterSettings, Limiter!ConditionsAreSorted
      <3> QED BY <3>1
    <2>2. PICK i \in DOMAIN Limiter!conditions : Limiter!conditions[i] = c
      BY <2>1 DEF Limiter!Range
    <2>3. Shut
      <3>1. Limiter!conditions # <<>>
        BY <2>2
      <3>2. Limiter!conditions[1].requests \in Nat /\ Limiter!conditions[1].requests <= Limiter!conditions[i].requests
        BY <2>2, <3>1, Largest
      <3> QED BY <2>2, <3>1, <3>2 DEF Shut
    <2> QED BY <2>3 DEF LimiterInv, CallerOK
  <1> QED BY <1>1, LimiterInductive, PTL

-----------------------------------------------------------------------------
(* What the lock is for: the windows *)

Inside == {"locked", "read", "record", "refused", "allowed"}

\* The lock is that of the caller inside, of whom there is no other.
LockInv ==
  /\ lock = [by |-> lock.by, left |-> lock.left] /\ lock.left \in Nat
  /\ \A p \in Processes : proc[p].pc \in Inside => lock.by = p /\ lock.left # 0

\* The calls of g are in order, and far enough apart.
InOrder(g) == \A i, j \in DOMAIN g : i <= j => g[i] <= g[j]
Spaced(g) ==
  \A c \in DOMAIN Limiter!conditions : \A i \in DOMAIN g :
    /\ i + Limiter!conditions[c].requests \in DOMAIN g /\ Limiter!conditions[c].requests > 0
    /\ g[i + Limiter!conditions[c].requests] < Limiter!Horizon
    => g[i + Limiter!conditions[c].requests] - g[i] >= Limiter!conditions[c].seconds

\* The log l has the calls of g after the first k; those it does not have are older than any period.
Follows(l, g, k) ==
  /\ Len(l) + k <= Len(g) /\ \A i \in 1 .. Len(l) : l[i] = g[i + k]
  /\ \A i \in 1 .. Limiter!max_requests : i > Len(l) /\ i + k <= Len(g) => g[i + k] >= Limiter!list_ttl

\* What a caller has read is still true of the calls.
ReadOf(seen, g) ==
  \A c \in DOMAIN Limiter!conditions :
    \/ seen[c] = -1 /\ (Limiter!conditions[c].requests \in DOMAIN g => g[Limiter!conditions[c].requests] >= Limiter!list_ttl)
    \/ Limiter!conditions[c].requests \in DOMAIN g /\ seen[c] = g[Limiter!conditions[c].requests]

\* The log l, which expires in left, the calls g, and the callers pr.  The list does not expire before its
\* first call is as old as the longest period.
Data(l, left, g, pr) ==
  /\ l \in Seq(Nat) /\ g \in Seq(Nat) /\ InOrder(g) /\ Spaced(g) /\ Len(l) <= Limiter!max_requests
  /\ left \in Nat /\ (Len(l) # 0 => left >= 1 /\ l[1] + left >= Limiter!list_ttl)
  /\ (\A p \in Processes : pr[p].pc # "record") => Follows(l, g, 0)
  /\ \A p \in Processes : pr[p].pc = "record" => Follows(l, g, 1) /\ pr[p].seen[1] = g[1]
  /\ \A p \in Processes : pr[p].pc = "read" => ReadOf(pr[p].seen, g)

WindowInv == LockInv /\ Data(log, logLeft, granted, proc)

\* A call at the head of a list that is cut.
IsCut(new, age, g, n) == new = SubSeq(<<age>> \o g, 1, n)
Headed(new, age, g, n) ==
  /\ new \in Seq(Nat) /\ Len(new) = n /\ DOMAIN new = 1 .. n /\ \A i \in 1 .. n : new[i] \in Nat
  /\ new[1] = age /\ \A i \in 2 .. n : new[i] = g[i - 1]

LEMMA CutList ==
    ASSUME NEW g \in Seq(Nat), NEW age \in Nat, NEW n \in Nat, 1 <= n, n <= Len(g) + 1, NEW new, IsCut(new, age, g, n)
    PROVE  Headed(new, age, g, n)
  <1> DEFINE all == <<age>> \o g
  <1>1. <<age>> \in Seq(Nat) /\ Len(<<age>>) = 1 /\ <<age>>[1] = age /\ Len(g) \in Nat
    OBVIOUS
  <1>2. /\ all \in Seq(Nat) /\ Len(all) = Len(g) + 1
        /\ \A i \in 1 .. Len(all) : all[i] = IF i = 1 THEN age ELSE g[i - 1]
    <2>1. all \in Seq(Nat) /\ Len(all) = 1 + Len(g)
      BY <1>1, ConcatProperties
    <2>2. \A i \in 1 .. (1 + Len(g)) : all[i] = IF i <= 1 THEN <<age>>[i] ELSE g[i - 1]
      BY <1>1, ConcatProperties
    <2> QED BY <1>1, <2>1, <2>2
  <1>3. new = SubSeq(all, 1, n)
    BY DEF IsCut
  <1> HIDE DEF all
  <1>4. SubSeq(all, 1, n) \in Seq(Nat) /\ Len(SubSeq(all, 1, n)) = n /\ \A i \in 1 .. n : SubSeq(all, 1, n)[i] = all[i]
    BY <1>2, SubSeqProperties
  <1>5. all[1] = age /\ \A i \in 2 .. n : i \in 1 .. n /\ all[i] = g[i - 1]
    BY <1>1, <1>2
  <1>6. new \in Seq(Nat) /\ Len(new) = n /\ \A i \in 1 .. n : new[i] = all[i]
    BY <1>3, <1>4
  <1>7. DOMAIN new = 1 .. n /\ \A i \in 1 .. n : new[i] \in Nat
    BY <1>6
  <1>8. 1 \in 1 .. n
    OBVIOUS
  <1> QED BY <1>5, <1>6, <1>7, <1>8 DEF Headed

\* A call that no condition refuses keeps the calls apart.
LEMMA GrantKeeps ==
    ASSUME LimiterSettings, Limiter!conditions # <<>>, NEW l, NEW left, NEW g, NEW seen, l \in Seq(Nat), g \in Seq(Nat), InOrder(g), Spaced(g),
           Len(l) <= Limiter!max_requests, Follows(l, g, 0), ReadOf(seen, g), Limiter!Hit(seen) = {}, ~Shut,
           \A c \in DOMAIN Limiter!conditions : seen[c] = -1 \/ seen[c] \in Nat,
           NEW new, IsCut(new, 0, g, Limiter!Min({Len(g) + 1, Limiter!max_requests + 1}))
    PROVE  new \in Seq(Nat) /\ InOrder(new) /\ Spaced(new) /\ Follows(l, new, 1) /\ new[1] = 0
  <1> DEFINE m == Limiter!max_requests
             n == IF Len(g) + 1 <= m + 1 THEN Len(g) + 1 ELSE m + 1
  <1>1. m \in Nat /\ Limiter!list_ttl \in Nat /\ Limiter!Horizon = Limiter!list_ttl + 1 /\ Len(g) \in Nat /\ Len(l) \in Nat
    BY Largest
  <1>2. Limiter!Min({Len(g) + 1, m + 1}) = n
    BY <1>1, Smaller
  <1>3. n \in Nat /\ n <= Len(g) + 1 /\ n <= m + 1 /\ n >= 1 /\ (n = Len(g) + 1 \/ n = m + 1)
    BY <1>1
  <1> HIDE DEF n, m
  <1>a. Headed(new, 0, g, n)
    <2>1. IsCut(new, 0, g, n) /\ 0 \in Nat
      BY <1>2 DEF m
    <2> QED BY <1>3, <2>1, CutList
  <1>4. new \in Seq(Nat) /\ Len(new) = n /\ new[1] = 0 /\ \A i \in 2 .. n : new[i] = g[i - 1]
    BY <1>a DEF Headed
  <1>5. DOMAIN new = 1 .. n /\ DOMAIN g = 1 .. Len(g) /\ (\A i \in 1 .. Len(g) : g[i] \in Nat) /\ \A i \in 1 .. n : new[i] \in Nat
    <2>1. DOMAIN g = 1 .. Len(g) /\ \A i \in 1 .. Len(g) : g[i] \in Nat
      OBVIOUS
    <2> QED BY <1>a, <2>1 DEF Headed
  <1>6. InOrder(new)
    <2> SUFFICES ASSUME NEW i \in 1 .. n, NEW j \in 1 .. n, i <= j PROVE new[i] <= new[j]
      BY <1>5 DEF InOrder
    <2>1. CASE i = 1
      BY <1>4, <1>5, <2>1
    <2>2. CASE i # 1
      <3>1. i - 1 \in 1 .. Len(g) /\ j - 1 \in 1 .. Len(g) /\ i - 1 <= j - 1 /\ i \in 2 .. n /\ j \in 2 .. n
        BY <1>1, <1>3, <2>2
      <3>2. g[i - 1] <= g[j - 1]
        BY <1>5, <3>1 DEF InOrder
      <3>3. new[i] = g[i - 1] /\ new[j] = g[j - 1]
        BY <1>4, <3>1
      <3> QED BY <3>2, <3>3
    <2> QED BY <2>1, <2>2
  <1>7. Spaced(new)
    <2> SUFFICES ASSUME NEW c \in DOMAIN Limiter!conditions, NEW i \in 1 .. n,
                        i + Limiter!conditions[c].requests \in 1 .. n, Limiter!conditions[c].requests > 0,
                        new[i + Limiter!conditions[c].requests] < Limiter!Horizon
                 PROVE  new[i + Limiter!conditions[c].requests] - new[i] >= Limiter!conditions[c].seconds
      BY <1>5 DEF Spaced
    <2> DEFINE r == Limiter!conditions[c].requests
               s == Limiter!conditions[c].seconds
    <2>1. r \in Nat /\ r >= 1 /\ s \in Nat /\ s <= Limiter!list_ttl
      BY Largest
    <2> HIDE DEF r, s
    <2>2. i + r \in 2 .. n /\ new[i + r] = g[(i - 1) + r] /\ (i - 1) + r \in 1 .. Len(g)
      <3>0. i + r \in 1 .. n
        BY DEF r
      <3>1. i + r \in 2 .. n /\ (i + r) - 1 = (i - 1) + r /\ (i - 1) + r \in 1 .. Len(g)
        BY <1>1, <1>3, <2>1, <3>0
      <3>2. new[i + r] = g[(i + r) - 1]
        BY <1>4, <3>1
      <3> QED BY <3>1, <3>2
    <2>3. CASE i = 1
      <3>1. new[i] = 0 /\ (i - 1) + r = r /\ r \in DOMAIN g
        BY <1>4, <1>5, <2>1, <2>2, <2>3
      <3>2. ReadOf(seen, g) /\ c \in DOMAIN Limiter!conditions
        OBVIOUS
      <3>3. g[r] >= Limiter!list_ttl \/ seen[c] = g[r]
        BY <3>1, <3>2 DEF ReadOf, r
      <3>4. ~(seen[c] # -1 /\ seen[c] < s)
        BY DEF Limiter!Hit, s
      <3>5. g[r] \in Nat
        BY <1>5, <3>1
      <3>6. g[r] >= s
        BY <1>1, <2>1, <3>3, <3>4, <3>5
      <3>7. new[i + r] - new[i] >= s
        <4>1. new[i + r] = g[r]
          BY <2>2, <3>1
        <4> QED BY <2>1, <3>1, <3>5, <3>6, <4>1
      <3> QED BY <3>7 DEF r, s
    <2>4. CASE i # 1
      <3>1. new[i] = g[i - 1] /\ i - 1 \in 1 .. Len(g)
        <4>1. i \in 2 .. n /\ i - 1 \in 1 .. Len(g)
          BY <1>1, <1>3, <2>4
        <4> QED BY <1>4, <4>1
      <3>2. g[(i - 1) + r] < Limiter!Horizon
        BY <2>2 DEF r
      <3>3. g[(i - 1) + r] - g[i - 1] >= s
        BY <1>5, <2>1, <2>2, <3>1, <3>2 DEF Spaced, r, s
      <3>4. new[i + r] - new[i] >= s
        BY <2>2, <3>1, <3>3
      <3> QED BY <3>4 DEF r, s
    <2> QED BY <2>3, <2>4
  <1>8. Follows(l, new, 1)
    <2>1. Len(l) + 1 <= n
      BY <1>1, <1>3 DEF Follows, m
    <2>2. \A i \in 1 .. Len(l) : l[i] = new[i + 1]
      <3> TAKE i \in 1 .. Len(l)
      <3>1. i + 1 \in 2 .. n /\ (i + 1) - 1 = i /\ i + 0 = i
        BY <1>1, <1>3, <2>1
      <3>2. new[i + 1] = g[i]
        BY <1>4, <3>1
      <3>3. l[i] = g[i]
        BY <3>1 DEF Follows
      <3> QED BY <3>2, <3>3
    <2>3. \A i \in 1 .. m : i > Len(l) /\ i + 1 <= n => new[i + 1] >= Limiter!list_ttl
      <3> SUFFICES ASSUME NEW i \in 1 .. m, i > Len(l), i + 1 <= n PROVE new[i + 1] >= Limiter!list_ttl
        OBVIOUS
      <3>1. i + 1 \in 2 .. n /\ (i + 1) - 1 = i /\ i + 0 = i /\ i + 0 <= Len(g)
        BY <1>1, <1>3
      <3>2. new[i + 1] = g[i]
        BY <1>4, <3>1
      <3>3. g[i] >= Limiter!list_ttl
        BY <3>1 DEF Follows, m
      <3> QED BY <3>2, <3>3
    <2> QED BY <1>4, <2>1, <2>2, <2>3 DEF Follows, m
  <1> QED BY <1>3, <1>4, <1>6, <1>7, <1>8

\* A call that is recorded is the first of the log, which follows the calls again.
LEMMA PushFollows ==
    ASSUME LimiterSettings, Limiter!conditions # <<>>, ~Shut, NEW l \in Seq(Nat), NEW g \in Seq(Nat), Follows(l, g, 1),
           Len(l) <= Limiter!max_requests,
           NEW new, IsCut(new, g[1], l, Limiter!Min({Len(l) + 1, Limiter!max_requests}))
    PROVE  new \in Seq(Nat) /\ Len(new) <= Limiter!max_requests /\ Follows(new, g, 0) /\ new[1] = g[1]
  <1> DEFINE m == Limiter!max_requests
             n == IF Len(l) + 1 <= m THEN Len(l) + 1 ELSE m
  <1>0. Len(l) + 1 <= Len(g)
    BY DEF Follows
  <1>1. m \in Nat /\ m >= 1 /\ Len(g) \in Nat /\ Len(l) \in Nat
    BY Largest DEF Shut
  <1>2. Limiter!Min({Len(l) + 1, m}) = n
    BY <1>1, Smaller
  <1>3. n \in Nat /\ n <= Len(l) + 1 /\ n <= m /\ n >= 1 /\ (n = Len(l) + 1 \/ n = m)
    BY <1>1
  <1> HIDE DEF n, m
  <1>4. Headed(new, g[1], l, n)
    <2>1. IsCut(new, g[1], l, n)
      BY <1>2 DEF m
    <2>2. g[1] \in Nat
      BY <1>1, <1>0
    <2> QED BY <1>3, <2>1, <2>2, CutList
  <1>5. Len(l) + 1 <= Len(g) /\ \A i \in 1 .. Len(l) : l[i] = g[i + 1]
    BY DEF Follows
  <1>6. Len(new) = n /\ new \in Seq(Nat) /\ n + 0 <= Len(g)
    BY <1>1, <1>3, <1>4, <1>5 DEF Headed
  <1>7. \A i \in 1 .. n : new[i] = g[i + 0]
    <2> TAKE i \in 1 .. n
    <2>1. CASE i = 1
      BY <1>4, <2>1 DEF Headed
    <2>2. CASE i # 1
      <3>1. i \in 2 .. n /\ i - 1 \in 1 .. Len(l) /\ (i - 1) + 1 = i /\ i + 0 = i
        BY <1>1, <1>3, <2>2
      <3>2. new[i] = l[i - 1]
        BY <1>4, <3>1 DEF Headed
      <3>3. l[i - 1] = g[(i - 1) + 1]
        BY <1>5, <3>1
      <3> QED BY <3>1, <3>2, <3>3
    <2> QED BY <2>1, <2>2
  <1>8. \A i \in 1 .. m : i > n /\ i + 0 <= Len(g) => g[i + 0] >= Limiter!list_ttl
    <2> SUFFICES ASSUME NEW i \in 1 .. m, i > n, i <= Len(g) PROVE g[i] >= Limiter!list_ttl
      BY <1>1
    <2>1. i - 1 \in 1 .. m /\ i - 1 > Len(l) /\ (i - 1) + 1 <= Len(g) /\ (i - 1) + 1 = i
      BY <1>1, <1>3
    <2>2. g[(i - 1) + 1] >= Limiter!list_ttl
      BY <2>1 DEF Follows, m
    <2> QED BY <2>1, <2>2
  <1> QED BY <1>3, <1>4, <1>6, <1>7, <1>8 DEF Follows, Headed, m

\* What the log tells of the conditions is true of the calls.
LEMMA BoundariesTell ==
    ASSUME LimiterSettings, Limiter!conditions # <<>>, ~Shut, log \in Seq(Nat), granted \in Seq(Nat), Follows(log, granted, 0)
    PROVE  ReadOf(Limiter!Boundaries, granted)
  <1> SUFFICES ASSUME NEW c \in DOMAIN Limiter!conditions
               PROVE  \/ /\ Limiter!Boundaries[c] = -1
                         /\ Limiter!conditions[c].requests \in DOMAIN granted => granted[Limiter!conditions[c].requests] >= Limiter!list_ttl
                      \/ /\ Limiter!conditions[c].requests \in DOMAIN granted
                         /\ Limiter!Boundaries[c] = granted[Limiter!conditions[c].requests]
    BY DEF ReadOf
  <1> DEFINE r == Limiter!conditions[c].requests
  <1>1. r \in Nat /\ r >= 1 /\ r <= Limiter!max_requests /\ Limiter!max_requests \in Nat
    BY Largest DEF Shut
  <1>2. Limiter!Boundaries[c] = IF r <= Len(log) THEN log[r] ELSE -1
    BY DEF Limiter!Boundaries
  <1> HIDE DEF r
  <1>3. Len(log) \in Nat /\ Len(granted) \in Nat /\ DOMAIN granted = 1 .. Len(granted) /\ r + 0 = r /\ Len(log) + 0 <= Len(granted)
    BY <1>1 DEF Follows
  <1>4. CASE r <= Len(log)
    <2>1. r \in 1 .. Len(log) /\ r \in DOMAIN granted
      BY <1>1, <1>3, <1>4
    <2>2. log[r] = granted[r]
      BY <1>3, <2>1 DEF Follows
    <2> QED BY <1>2, <1>4, <2>1, <2>2 DEF r
  <1>5. CASE ~(r <= Len(log))
    <2>1. r \in DOMAIN granted => granted[r] >= Limiter!list_ttl
      <3> SUFFICES ASSUME r \in DOMAIN granted PROVE granted[r] >= Limiter!list_ttl
        OBVIOUS
      <3>1. r \in 1 .. Limiter!max_requests /\ r > Len(log) /\ r + 0 <= Len(granted)
        BY <1>1, <1>3, <1>5
      <3>2. granted[r + 0] >= Limiter!list_ttl
        BY <3>1 DEF Follows
      <3> QED BY <1>3, <3>2
    <2> QED BY <1>2, <1>5, <2>1 DEF r
  <1> QED BY <1>4, <1>5

\* The ages of a are those of g, a moment later.
Aged(a, g) == DOMAIN a = DOMAIN g /\ \A i \in DOMAIN g : a[i] = Limiter!Older(g[i])

LEMMA OlderKeepsOrder ==
    ASSUME LimiterSettings, NEW x \in Nat, NEW y \in Nat
    PROVE  /\ x <= y => Limiter!Older(x) <= Limiter!Older(y)
           /\ x >= Limiter!list_ttl => Limiter!Older(x) >= Limiter!list_ttl
           /\ x + 1 >= Limiter!list_ttl => Limiter!Older(x) >= Limiter!list_ttl
           /\ Limiter!Older(y) < Limiter!Horizon /\ x <= y =>
                y < Limiter!Horizon /\ Limiter!Older(y) - Limiter!Older(x) = y - x
           /\ Limiter!Older(x) = x + 1 \/ Limiter!Older(x) = Limiter!Horizon
  <1>1. Limiter!list_ttl \in Nat /\ Limiter!Horizon = Limiter!list_ttl + 1
    BY Largest
  <1>2. /\ Limiter!Older(x) = IF x <= Limiter!list_ttl THEN x + 1 ELSE Limiter!Horizon
        /\ Limiter!Older(y) = IF y <= Limiter!list_ttl THEN y + 1 ELSE Limiter!Horizon
    BY OlderIsNumber
  <1> QED BY <1>1, <1>2

\* Time keeps the calls in order and apart.
LEMMA AgedCalls ==
    ASSUME LimiterSettings, NEW g \in Seq(Nat), NEW a, a = [i \in DOMAIN g |-> Limiter!Older(g[i])], InOrder(g), Spaced(g)
    PROVE  Aged(a, g) /\ a \in Seq(Nat) /\ Len(a) = Len(g) /\ InOrder(a) /\ Spaced(a)
  <1>1. \A i \in DOMAIN g : g[i] \in Nat /\ Limiter!Older(g[i]) \in Nat
    <2>1. \A i \in DOMAIN g : g[i] \in Nat
      OBVIOUS
    <2> QED BY <2>1, OlderIsNumber
  <1>2. Aged(a, g)
    BY DEF Aged
  <1>3. a \in Seq(Nat) /\ Len(a) = Len(g)
    <2>1. Len(g) \in Nat /\ DOMAIN g = 1 .. Len(g)
      OBVIOUS
    <2>2. a = [i \in 1 .. Len(g) |-> Limiter!Older(g[i])] /\ \A i \in 1 .. Len(g) : Limiter!Older(g[i]) \in Nat
      BY <1>1, <2>1
    <2> QED BY <2>1, <2>2
  <1>4. InOrder(a)
    <2> SUFFICES ASSUME NEW i \in DOMAIN g, NEW j \in DOMAIN g, i <= j PROVE a[i] <= a[j]
      BY <1>2 DEF InOrder, Aged
    <2>1. g[i] <= g[j] /\ g[i] \in Nat /\ g[j] \in Nat
      BY <1>1 DEF InOrder
    <2>2. a[i] = Limiter!Older(g[i]) /\ a[j] = Limiter!Older(g[j])
      BY <1>2 DEF Aged
    <2> QED BY <2>1, <2>2, OlderKeepsOrder
  <1>5. Spaced(a)
    <2> SUFFICES ASSUME NEW c \in DOMAIN Limiter!conditions, NEW i \in DOMAIN g,
                        i + Limiter!conditions[c].requests \in DOMAIN g, Limiter!conditions[c].requests > 0,
                        a[i + Limiter!conditions[c].requests] < Limiter!Horizon
                 PROVE  a[i + Limiter!conditions[c].requests] - a[i] >= Limiter!conditions[c].seconds
      BY <1>2 DEF Spaced, Aged
    <2> DEFINE j == i + Limiter!conditions[c].requests
    <2>1. j \in DOMAIN g /\ i <= j
      <3>1. Limiter!conditions[c].requests \in Nat /\ i \in Nat
        BY Largest
      <3> QED BY <3>1
    <2>2. g[i] \in Nat /\ g[j] \in Nat /\ g[i] <= g[j] /\ a[i] = Limiter!Older(g[i]) /\ a[j] = Limiter!Older(g[j])
      BY <1>1, <1>2, <2>1 DEF InOrder, Aged
    <2>3. a[j] < Limiter!Horizon
      OBVIOUS
    <2> HIDE DEF j
    <2>4. g[j] < Limiter!Horizon /\ a[j] - a[i] = g[j] - g[i]
      BY <2>2, <2>3, OlderKeepsOrder
    <2>5. g[j] - g[i] >= Limiter!conditions[c].seconds
      BY <2>4 DEF Spaced, j
    <2> QED BY <2>4, <2>5 DEF j
  <1> QED BY <1>2, <1>3, <1>4, <1>5

LEMMA AgedFollows ==
    ASSUME LimiterSettings, NEW l \in Seq(Nat), NEW g \in Seq(Nat), NEW k \in Nat, Follows(l, g, k),
           NEW al, NEW ag, Aged(al, l), Len(al) = Len(l), Aged(ag, g), Len(ag) = Len(g)
    PROVE  Follows(al, ag, k)
  <1>1. Len(l) \in Nat /\ Len(g) \in Nat /\ DOMAIN l = 1 .. Len(l) /\ DOMAIN g = 1 .. Len(g) /\ Len(l) + k <= Len(g)
    BY DEF Follows
  <1>2. \A i \in 1 .. Len(l) : al[i] = ag[i + k]
    <2> TAKE i \in 1 .. Len(l)
    <2>1. i \in DOMAIN l /\ i + k \in DOMAIN g
      BY <1>1
    <2>2. al[i] = Limiter!Older(l[i]) /\ ag[i + k] = Limiter!Older(g[i + k]) /\ l[i] = g[i + k]
      BY <2>1 DEF Aged, Follows
    <2> QED BY <2>2
  <1>3. \A i \in 1 .. Limiter!max_requests : i > Len(l) /\ i + k <= Len(g) => ag[i + k] >= Limiter!list_ttl
    <2> SUFFICES ASSUME NEW i \in 1 .. Limiter!max_requests, i > Len(l), i + k <= Len(g) PROVE ag[i + k] >= Limiter!list_ttl
      OBVIOUS
    <2>1. i + k \in DOMAIN g
      BY <1>1
    <2>2. g[i + k] >= Limiter!list_ttl /\ g[i + k] \in Nat /\ ag[i + k] = Limiter!Older(g[i + k])
      BY <2>1 DEF Aged, Follows
    <2> QED BY <2>2, OlderKeepsOrder
  <1> QED BY <1>1, <1>2, <1>3 DEF Follows

\* A log that expires held only calls older than any period, by then.
LEMMA ExpiredFollows ==
    ASSUME LimiterSettings, Limiter!conditions # <<>>, NEW l \in Seq(Nat), NEW g \in Seq(Nat), NEW k \in Nat, Follows(l, g, k), InOrder(g),
           Len(l) # 0 => l[1] + 1 >= Limiter!list_ttl,
           NEW ag, Aged(ag, g), Len(ag) = Len(g), NEW none, Len(none) = 0
    PROVE  Follows(none, ag, k)
  <1>1. /\ Len(l) \in Nat /\ Len(g) \in Nat /\ DOMAIN g = 1 .. Len(g) /\ Len(l) + k <= Len(g)
        /\ Limiter!max_requests \in Nat /\ Limiter!list_ttl \in Nat
    BY Largest DEF Follows
  <1>2. \A i \in 1 .. Limiter!max_requests : i + k <= Len(g) => ag[i + k] >= Limiter!list_ttl
    <2> SUFFICES ASSUME NEW i \in 1 .. Limiter!max_requests, i + k <= Len(g) PROVE ag[i + k] >= Limiter!list_ttl
      OBVIOUS
    <2>1. i + k \in DOMAIN g /\ g[i + k] \in Nat /\ ag[i + k] = Limiter!Older(g[i + k])
      <3>1. i + k \in DOMAIN g
        BY <1>1
      <3> QED BY <3>1 DEF Aged
    <2>2. CASE Len(l) = 0
      <3>1. g[i + k] >= Limiter!list_ttl
        BY <1>1, <2>2 DEF Follows
      <3> QED BY <2>1, <3>1, OlderKeepsOrder
    <2>3. CASE Len(l) # 0
      <3>1. 1 \in 1 .. Len(l) /\ 1 + k \in DOMAIN g /\ 1 + k <= i + k
        BY <1>1, <2>3
      <3>2. l[1] = g[1 + k] /\ g[1 + k] <= g[i + k] /\ g[1 + k] \in Nat
        <4>1. l[1] = g[1 + k]
          BY <3>1 DEF Follows
        <4>2. g[1 + k] <= g[i + k]
          BY <2>1, <3>1 DEF InOrder
        <4>3. g[1 + k] \in Nat
          BY <3>1
        <4> QED BY <4>1, <4>2, <4>3
      <3>3. g[i + k] + 1 >= Limiter!list_ttl
        BY <1>1, <2>1, <2>3, <3>2
      <3> QED BY <2>1, <3>3, OlderKeepsOrder
    <2> QED BY <2>2, <2>3
  <1>3. Len(none) + k <= Len(ag) /\ 1 .. Len(none) = {}
    BY <1>1
  <1> QED BY <1>1, <1>2, <1>3 DEF Follows

LEMMA AgedRead ==
    ASSUME LimiterSettings, NEW g \in Seq(Nat), NEW seen, NEW new, DOMAIN seen = DOMAIN Limiter!conditions, ReadOf(seen, g), Aged(new, seen),
           NEW ag, Aged(ag, g)
    PROVE  ReadOf(new, ag)
  <1> SUFFICES ASSUME NEW c \in DOMAIN Limiter!conditions, NEW r, r = Limiter!conditions[c].requests
               PROVE  \/ new[c] = -1 /\ (r \in DOMAIN ag => ag[r] >= Limiter!list_ttl)
                      \/ r \in DOMAIN ag /\ new[c] = ag[r]
    BY DEF ReadOf
  <1>1. new[c] = Limiter!Older(seen[c]) /\ DOMAIN ag = DOMAIN g /\ \A i \in DOMAIN g : g[i] \in Nat /\ ag[i] = Limiter!Older(g[i])
    BY DEF Aged
  <1>2. CASE seen[c] = -1 /\ (r \in DOMAIN g => g[r] >= Limiter!list_ttl)
    <2>1. new[c] = -1
      BY <1>1, <1>2, OlderIsNumber
    <2>2. r \in DOMAIN g => ag[r] >= Limiter!list_ttl
      BY <1>1, <1>2, OlderKeepsOrder
    <2> QED BY <1>1, <2>1, <2>2
  <1>3. CASE r \in DOMAIN g /\ seen[c] = g[r]
    BY <1>1, <1>3
  <1> QED BY <1>2, <1>3 DEF ReadOf

\* The step of a caller p, which is at pc and has seen when it ends.
Moved(p, pc, seen) ==
  proc'[p].pc = pc /\ proc'[p].seen = seen /\ \A q \in Processes : q # p => proc'[q] = proc[q]

LEMMA Moves ==
    ASSUME LimiterInv, NEW p \in Processes, NEW pc, NEW seen, NEW wait, NEW since,
           proc' = [proc EXCEPT ![p] = Caller(pc, seen, wait, since)]
    PROVE  Moved(p, pc, seen)
  <1> DEFINE n == Caller(pc, seen, wait, since)
  <1>1. n.pc = pc /\ n.seen = seen
    BY DEF Caller
  <1> HIDE DEF n
  <1>2. proc' = [proc EXCEPT ![p] = n] /\ DOMAIN proc = Processes
    BY DEF n, LimiterInv
  <1>3. proc'[p] = n /\ \A q \in Processes : q # p => proc'[q] = proc[q]
    BY <1>2
  <1> QED BY <1>1, <1>3 DEF Moved

\* A step that leaves the lock alone and does not enter it.
LEMMA SameLock ==
    ASSUME LockInv, NEW p \in Processes, NEW pc, NEW seen, Moved(p, pc, seen), lock' = lock, pc \in Inside => proc[p].pc \in Inside
    PROVE  LockInv'
  BY DEF LockInv, Moved

\* A step that leaves the log and the calls alone.
LEMMA SameData ==
    ASSUME Data(log, logLeft, granted, proc), NEW p \in Processes, NEW pc, NEW seen, Moved(p, pc, seen), pc \notin {"read", "record"},
           proc[p].pc # "record", log' = log, logLeft' = logLeft, granted' = granted
    PROVE  Data(log, logLeft, granted, proc)'
  BY DEF Data, Moved

\* Nobody is inside but the caller whose lock it is.
LEMMA AloneInside ==
    ASSUME LockInv, NEW p \in Processes, proc[p].pc \in Inside, NEW q \in Processes, q # p
    PROVE  proc[q].pc \notin Inside
  BY DEF LockInv

LEMMA ReadKeepsData ==
    ASSUME LimiterSettings, Limiter!conditions # <<>>, ~Shut, LimiterInv, WindowInv, NEW p \in Processes, proc[p].pc = "locked",
           Moved(p, "read", Limiter!Boundaries), log' = log, logLeft' = logLeft, granted' = granted
    PROVE  Data(log, logLeft, granted, proc)'
  <1>1. \A q \in Processes : proc[q].pc \notin {"read", "record"}
    BY AloneInside DEF WindowInv, Inside
  <1>2. Follows(log, granted, 0) /\ log \in Seq(Nat) /\ granted \in Seq(Nat)
    BY <1>1 DEF WindowInv, Data
  <1>3. ReadOf(Limiter!Boundaries, granted)
    BY <1>2, BoundariesTell
  <1>4. \A q \in Processes : proc'[q].pc # "record" /\ (proc'[q].pc = "read" => proc'[q].seen = Limiter!Boundaries)
    BY <1>1 DEF Moved
  <1> QED BY <1>2, <1>3, <1>4 DEF WindowInv, Data

LEMMA GrantKeepsData ==
    ASSUME LimiterSettings, Limiter!conditions # <<>>, ~Shut, LimiterInv, WindowInv, NEW p \in Processes, proc[p].pc = "read",
           Limiter!Hit(proc[p].seen) = {}, Moved(p, "record", << 0 >>), log' = log, logLeft' = logLeft,
           IsCut(granted', 0, granted, Limiter!Min({Len(granted) + 1, Limiter!max_requests + 1}))
    PROVE  Data(log, logLeft, granted, proc)'
  <1>1. \A q \in Processes : q # p => proc[q].pc \notin {"read", "record"}
    BY AloneInside DEF WindowInv, Inside
  <1>2. \A q \in Processes : proc[q].pc # "record"
    BY <1>1
  <1>3. /\ log \in Seq(Nat) /\ granted \in Seq(Nat) /\ InOrder(granted) /\ Spaced(granted) /\ Len(log) <= Limiter!max_requests
        /\ Follows(log, granted, 0) /\ ReadOf(proc[p].seen, granted)
        /\ logLeft \in Nat /\ (Len(log) # 0 => logLeft >= 1 /\ log[1] + logLeft >= Limiter!list_ttl)
    BY <1>2 DEF WindowInv, Data
  <1>4. \A c \in DOMAIN Limiter!conditions : proc[p].seen[c] = -1 \/ proc[p].seen[c] \in Nat
    BY DEF LimiterInv, CallerOK
  <1>5. granted' \in Seq(Nat) /\ InOrder(granted') /\ Spaced(granted') /\ Follows(log, granted', 1) /\ granted'[1] = 0
    BY <1>3, <1>4, GrantKeeps
  <1>6. \A q \in Processes : proc'[q].pc = "record" => q = p
    BY <1>1 DEF Moved
  <1>7. proc'[p].pc = "record" /\ proc'[p].seen = << 0 >> /\ proc'[p].seen[1] = 0
    BY DEF Moved
  <1>8. \A q \in Processes : proc'[q].pc # "read"
    BY <1>1, <1>7 DEF Moved
  <1> QED BY <1>3, <1>5, <1>6, <1>7, <1>8 DEF Data

LEMMA RecordKeepsData ==
    ASSUME LimiterSettings, Limiter!conditions # <<>>, ~Shut, LimiterInv, WindowInv, NEW p \in Processes, proc[p].pc = "record",
           NEW seen, Moved(p, "allowed", seen), logLeft' = Limiter!list_ttl, granted' = granted,
           IsCut(log', proc[p].seen[1], log, Limiter!Min({Len(log) + 1, Limiter!max_requests}))
    PROVE  Data(log, logLeft, granted, proc)'
  <1>1. \A q \in Processes : q # p => proc[q].pc \notin {"read", "record"}
    BY AloneInside DEF WindowInv, Inside
  <1>3. /\ log \in Seq(Nat) /\ granted \in Seq(Nat) /\ InOrder(granted) /\ Spaced(granted) /\ Len(log) <= Limiter!max_requests
        /\ Follows(log, granted, 1) /\ proc[p].seen[1] = granted[1]
    BY DEF WindowInv, Data
  <1>4. IsCut(log', granted[1], log, Limiter!Min({Len(log) + 1, Limiter!max_requests}))
    BY <1>3
  <1>5. log' \in Seq(Nat) /\ Len(log') <= Limiter!max_requests /\ Follows(log', granted, 0) /\ log'[1] = granted[1]
    BY <1>3, <1>4, PushFollows
  <1>6. \A q \in Processes : proc'[q].pc \notin {"read", "record"}
    BY <1>1 DEF Moved
  <1>7. Limiter!list_ttl \in Nat /\ Limiter!list_ttl >= 1
    BY Largest
  <1>8. Len(log') # 0 => log'[1] \in Nat
    BY <1>5
  <1> QED BY <1>3, <1>5, <1>6, <1>7, <1>8 DEF Data

LEMMA TimeKeepsData ==
    ASSUME LimiterSettings, Limiter!conditions # <<>>, LimiterInv, WindowInv, Limiter!Tick
    PROVE  Data(log, logLeft, granted, proc)'
  <1>1. /\ log' = IF logLeft = 1 THEN <<>> ELSE [i \in DOMAIN log |-> Limiter!Older(log[i])]
        /\ logLeft' = Limiter!Less(logLeft)
        /\ granted' = [i \in DOMAIN granted |-> Limiter!Older(granted[i])]
    BY DEF Limiter!Tick
  <1>2. /\ log \in Seq(Nat) /\ granted \in Seq(Nat) /\ InOrder(granted) /\ Spaced(granted) /\ Len(log) <= Limiter!max_requests
        /\ logLeft \in Nat /\ (Len(log) # 0 => logLeft >= 1 /\ log[1] + logLeft >= Limiter!list_ttl)
        /\ Limiter!list_ttl \in Nat /\ Limiter!Horizon = Limiter!list_ttl + 1 /\ Limiter!max_requests \in Nat
    BY Largest DEF WindowInv, Data
  <1>3. Aged(granted', granted) /\ granted' \in Seq(Nat) /\ Len(granted') = Len(granted) /\ InOrder(granted') /\ Spaced(granted')
    BY <1>1, <1>2, AgedCalls
  <1>4. ASSUME NEW p \in Processes
        PROVE  proc'[p].pc = proc[p].pc /\ Aged(proc'[p].seen, proc[p].seen)
    BY AgedCaller DEF AgedFrom, Aged
  <1>5. logLeft' \in Nat /\ (logLeft # 0 => logLeft' = logLeft - 1)
    BY <1>1, <1>2 DEF Limiter!Less
  <1>6. /\ log' \in Seq(Nat) /\ Len(log') <= Limiter!max_requests
        /\ Len(log') # 0 => logLeft' >= 1 /\ log'[1] + logLeft' >= Limiter!list_ttl
        /\ \A k \in Nat : Follows(log, granted, k) => Follows(log', granted', k)
    <2>1. CASE logLeft = 1
      <3>1. Len(log') = 0 /\ log' \in Seq(Nat)
        BY <1>1, <2>1
      <3>2. Len(log) # 0 => log[1] + 1 >= Limiter!list_ttl
        BY <1>2, <2>1
      <3>3. \A k \in Nat : Follows(log, granted, k) => Follows(log', granted', k)
        BY <1>2, <1>3, <3>1, <3>2, ExpiredFollows
      <3> QED BY <1>2, <3>1, <3>3
    <2>2. CASE logLeft # 1
      <3>1. log' = [i \in DOMAIN log |-> Limiter!Older(log[i])] /\ Len(log) \in Nat /\ DOMAIN log = 1 .. Len(log)
        BY <1>1, <1>2, <2>2
      <3>2. \A i \in 1 .. Len(log) : log[i] \in Nat /\ Limiter!Older(log[i]) \in Nat
        <4>1. \A i \in 1 .. Len(log) : log[i] \in Nat
          BY <1>2
        <4> QED BY <4>1, OlderIsNumber
      <3>3. log' \in Seq(Nat) /\ Len(log') = Len(log) /\ Aged(log', log)
        <4>1. log' = [i \in 1 .. Len(log) |-> Limiter!Older(log[i])]
          BY <3>1
        <4>2. log' \in Seq(Nat) /\ Len(log') = Len(log)
          BY <3>1, <3>2, <4>1
        <4> QED BY <3>1, <4>2 DEF Aged
      <3>4. \A k \in Nat : Follows(log, granted, k) => Follows(log', granted', k)
        BY <1>2, <1>3, <3>3, AgedFollows
      <3>5. Len(log') # 0 => logLeft' >= 1 /\ log'[1] + logLeft' >= Limiter!list_ttl
        <4> SUFFICES ASSUME Len(log) # 0 PROVE logLeft' >= 1 /\ log'[1] + logLeft' >= Limiter!list_ttl
          BY <3>3
        <4>1. 1 \in 1 .. Len(log)
          BY <3>1
        <4>2. log'[1] = Limiter!Older(log[1]) /\ log[1] \in Nat
          BY <3>1, <3>2, <4>1
        <4>3. Limiter!Older(log[1]) = log[1] + 1 \/ Limiter!Older(log[1]) = Limiter!Horizon
          BY <4>2, OlderKeepsOrder
        <4>4. logLeft' = logLeft - 1 /\ logLeft' >= 1 /\ log[1] + logLeft >= Limiter!list_ttl
          BY <1>2, <1>5, <2>2
        <4> QED BY <1>2, <4>2, <4>3, <4>4
      <3> QED BY <1>2, <3>3, <3>4, <3>5
    <2> QED BY <2>1, <2>2
  <1>7. (\A p \in Processes : proc'[p].pc # "record") => Follows(log', granted', 0)
    BY <1>4, <1>6 DEF WindowInv, Data
  <1>8. ASSUME NEW p \in Processes, proc'[p].pc = "record"
        PROVE  Follows(log', granted', 1) /\ proc'[p].seen[1] = granted'[1]
    <2>1. proc[p].pc = "record" /\ Follows(log, granted, 1) /\ proc[p].seen[1] = granted[1] /\ 1 \in DOMAIN proc[p].seen
      BY <1>4, <1>8 DEF WindowInv, Data, LimiterInv, CallerOK
    <2>2. 1 \in DOMAIN granted
      <3>1. Len(log) + 1 <= Len(granted)
        BY <2>1 DEF Follows
      <3> QED BY <1>2, <3>1
    <2>3. proc'[p].seen[1] = Limiter!Older(proc[p].seen[1]) /\ granted'[1] = Limiter!Older(granted[1])
      BY <1>3, <1>4, <2>1, <2>2 DEF Aged
    <2> QED BY <1>6, <2>1, <2>3
  <1>9. ASSUME NEW p \in Processes, proc'[p].pc = "read"
        PROVE  ReadOf(proc'[p].seen, granted')
    <2>1. proc[p].pc = "read" /\ ReadOf(proc[p].seen, granted) /\ DOMAIN proc[p].seen = DOMAIN Limiter!conditions
      BY <1>4, <1>9 DEF WindowInv, Data, LimiterInv, CallerOK
    <2> QED BY <1>2, <1>3, <1>4, <2>1, AgedRead
  <1> QED BY <1>3, <1>5, <1>6, <1>7, <1>8, <1>9 DEF Data

LEMMA TimeKeepsLock ==
    ASSUME InTime, LimiterInv, LockInv, Limiter!Tick
    PROVE  LockInv'
  <1>1. lock.left # 1 /\ lock' = IF lock.left <= 1 THEN Limiter!Free ELSE [lock EXCEPT !.left = @ - 1]
    BY DEF Limiter!Tick
  <1>2. \A p \in Processes : proc'[p].pc = proc[p].pc
    BY AgedCaller DEF AgedFrom
  <1>3. lock.left \in Nat /\ lock = [by |-> lock.by, left |-> lock.left] /\ \A p \in Processes : proc[p].pc \in Inside => lock.by = p /\ lock.left # 0
    BY DEF LockInv
  <1>4. CASE lock.left = 0
    <2>0. lock.left <= 1
      BY <1>4
    <2>1. lock' = [by |-> "", left |-> 0]
      BY <1>1, <2>0, Zenon DEF Limiter!Free
    <2>2. \A p \in Processes : proc'[p].pc \notin Inside
      BY <1>2, <1>3, <1>4
    <2> QED BY <2>1, <2>2 DEF LockInv
  <1>5. CASE lock.left # 0
    <2>1. lock' = [lock EXCEPT !.left = lock.left - 1] /\ lock.left - 1 \in Nat \ {0}
      BY <1>1, <1>3, <1>5
    <2>2. lock' = [by |-> lock.by, left |-> lock.left - 1]
      BY <1>3, <2>1
    <2>3. lock'.by = lock.by /\ lock'.left = lock.left - 1 /\ lock' = [by |-> lock'.by, left |-> lock'.left]
      BY <2>2
    <2> QED BY <1>2, <1>3, <2>1, <2>3 DEF LockInv
  <1> QED BY <1>4, <1>5

LEMMA PingKeepsWindow ==
    ASSUME LimiterSettings, Limiter!conditions # <<>>, LimiterInv, WindowInv, NEW p \in Processes, Limiter!make_ping(p)
    PROVE  WindowInv'
  <1> DEFINE o == proc[p]
  <1>0. /\ p \in DOMAIN proc /\ o = Caller(o.pc, o.seen, o.wait, o.since)
        /\ Shut => o.pc \in {"idle", "ping", "no"}
    BY DEF LimiterInv, CallerOK
  <1>1. LockInv /\ Data(log, logLeft, granted, proc)
    BY DEF WindowInv
  <1>2. CASE Limiter!Shortcut(p)
    <2>1. log' = log /\ logLeft' = logLeft /\ granted' = granted /\ lock' = lock /\ o.pc = "ping"
      BY <1>2 DEF Limiter!Shortcut
    <2>2. Moved(p, "no", o.seen)
      BY <1>0, <1>2, ShortcutForm, Moves
    <2>3. LockInv'
      BY <1>1, <2>1, <2>2, SameLock DEF Inside
    <2>4. Data(log, logLeft, granted, proc)'
      BY <1>1, <2>1, <2>2, SameData
    <2> QED BY <2>3, <2>4 DEF WindowInv
  <1>3. CASE Limiter!TakeLock(p)
    <2>1. /\ log' = log /\ logLeft' = logLeft /\ granted' = granted /\ o.pc = "ping"
          /\ lock = Limiter!Free /\ lock' = [by |-> p, left |-> LockTimeout]
      BY <1>3 DEF Limiter!TakeLock
    <2>2. Moved(p, "locked", o.seen)
      BY <1>0, <1>3, TakeLockForm, Moves
    <2>3. LockInv'
      <3>1. lock.left = 0
        BY <2>1 DEF Limiter!Free
      <3>2. \A q \in Processes : proc[q].pc \notin Inside
        BY <1>1, <3>1 DEF LockInv
      <3>3. lock'.by = p /\ lock'.left = LockTimeout /\ LockTimeout \in Nat \ {0} /\ lock' = [by |-> lock'.by, left |-> lock'.left]
        BY <2>1 DEF LimiterSettings
      <3> QED BY <2>2, <3>2, <3>3 DEF LockInv, Moved
    <2>4. Data(log, logLeft, granted, proc)'
      BY <1>1, <2>1, <2>2, SameData
    <2> QED BY <2>3, <2>4 DEF WindowInv
  <1>4. CASE Limiter!Read(p)
    <2>1. log' = log /\ logLeft' = logLeft /\ granted' = granted /\ lock' = lock /\ o.pc = "locked"
      BY <1>4 DEF Limiter!Read
    <2>2. Moved(p, "refused", o.seen) \/ Moved(p, "read", Limiter!Boundaries)
      BY <1>0, <1>4, ReadForm, Moves
    <2>3. LockInv'
      BY <1>1, <2>1, <2>2, SameLock DEF Inside
    <2>4. Data(log, logLeft, granted, proc)'
      <3>1. CASE Moved(p, "refused", o.seen)
        BY <1>1, <2>1, <3>1, SameData
      <3>2. CASE Moved(p, "read", Limiter!Boundaries)
        BY <1>0, <2>1, <3>2, ReadKeepsData
      <3> QED BY <2>2, <3>1, <3>2
    <2> QED BY <2>3, <2>4 DEF WindowInv
  <1>5. CASE Limiter!Decide(p)
    <2>1. log' = log /\ logLeft' = logLeft /\ lock' = lock /\ o.pc = "read"
      BY <1>5 DEF Limiter!Decide
    <2>2. CASE Limiter!Hit(o.seen) = {}
      <3>1. Moved(p, "record", << 0 >>)
        BY <1>0, <1>5, <2>2, DecideForm, Moves
      <3>2. IsCut(granted', 0, granted, Limiter!Min({Len(granted) + 1, Limiter!max_requests + 1}))
        BY <1>5, <2>2 DEF Limiter!Decide, IsCut
      <3>3. Data(log, logLeft, granted, proc)'
        BY <1>0, <2>1, <2>2, <3>1, <3>2, GrantKeepsData
      <3>4. LockInv'
        BY <1>1, <2>1, <3>1, SameLock DEF Inside
      <3> QED BY <3>3, <3>4 DEF WindowInv
    <2>3. CASE Limiter!Hit(o.seen) # {}
      <3>1. Moved(p, "refused", <<>>) /\ granted' = granted
        BY <1>0, <1>5, <2>3, DecideForm, Moves
      <3>3. Data(log, logLeft, granted, proc)'
        BY <1>1, <2>1, <3>1, SameData
      <3>4. LockInv'
        BY <1>1, <2>1, <3>1, SameLock DEF Inside
      <3> QED BY <3>3, <3>4 DEF WindowInv
    <2> QED BY <2>2, <2>3
  <1>6. CASE Limiter!Record(p)
    <2>1. /\ logLeft' = Limiter!list_ttl /\ granted' = granted /\ lock' = lock /\ o.pc = "record"
          /\ log' = Limiter!Push(o.seen[1])
      BY <1>6 DEF Limiter!Record
    <2>2. Moved(p, "allowed", o.seen)
      BY <1>0, <1>6, RecordForm, Moves
    <2>3. IsCut(log', o.seen[1], log, Limiter!Min({Len(log) + 1, Limiter!max_requests}))
      BY <2>1 DEF Limiter!Push, IsCut
    <2>4. Data(log, logLeft, granted, proc)'
      BY <1>0, <2>1, <2>2, <2>3, RecordKeepsData
    <2>5. LockInv'
      BY <1>1, <2>1, <2>2, SameLock DEF Inside
    <2> QED BY <2>4, <2>5 DEF WindowInv
  <1>7. CASE Limiter!Release(p)
    <2>1. log' = log /\ logLeft' = logLeft /\ granted' = granted /\ o.pc \in {"refused", "allowed"}
      BY <1>7 DEF Limiter!Release
    <2>2. PICK pc \in {"yes", "no", "error"} : Moved(p, pc, o.seen)
      BY <1>0, <1>7, ReleaseForm, Moves
    <2>3. lock.by = p /\ lock' = [by |-> "", left |-> 0]
      <3>1. lock.by = p
        BY <1>1, <2>1 DEF LockInv, Inside
      <3> QED BY <1>7, <3>1 DEF Limiter!Release, Limiter!Free
    <2>4. Data(log, logLeft, granted, proc)'
      BY <1>1, <2>1, <2>2, SameData
    <2>5. LockInv'
      <3>1. \A q \in Processes : q # p => proc[q].pc \notin Inside
        BY <1>1, <2>1, AloneInside DEF Inside
      <3>2. \A q \in Processes : proc'[q].pc \notin Inside
        BY <2>2, <3>1 DEF Moved, Inside
      <3>3. lock' = [by |-> lock'.by, left |-> lock'.left] /\ lock'.left \in Nat
        BY <2>3
      <3> QED BY <3>2, <3>3 DEF LockInv
    <2> QED BY <2>4, <2>5 DEF WindowInv
  <1> QED BY <1>2, <1>3, <1>4, <1>5, <1>6, <1>7 DEF Limiter!make_ping

LEMMA WindowInductive == ASSUME LimiterSettings, InTime, Limiter!conditions # <<>> PROVE Limiter!Spec => []WindowInv
  <1>1. Limiter!Init => WindowInv
    <2> SUFFICES ASSUME Limiter!Init PROVE WindowInv
      OBVIOUS
    <2>1. log = <<>> /\ logLeft = 0 /\ granted = <<>> /\ lock = [by |-> "", left |-> 0] /\ \A p \in Processes : proc[p].pc = "idle"
      BY DEF Limiter!Init, Limiter!Free, Limiter!Idle
    <2>2. LockInv
      BY <2>1 DEF LockInv, Inside
    <2>3. log \in Seq(Nat) /\ granted \in Seq(Nat) /\ Len(log) = 0 /\ Len(granted) = 0 /\ DOMAIN granted = {} /\ Limiter!max_requests \in Nat
      <3>1. log = <<>> /\ granted = <<>>
        BY <2>1
      <3>2. log \in Seq(Nat) /\ granted \in Seq(Nat) /\ Len(log) = 0 /\ Len(granted) = 0 /\ DOMAIN granted = {}
        BY <3>1
      <3> QED BY <3>2, Largest
    <2>4. InOrder(granted) /\ Spaced(granted)
      BY <2>3 DEF InOrder, Spaced
    <2>5. Follows(log, granted, 0)
      BY <2>3 DEF Follows
    <2>6. logLeft \in Nat /\ Len(log) <= Limiter!max_requests /\ \A p \in Processes : proc[p].pc \notin {"read", "record"}
      <3>1. logLeft = 0 /\ \A p \in Processes : proc[p].pc = "idle"
        BY <2>1
      <3> QED BY <2>3, <3>1
    <2> QED BY <2>2, <2>3, <2>4, <2>5, <2>6 DEF WindowInv, Data
  <1>2. LimiterInv /\ WindowInv /\ [Limiter!Next]_Limiter!vars => WindowInv'
    <2> SUFFICES ASSUME LimiterInv, WindowInv, [Limiter!Next]_Limiter!vars PROVE WindowInv'
      OBVIOUS
    <2>0. LockInv /\ Data(log, logLeft, granted, proc)
      BY DEF WindowInv
    <2>1. ASSUME NEW p \in Processes, Limiter!acquire(p) \/ Limiter!Retry(p) \/ Limiter!Return(p) PROVE WindowInv'
      <3> DEFINE o == proc[p]
      <3>1. p \in DOMAIN proc /\ o = Caller(o.pc, o.seen, o.wait, o.since)
        BY DEF LimiterInv, CallerOK
      <3>2. log' = log /\ logLeft' = logLeft /\ granted' = granted /\ lock' = lock /\ o.pc # "record"
        BY <2>1 DEF Limiter!acquire, Limiter!Retry, Limiter!Return
      <3>3. PICK pc, seen : pc \in {"ping", "idle"} /\ Moved(p, pc, seen)
        <4>1. CASE Limiter!Return(p)
          <5> DEFINE no == FALSE
          <5>1. proc' = [proc EXCEPT ![p] = Caller("idle", <<>>, 0, no)]
            BY <4>1 DEF Limiter!Return, Limiter!Idle, Caller
          <5> HIDE DEF no
          <5>2. Moved(p, "idle", <<>>)
            BY <5>1, Moves
          <5> QED BY <5>2
        <4>2. CASE Limiter!acquire(p) \/ Limiter!Retry(p)
          <5>1. PICK since \in BOOLEAN : proc' = [proc EXCEPT ![p] = Caller("ping", o.seen, o.wait, since)]
            BY <3>1, <4>2, AcquireForm
          <5>2. Moved(p, "ping", o.seen)
            BY <5>1, Moves
          <5> QED BY <5>2
        <4> QED BY <2>1, <4>1, <4>2
      <3>4. LockInv'
        BY <2>0, <3>2, <3>3, SameLock DEF Inside
      <3>5. Data(log, logLeft, granted, proc)'
        BY <2>0, <3>2, <3>3, SameData
      <3> QED BY <3>4, <3>5 DEF WindowInv
    <2>2. ASSUME NEW s \in Blocks, Limiter!Block(s) PROVE WindowInv'
      <3>1. log' = log /\ logLeft' = logLeft /\ granted' = granted /\ lock' = lock
        BY <2>2 DEF Limiter!Block
      <3>2. \A p \in Processes : proc'[p].pc = proc[p].pc /\ proc'[p].seen = proc[p].seen
        <4> TAKE p \in Processes
        <4> DEFINE o == proc[p]
        <4>1. o = Caller(o.pc, o.seen, o.wait, o.since)
          BY DEF LimiterInv, CallerOK
        <4>2. PICK n : n = [o EXCEPT !.since = FALSE] /\ proc'[p] = n
          BY <2>2 DEF Limiter!Block
        <4> HIDE DEF o
        <4>3. n.pc = o.pc /\ n.seen = o.seen
          BY <4>1, <4>2 DEF Caller
        <4> QED BY <4>2, <4>3 DEF o
      <3>3. LockInv'
        BY <2>0, <3>1, <3>2 DEF LockInv
      <3>4. Data(log, logLeft, granted, proc)'
        BY <2>0, <3>1, <3>2 DEF Data
      <3> QED BY <3>3, <3>4 DEF WindowInv
    <2>3. CASE Limiter!Tick
      BY <2>0, <2>3, TimeKeepsData, TimeKeepsLock DEF WindowInv
    <2>4. CASE UNCHANGED Limiter!vars
      BY <2>4 DEF Limiter!vars, WindowInv, LockInv, Data
    <2> QED BY <2>1, <2>2, <2>3, <2>4, PingKeepsWindow DEF Limiter!Next, Limiter!Step
  <1> QED BY <1>1, <1>2, LimiterInductive, PTL DEF Limiter!Spec

\* Of the calls that were allowed, whoever made them, one and the one `requests` later are at least `seconds`
\* apart for every condition, if the lock does not expire while it is held.
THEOREM CallsAreApart == ASSUME LimiterSettings, InTime PROVE Limiter!Spec => []Limiter!WindowsAreRespected
  <1>1. CASE Limiter!conditions = <<>>
    <2>1. Limiter!WindowsAreRespected
      BY <1>1 DEF Limiter!WindowsAreRespected
    <2> QED BY <2>1, PTL
  <1>2. CASE Limiter!conditions # <<>>
    <2>1. WindowInv => Limiter!WindowsAreRespected
      BY DEF WindowInv, Data, Spaced, Limiter!WindowsAreRespected
    <2>2. Limiter!Spec => []WindowInv
      BY <1>2, WindowInductive
    <2> QED BY <2>1, <2>2, PTL
  <1> QED BY <1>1, <1>2

-----------------------------------------------------------------------------
(***************************************************************************)
(* The positions and the occupancy of vehicles: any number of vehicles, of *)
(* calls at the same time and of versions of what forseti publishes.       *)
(***************************************************************************)
CONSTANTS Providers, Published, Requests, PoolSize, MemoryTimeout, RedisTimeout, Faults, MaxRequests
VARIABLES req, cache, version, replaced, served

External == INSTANCE ExternalServices

VehicleApis == {"vehicle_positions", "vehicle_occupancies"}
VehicleFields == {"codes", "stop", "pc", "position", "of", "at"}

\* What the proofs need to know of the settings: what is cached has some time, a provider of equipments does not
\* have the name of an API, and a response has no position before it is completed.
VehicleSettings ==
  /\ RedisTimeout \in Nat \ {0} /\ MaxVersion \in Nat \ {0} /\ "forseti" \in DOMAIN Published
  /\ Len(Providers) \in Nat /\ \A i \in 1 .. Len(Providers) : Providers[i].id \notin VehicleApis
  /\ \A r \in Requests : r.api \in VehicleApis =>
       \A k \in DOMAIN r.items : DOMAIN r.items[k] = VehicleFields /\ r.items[k].position = ""

\* Version v of what forseti says was still published at time t.
SaidSince(v, t) ==
  v \in 1 .. version["forseti"] /\ (v = version["forseti"] \/ replaced["forseti"][v] >= t)

ForsetiInv ==
  /\ now \in Nat
  /\ version \in [DOMAIN Published -> 1 .. MaxVersion] /\ replaced \in [DOMAIN Published -> [1 .. MaxVersion -> Int]]

\* An entry of the cache about vehicles.
AnswerOK(e) ==
  /\ e.kind \in {"absent", "entry"}
  /\ e.kind = "entry" =>
       /\ e = External!Entry(e.value, e.left) /\ e.left \in Nat \ {0} /\ e.left <= RedisTimeout
       /\ e.value.kind = "data" /\ SaidSince(e.value.v, now - (RedisTimeout - e.left))
AnswersInv ==
  /\ External!VehicleKeys \subseteq DOMAIN cache
  /\ \A k \in DOMAIN cache : k[1] \in VehicleApis => AnswerOK(cache[k])

\* A vehicle: its position is that of one of its codes, and was published while it could be cached.
OwnPosition(x) == \E c \in External!ArgsOf(x) : c \in DOMAIN Published["forseti"][x.of] /\ Published["forseti"][x.of][c] = x.position
AskedAbout(a, x) == <<a, External!ArgsOf(x)>> \in External!VehicleKeys
VehicleOK(a, x) ==
  /\ DOMAIN x = VehicleFields /\ AskedAbout(a, x)
  /\ x.position # "" => OwnPosition(x) /\ x.at \in Int /\ x.at <= now /\ SaidSince(x.of, x.at - RedisTimeout + 1)

ResponseFields == {"pc", "api", "items", "i", "read", "used", "count", "given", "page"}
ResponseOK(r) ==
  r.pc # "idle" =>
    /\ DOMAIN r = ResponseFields /\ r.i \in Nat \ {0}
    /\ r.pc = "provider" => r.api \notin VehicleApis
    /\ r.pc = "vehicles" => r.api \in VehicleApis
    /\ r.api \in VehicleApis => \A k \in DOMAIN r.items : VehicleOK(r.api, r.items[k])

VehiclesInv == ForsetiInv /\ AnswersInv /\ ResponseOK(req)

\* Forseti does nothing.
ForsetiStill == version' = version /\ replaced' = replaced /\ now' = now

\* Data that may be given to a vehicle now.
Timely(d) == d.kind = "none" \/ (d.kind = "data" /\ SaidSince(d.v, now - RedisTimeout + 1))

-----------------------------------------------------------------------------
(* A vehicle *)

\* The vehicle x once d is known about it: its position is set, or nothing is.
Learns(x, d, y) ==
  LET p == External!PositionOf(d, External!ArgsOf(x))
  IN  \/ y = [x EXCEPT !.pc = "over"]
      \/ d.kind = "data" /\ p # "" /\ y = [x EXCEPT !.position = p, !.of = d.v, !.at = now, !.pc = "over"]

LEMMA LearnsItsOwn ==
    ASSUME VehicleSettings, ForsetiInv, NEW a, NEW x, VehicleOK(a, x), NEW d, Timely(d), NEW y, Learns(x, d, y)
    PROVE  VehicleOK(a, y)
  <1> DEFINE p == External!PositionOf(d, External!ArgsOf(x))
  <1>1. CASE y = [x EXCEPT !.pc = "over"]
    <2>1. /\ DOMAIN y = VehicleFields /\ y.codes = x.codes /\ y.stop = x.stop /\ y.position = x.position /\ y.of = x.of /\ y.at = x.at
      BY <1>1 DEF VehicleOK, VehicleFields
    <2>2. External!ArgsOf(y) = External!ArgsOf(x)
      BY <2>1 DEF External!ArgsOf
    <2> QED BY <2>1, <2>2 DEF VehicleOK, OwnPosition, AskedAbout
  <1>2. CASE d.kind = "data" /\ p # "" /\ y = [x EXCEPT !.position = p, !.of = d.v, !.at = now, !.pc = "over"]
    <2>1. PICK q : q = p
      OBVIOUS
    <2>2. /\ DOMAIN y = VehicleFields /\ y.codes = x.codes /\ y.stop = x.stop /\ y.position = q /\ y.of = d.v /\ y.at = now
      BY <1>2, <2>1 DEF VehicleOK, VehicleFields
    <2>3. External!ArgsOf(y) = External!ArgsOf(x)
      BY <2>2 DEF External!ArgsOf
    <2>4. \E c \in External!ArgsOf(x) : c \in DOMAIN Published["forseti"][d.v] /\ Published["forseti"][d.v][c] = q
      BY <1>2, <2>1 DEF External!PositionOf
    <2>a. d.kind = "data" /\ "data" # "none"
      BY <1>2
    <2>b. SaidSince(d.v, now - RedisTimeout + 1)
      BY <2>a, Zenon DEF Timely
    <2>5. now \in Int /\ now <= now
      BY DEF ForsetiInv
    <2>6. OwnPosition(y)
      BY <2>2, <2>3, <2>4 DEF OwnPosition
    <2>7. AskedAbout(a, y)
      BY <2>3 DEF VehicleOK, AskedAbout
    <2> QED BY <2>2, <2>b, <2>5, <2>6, <2>7 DEF VehicleOK
  <1> QED BY <1>1, <1>2 DEF Learns

\* The response in which the vehicle k becomes y.
LEMMA OneVehicle ==
    ASSUME NEW r, ResponseOK(r), r.pc = "vehicles", NEW k \in DOMAIN r.items, NEW y, VehicleOK(r.api, y),
           NEW n, n = [r EXCEPT !.items = [r.items EXCEPT ![k] = y]]
    PROVE  ResponseOK(n)
  <1>1. DOMAIN r = ResponseFields
    BY DEF ResponseOK
  <1>2. PICK items : items = [r.items EXCEPT ![k] = y]
    OBVIOUS
  <1>3. DOMAIN items = DOMAIN r.items /\ \A j \in DOMAIN r.items : items[j] = r.items[j] \/ items[j] = y
    BY <1>2
  <1>4. n = [r EXCEPT !.items = items]
    BY <1>2
  <1>5. DOMAIN n = ResponseFields /\ n.pc = r.pc /\ n.api = r.api /\ n.i = r.i /\ n.items = items
    BY <1>1, <1>4 DEF ResponseFields
  <1> QED BY <1>3, <1>5 DEF ResponseOK

\* What a call or the cache says is given to its own vehicle.
LEMMA AppliedToItsOwn ==
    ASSUME NEW r, DOMAIN r = ResponseFields, NEW k \in DOMAIN r.items, DOMAIN r.items[k] = VehicleFields,
           NEW d, d.kind \in {"none", "data"}, NEW n, n = [External!Apply(r, k, d) EXCEPT !.items[k].pc = "over"]
    PROVE  \E y : Learns(r.items[k], d, y) /\ n = [r EXCEPT !.items = [r.items EXCEPT ![k] = y]]
  <1> DEFINE x == r.items[k]
             p == External!PositionOf(d, External!ArgsOf(x))
  <1>1. CASE External!Apply(r, k, d) = r
    <2>1. PICK y : y = [x EXCEPT !.pc = "over"]
      OBVIOUS
    <2>2. n = [r EXCEPT !.items = [r.items EXCEPT ![k] = y]]
      BY <1>1, <2>1 DEF ResponseFields, VehicleFields
    <2> QED BY <2>1, <2>2 DEF Learns
  <1>2. CASE /\ d.kind = "data" /\ p # ""
             /\ External!Apply(r, k, d) = [r EXCEPT !.items[k].position = p, !.items[k].of = d.v, !.items[k].at = now]
    <2>1. PICK q, a : q = p /\ a = External!Apply(r, k, d)
      OBVIOUS
    <2>2. PICK y : y = [x EXCEPT !.position = q, !.of = d.v, !.at = now, !.pc = "over"]
      OBVIOUS
    <2>3. PICK z : z = [x EXCEPT !.position = q, !.of = d.v, !.at = now]
      OBVIOUS
    <2>4. a = [r EXCEPT !.items = [r.items EXCEPT ![k] = z]]
      BY <1>2, <2>1, <2>3 DEF ResponseFields, VehicleFields
    <2> HIDE DEF p, x
    <2>5. y = [z EXCEPT !.pc = "over"] /\ DOMAIN z = VehicleFields
      BY <2>2, <2>3 DEF x, VehicleFields
    <2>6. n = [a EXCEPT !.items[k].pc = "over"]
      BY <2>1
    <2>7. DOMAIN a = ResponseFields /\ DOMAIN a.items = DOMAIN r.items /\ a.items[k] = z
      BY <2>4 DEF ResponseFields
    <2>8. n = [r EXCEPT !.items = [r.items EXCEPT ![k] = y]]
      BY <2>4, <2>5, <2>6, <2>7 DEF ResponseFields, VehicleFields
    <2> QED BY <1>2, <2>1, <2>2, <2>8 DEF Learns, p, x
  <1>3. \/ External!Apply(r, k, d) = r
        \/ /\ d.kind = "data" /\ p # ""
           /\ External!Apply(r, k, d) = [r EXCEPT !.items[k].position = p, !.items[k].of = d.v, !.items[k].at = now]
    BY DEF External!Apply, External!vehicle_journey_position, External!FirstOccupancy
  <1> QED BY <1>1, <1>2, <1>3

LEMMA VehicleIsServed ==
    ASSUME VehicleSettings, ForsetiInv, NEW r, ResponseOK(r), r.pc = "vehicles", NEW k \in DOMAIN r.items, NEW d, Timely(d),
           NEW n, n = [External!Apply(r, k, d) EXCEPT !.items[k].pc = "over"]
    PROVE  ResponseOK(n)
  <1>1. DOMAIN r = ResponseFields /\ VehicleOK(r.api, r.items[k]) /\ DOMAIN r.items[k] = VehicleFields
    BY DEF ResponseOK, VehicleOK
  <1>2. PICK y : Learns(r.items[k], d, y) /\ n = [r EXCEPT !.items = [r.items EXCEPT ![k] = y]]
    <2>1. d.kind \in {"none", "data"}
      BY DEF Timely
    <2> QED BY <1>1, <2>1, AppliedToItsOwn
  <1>3. VehicleOK(r.api, y)
    BY <1>1, <1>2, LearnsItsOwn
  <1> QED BY <1>2, <1>3, OneVehicle

-----------------------------------------------------------------------------
(* Steps *)

LEMMA SameAnswers ==
    ASSUME AnswersInv, ForsetiStill, cache' = cache
    PROVE  AnswersInv'
  BY DEF AnswersInv, AnswerOK, ForsetiStill, SaidSince

LEMMA SameResponse ==
    ASSUME NEW n, ResponseOK(n), req' = n, ForsetiStill
    PROVE  ResponseOK(req)'
  BY DEF ResponseOK, VehicleOK, OwnPosition, SaidSince, ForsetiStill

\* An answer is kept, under a key that is about vehicles only if it is.
LEMMA AnswerIsKept ==
    ASSUME VehicleSettings, ForsetiInv, AnswersInv, ForsetiStill, NEW k, NEW d, cache' = External!Store(cache, k, d, RedisTimeout),
           k[1] \in VehicleApis => d.kind = "none" \/ (d.kind = "data" /\ d.v = version["forseti"])
    PROVE  AnswersInv'
  <1>a. now \in Nat /\ RedisTimeout \in Nat \ {0} /\ MaxVersion \in Nat
    BY DEF ForsetiInv, VehicleSettings
  <1>b. version["forseti"] \in 1 .. MaxVersion
    BY DEF ForsetiInv, VehicleSettings
  <1>0. now \in Nat /\ RedisTimeout \in Nat \ {0} /\ version["forseti"] \in Nat \ {0}
    BY <1>a, <1>b
  <1>1. CASE d.kind = "none"
    BY <1>1, SameAnswers DEF External!Store
  <1>2. CASE d.kind # "none"
    <2>1. PICK e : e = External!Entry(d, RedisTimeout)
      OBVIOUS
    <2>2. e.kind = "entry" /\ e.value = d /\ e.left = RedisTimeout
      BY <2>1 DEF External!Entry
    <2>3. e = External!Entry(e.value, e.left)
      BY <2>1, <2>2, Zenon
    <2>4. cache' = [cache EXCEPT ![k] = e]
      BY <1>2, <2>1 DEF External!Store
    <2>5. k[1] \in VehicleApis => AnswerOK(e)
      BY <1>0, <1>2, <2>2, <2>3 DEF AnswerOK, SaidSince
    <2>6. DOMAIN cache' = DOMAIN cache /\ \A j \in DOMAIN cache : cache'[j] = cache[j] \/ (j = k /\ cache'[j] = e)
      BY <2>4
    <2>7. \A j \in DOMAIN cache' : j[1] \in VehicleApis => AnswerOK(cache'[j])
      BY <2>5, <2>6 DEF AnswersInv
    <2> QED BY <2>6, <2>7 DEF AnswersInv, AnswerOK, SaidSince, ForsetiStill
  <1> QED BY <1>1, <1>2

\* What is found in the cache about vehicles is timely.
LEMMA FoundIsTimely ==
    ASSUME VehicleSettings, ForsetiInv, AnswersInv, NEW k \in DOMAIN cache, k[1] \in VehicleApis, External!Holds(cache, k)
    PROVE  Timely(cache[k].value)
  <1>1. PICK e : e = cache[k]
    OBVIOUS
  <1>2. e.left \in Nat \ {0} /\ e.left <= RedisTimeout /\ e.value.kind = "data" /\ SaidSince(e.value.v, now - (RedisTimeout - e.left))
    BY <1>1 DEF AnswersInv, AnswerOK, External!Holds
  <1>3. now \in Nat /\ RedisTimeout \in Nat /\ MaxVersion \in Nat
    BY DEF ForsetiInv, VehicleSettings
  <1>4. version["forseti"] \in 1 .. MaxVersion /\ \A v \in 1 .. MaxVersion : replaced["forseti"][v] \in Int
    BY DEF ForsetiInv, VehicleSettings
  <1>5. SaidSince(e.value.v, now - RedisTimeout + 1)
    BY <1>2, <1>3, <1>4 DEF SaidSince
  <1>6. Timely(e.value)
    BY <1>2, <1>5, Zenon DEF Timely
  <1> QED BY <1>1, <1>6

LEMMA ResponseBegins ==
    ASSUME VehicleSettings, VehiclesInv, External!Begin
    PROVE  VehiclesInv'
  <1>1. ForsetiStill /\ cache' = cache
    BY DEF External!Begin, ForsetiStill
  <1>2. PICK r \in Requests :
          req' = [pc |-> External!FirstStep(r.api), api |-> r.api, items |-> r.items, i |-> 1, read |-> FALSE, used |-> {},
                  count |-> r.count, given |-> r.given, page |-> <<>>]
    BY DEF External!Begin
  <1>3. PICK n : n = req'
    OBVIOUS
  <1>4. DOMAIN n = ResponseFields /\ n.pc = External!FirstStep(r.api) /\ n.api = r.api /\ n.items = r.items /\ n.i = 1
    BY <1>2, <1>3 DEF ResponseFields
  <1>5. /\ n.pc = "provider" => n.api \notin VehicleApis
        /\ n.pc = "vehicles" => n.api \in VehicleApis
    BY <1>4 DEF External!FirstStep, VehicleApis
  <1>6. r.api \in VehicleApis => \A k \in DOMAIN r.items : VehicleOK(r.api, r.items[k])
    <2> SUFFICES ASSUME r.api \in VehicleApis, NEW k \in DOMAIN r.items PROVE VehicleOK(r.api, r.items[k])
      OBVIOUS
    <2>1. External!FirstStep(r.api) = "vehicles"
      BY DEF External!FirstStep, VehicleApis
    <2>2. AskedAbout(r.api, r.items[k])
      BY <2>1 DEF AskedAbout, External!VehicleKeys
    <2> QED BY <2>2 DEF VehicleSettings, VehicleOK
  <1>7. ResponseOK(n)
    BY <1>4, <1>5, <1>6 DEF ResponseOK
  <1> QED BY <1>1, <1>3, <1>7, SameResponse, SameAnswers DEF VehiclesInv, ForsetiInv, ForsetiStill

\* Steps that are not about a vehicle: equipments, lists of vehicles and the end of a response.
LEMMA OthersKeep ==
    ASSUME VehicleSettings, VehiclesInv, External!get_response \/ External!End
    PROVE  VehiclesInv'
  <1>1. ForsetiStill /\ cache' = cache
    BY DEF External!get_response, External!End, ForsetiStill
  <1>2. req.pc # "idle" /\ \E page : req' = [req EXCEPT !.pc = "done", !.page = page] \/ req' = [req EXCEPT !.pc = "done"]
    BY DEF External!get_response, External!End
  <1>3. PICK r : r = req
    OBVIOUS
  <1>4. PICK n, page : n = req' /\ (n = [r EXCEPT !.pc = "done", !.page = page] \/ n = [r EXCEPT !.pc = "done"])
    BY <1>2, <1>3
  <1>5. ResponseOK(r) /\ r.pc # "idle" /\ DOMAIN r = ResponseFields
    BY <1>2, <1>3 DEF VehiclesInv, ResponseOK
  <1>6. DOMAIN n = ResponseFields /\ n.pc = "done" /\ n.api = r.api /\ n.items = r.items /\ n.i = r.i
    BY <1>4, <1>5 DEF ResponseFields
  <1>7. ResponseOK(n)
    BY <1>5, <1>6 DEF ResponseOK
  <1> QED BY <1>1, <1>4, <1>7, SameResponse, SameAnswers DEF VehiclesInv, ForsetiInv, ForsetiStill

LEMMA ProviderStep ==
    ASSUME NEW r, DOMAIN r = ResponseFields, r.i \in Nat \ {0}, r.api \notin VehicleApis, NEW p, NEW d, NEW n, n = External!AfterProvider(r, p, d)
    PROVE  ResponseOK(n)
  <1>1. PICK m : m = [r EXCEPT !.i = r.i + 1, !.pc = "provider"]
    OBVIOUS
  <1>2. DOMAIN m = ResponseFields /\ m.pc = "provider" /\ m.api = r.api /\ m.i = r.i + 1
    BY <1>1 DEF ResponseFields
  <1>3. n = m \/ n = External!ProcessAll(m, p, d)
    BY <1>1 DEF External!AfterProvider
  <1>4. CASE n = External!ProcessAll(m, p, d)
    <2>1. \E items, used : n = [m EXCEPT !.items = items, !.read = TRUE, !.used = used]
      BY <1>4, Zenon DEF External!ProcessAll
    <2>2. PICK items, used : n = [m EXCEPT !.items = items, !.read = TRUE, !.used = used]
      BY <2>1
    <2>3. DOMAIN n = ResponseFields /\ n.pc = "provider" /\ n.api = r.api /\ n.i = r.i + 1
      BY <1>2, <2>2 DEF ResponseFields
    <2> QED BY <2>3 DEF ResponseOK
  <1>5. CASE n = m
    BY <1>2, <1>5 DEF ResponseOK
  <1> QED BY <1>3, <1>4, <1>5

LEMMA EquipmentsKeep ==
    ASSUME VehicleSettings, VehiclesInv, External!manage_equipments
    PROVE  VehiclesInv'
  <1>0. ForsetiInv /\ AnswersInv /\ ResponseOK(req)
    BY DEF VehiclesInv
  <1>1. ForsetiStill /\ req.pc = "provider" /\ req.i <= Len(Providers)
    BY DEF External!manage_equipments, ForsetiStill
  <1>2. DOMAIN req = ResponseFields /\ req.i \in Nat \ {0} /\ req.api \notin VehicleApis
    BY <1>0, <1>1 DEF ResponseOK
  <1> DEFINE p == Providers[req.i].id
  <1>3. p \notin VehicleApis
    <2>a. Len(Providers) \in Nat
      BY DEF VehicleSettings
    <2>1. req.i \in 1 .. Len(Providers)
      BY <1>1, <1>2, <2>a
    <2> QED BY <2>1 DEF VehicleSettings
  <1>4. /\ \E d : req' = External!AfterProvider(req, p, d)
        /\ cache' = cache \/ \E d : cache' = External!Store(cache, <<p, "all">>, d, RedisTimeout)
    BY DEF External!manage_equipments, External!CallService
  <1>5. PICK r, n : r = req /\ n = req'
    OBVIOUS
  <1>6. PICK d : n = External!AfterProvider(r, p, d)
    BY <1>4, <1>5
  <1>7. ResponseOK(n)
    BY <1>2, <1>5, <1>6, ProviderStep
  <1>8. AnswersInv'
    <2>1. CASE cache' = cache
      BY <1>0, <1>1, <2>1, SameAnswers
    <2>2. CASE \E e : cache' = External!Store(cache, <<p, "all">>, e, RedisTimeout)
      <3>1. PICK k, e : k = <<p, "all">> /\ cache' = External!Store(cache, k, e, RedisTimeout)
        BY <2>2
      <3>2. k[1] \notin VehicleApis
        BY <1>3, <3>1
      <3> QED BY <1>0, <1>1, <3>1, <3>2, AnswerIsKept
    <2> QED BY <1>4, <2>1, <2>2
  <1> QED BY <1>0, <1>1, <1>5, <1>7, <1>8, SameResponse DEF VehiclesInv, ForsetiInv, ForsetiStill

\* Only the progress of the vehicle k changes.
LEMMA Progresses ==
    ASSUME NEW r, ResponseOK(r), r.pc = "vehicles", NEW k \in DOMAIN r.items, NEW pc, NEW n, n = [r EXCEPT !.items[k].pc = pc]
    PROVE  ResponseOK(n)
  <1>1. DOMAIN r = ResponseFields /\ VehicleOK(r.api, r.items[k]) /\ DOMAIN r.items[k] = VehicleFields
    BY DEF ResponseOK, VehicleOK
  <1>2. PICK x, y : x = r.items[k] /\ y = [x EXCEPT !.pc = pc]
    OBVIOUS
  <1>3. n = [r EXCEPT !.items = [r.items EXCEPT ![k] = y]]
    BY <1>1, <1>2 DEF ResponseFields, VehicleFields
  <1>4. DOMAIN y = VehicleFields /\ y.codes = x.codes /\ y.stop = x.stop /\ y.position = x.position /\ y.of = x.of /\ y.at = x.at
    BY <1>1, <1>2 DEF VehicleFields
  <1>5. External!ArgsOf(y) = External!ArgsOf(x)
    BY <1>4 DEF External!ArgsOf
  <1>6. VehicleOK(r.api, x)
    BY <1>1, <1>2
  <1>7. VehicleOK(r.api, y)
    BY <1>4, <1>5, <1>6 DEF VehicleOK, OwnPosition, AskedAbout
  <1> QED BY <1>3, <1>7, OneVehicle

LEMMA StartKeeps ==
    ASSUME VehicleSettings, VehiclesInv, NEW k \in DOMAIN req.items, External!StartVehicle(k)
    PROVE  VehiclesInv'
  <1>0. ForsetiInv /\ AnswersInv /\ ResponseOK(req)
    BY DEF VehiclesInv
  <1>1. ForsetiStill /\ cache' = cache /\ req.pc = "vehicles"
    BY DEF External!StartVehicle, ForsetiStill
  <1>2. PICK r, n : r = req /\ n = req'
    OBVIOUS
  <1>3. ResponseOK(r) /\ r.pc = "vehicles" /\ k \in DOMAIN r.items /\ r.api \in VehicleApis /\ AskedAbout(r.api, r.items[k])
    BY <1>0, <1>1, <1>2 DEF ResponseOK, VehicleOK
  <1>4. PICK key : key = <<r.api, External!ArgsOf(r.items[k])>>
    OBVIOUS
  <1>5. key \in DOMAIN cache /\ key[1] \in VehicleApis
    BY <1>0, <1>3, <1>4 DEF AnswersInv, AskedAbout
  <1>6. \/ \E pc : n = [r EXCEPT !.items[k].pc = pc]
        \/ External!Holds(cache, key) /\ n = [External!Apply(r, k, cache[key].value) EXCEPT !.items[k].pc = "over"]
    BY <1>2, <1>4 DEF External!StartVehicle
  <1>7. ResponseOK(n)
    <2>1. CASE \E pc : n = [r EXCEPT !.items[k].pc = pc]
      BY <1>3, <2>1, Progresses
    <2>2. CASE External!Holds(cache, key) /\ n = [External!Apply(r, k, cache[key].value) EXCEPT !.items[k].pc = "over"]
      <3>1. PICK d : d = cache[key].value /\ Timely(d)
        BY <1>0, <1>5, <2>2, FoundIsTimely
      <3>2. n = [External!Apply(r, k, d) EXCEPT !.items[k].pc = "over"]
        BY <2>2, <3>1
      <3> QED BY <1>0, <1>3, <3>1, <3>2, VehicleIsServed
    <2> QED BY <1>6, <2>1, <2>2
  <1> QED BY <1>0, <1>1, <1>2, <1>7, SameResponse, SameAnswers DEF VehiclesInv, ForsetiInv, ForsetiStill

LEMMA UpdateKeeps ==
    ASSUME VehicleSettings, VehiclesInv, NEW k \in DOMAIN req.items, External!update_response(k)
    PROVE  VehiclesInv'
  <1>0. ForsetiInv /\ AnswersInv /\ ResponseOK(req)
    BY DEF VehiclesInv
  <1>1. ForsetiStill /\ req.pc = "vehicles"
    BY DEF External!update_response, ForsetiStill
  <1>2. PICK r, n : r = req /\ n = req'
    OBVIOUS
  <1>3. ResponseOK(r) /\ r.pc = "vehicles" /\ k \in DOMAIN r.items
    BY <1>0, <1>1, <1>2
  <1>4. PICK o \in External!Outcomes : \E d \in {External!AnswerAbout(External!response_marshaller("forseti", o), External!ArgsOf(req.items[k]))} :
          /\ cache' = External!Store(cache, <<req.api, External!ArgsOf(req.items[k])>>, d, RedisTimeout)
          /\ req' = [External!Apply(req, k, d) EXCEPT !.items[k].pc = "over"]
    BY Zenon DEF External!update_response, External!CallService
  <1>5. PICK d : /\ d = External!AnswerAbout(External!response_marshaller("forseti", o), External!ArgsOf(req.items[k]))
                 /\ cache' = External!Store(cache, <<req.api, External!ArgsOf(req.items[k])>>, d, RedisTimeout)
                 /\ req' = [External!Apply(req, k, d) EXCEPT !.items[k].pc = "over"]
    BY <1>4
  <1>6. d.kind = "none" \/ (d.kind = "data" /\ d.v = version["forseti"])
    <2>1. PICK e : e = External!response_marshaller("forseti", o)
      OBVIOUS
    <2>2. e.kind = "none" \/ (e.kind = "data" /\ e.v = version["forseti"])
      BY <2>1 DEF External!response_marshaller, External!Data, External!NoData
    <2>3. d = e \/ d = External!NoData
      BY <1>5, <2>1 DEF External!AnswerAbout
    <2> QED BY <2>2, <2>3 DEF External!NoData
  <1>7. Timely(d)
    <2>1. version["forseti"] \in 1 .. MaxVersion /\ MaxVersion \in Nat
      BY <1>0 DEF ForsetiInv, VehicleSettings
    <2>2. d.kind = "data" => SaidSince(d.v, now - RedisTimeout + 1)
      BY <1>6, <2>1 DEF SaidSince
    <2> QED BY <1>6, <2>2, Zenon DEF Timely
  <1>8. ResponseOK(n)
    <2>1. n = [External!Apply(r, k, d) EXCEPT !.items[k].pc = "over"]
      BY <1>2, <1>5
    <2> QED BY <1>0, <1>3, <1>7, <2>1, VehicleIsServed
  <1>9. AnswersInv'
    <2>1. PICK key : cache' = External!Store(cache, key, d, RedisTimeout)
      BY <1>5
    <2> QED BY <1>0, <1>1, <1>6, <2>1, AnswerIsKept
  <1> QED BY <1>0, <1>1, <1>2, <1>8, <1>9, SameResponse DEF VehiclesInv, ForsetiInv, ForsetiStill

\* What forseti said until now stays true of it, when it publishes something else.
LEMMA PublicationsKeep ==
    ASSUME VehicleSettings, VehiclesInv, NEW s \in DOMAIN Published, External!Publish(s)
    PROVE  VehiclesInv'
  <1>0. ForsetiInv /\ AnswersInv /\ ResponseOK(req) /\ now \in Nat /\ RedisTimeout \in Nat \ {0} /\ MaxVersion \in Nat \ {0} /\ "forseti" \in DOMAIN Published
    BY DEF VehiclesInv, ForsetiInv, VehicleSettings
  <1>1. version \in [DOMAIN Published -> 1 .. MaxVersion] /\ replaced \in [DOMAIN Published -> [1 .. MaxVersion -> Int]]
    BY <1>0 DEF ForsetiInv
  <1>2. /\ version[s] < MaxVersion /\ version' = [version EXCEPT ![s] = version[s] + 1]
        /\ replaced' = [replaced EXCEPT ![s] = [replaced[s] EXCEPT ![version[s]] = now]]
        /\ req' = req /\ cache' = cache /\ now' = now
    BY <1>1 DEF External!Publish
  <1>3. PICK old, f : old = replaced[s] /\ old \in [1 .. MaxVersion -> Int] /\ f = version[s] /\ f \in 1 .. MaxVersion
    BY <1>1
  <1>4. PICK new : new = [old EXCEPT ![f] = now]
    OBVIOUS
  <1>5. new \in [1 .. MaxVersion -> Int] /\ new[f] = now /\ \A v \in 1 .. MaxVersion : v # f => new[v] = old[v]
    BY <1>0, <1>3, <1>4
  <1>6. replaced' = [replaced EXCEPT ![s] = new] /\ version' = [version EXCEPT ![s] = f + 1]
    BY <1>2, <1>3, <1>4
  <1>7. f + 1 \in 1 .. MaxVersion
    BY <1>0, <1>2, <1>3
  <1>8. ForsetiInv'
    BY <1>0, <1>1, <1>2, <1>5, <1>6, <1>7 DEF ForsetiInv
  <1>9. ASSUME NEW t \in Int, NEW v, t <= now, SaidSince(v, t) PROVE SaidSince(v, t)'
    <2>1. CASE s # "forseti"
      <3>1. version'["forseti"] = version["forseti"] /\ replaced'["forseti"] = replaced["forseti"]
        BY <1>0, <1>1, <1>6, <2>1
      <3> QED BY <1>9, <3>1 DEF SaidSince
    <2>2. CASE s = "forseti"
      <3>1. version'["forseti"] = f + 1 /\ replaced'["forseti"] = new
        BY <1>0, <1>1, <1>6, <2>2
      <3>2. v \in 1 .. f /\ (v = f \/ old[v] >= t)
        BY <1>3, <1>9, <2>2 DEF SaidSince
      <3>3. v \in 1 .. MaxVersion /\ v \in 1 .. (f + 1)
        BY <1>0, <1>3, <3>2
      <3>4. new[v] >= t
        <4>1. CASE v = f
          BY <1>5, <1>9, <4>1
        <4>2. CASE v # f
          BY <1>5, <3>2, <3>3, <4>2
        <4> QED BY <4>1, <4>2
      <3> QED BY <3>1, <3>3, <3>4 DEF SaidSince
    <2> QED BY <2>1, <2>2
  <1>10. ASSUME NEW e, AnswerOK(e) PROVE AnswerOK(e)'
    <2>1. CASE e.kind = "entry"
      <3>1. e.left \in Nat \ {0} /\ e.left <= RedisTimeout /\ SaidSince(e.value.v, now - (RedisTimeout - e.left))
        BY <1>10, <2>1 DEF AnswerOK
      <3>2. PICK t : t = now - (RedisTimeout - e.left)
        OBVIOUS
      <3>3. t \in Int /\ t <= now /\ SaidSince(e.value.v, t)
        BY <1>0, <3>1, <3>2
      <3>4. SaidSince(e.value.v, t)'
        BY <1>9, <3>3
      <3>5. SaidSince(e.value.v, now - (RedisTimeout - e.left))'
        BY <1>2, <3>2, <3>4 DEF SaidSince
      <3> QED BY <1>10, <2>1, <3>5 DEF AnswerOK
    <2> QED BY <1>10, <2>1 DEF AnswerOK
  <1>11. AnswersInv'
    BY <1>0, <1>2, <1>10 DEF AnswersInv
  <1>12. ASSUME NEW a, NEW x, VehicleOK(a, x) PROVE VehicleOK(a, x)'
    <2>1. CASE x.position # ""
      <3>1. OwnPosition(x) /\ x.at \in Int /\ x.at <= now /\ SaidSince(x.of, x.at - RedisTimeout + 1)
        BY <1>12, <2>1 DEF VehicleOK
      <3>2. PICK t : t = x.at - RedisTimeout + 1
        OBVIOUS
      <3>3. t \in Int /\ t <= now /\ SaidSince(x.of, t)
        BY <1>0, <3>1, <3>2
      <3>4. SaidSince(x.of, t)'
        BY <1>9, <3>3
      <3>5. SaidSince(x.of, x.at - RedisTimeout + 1)'
        BY <3>2, <3>4 DEF SaidSince
      <3> QED BY <1>2, <1>12, <3>1, <3>5 DEF VehicleOK, OwnPosition, AskedAbout
    <2> QED BY <1>12, <2>1 DEF VehicleOK, AskedAbout
  <1>13. ResponseOK(req)'
    BY <1>0, <1>2, <1>12 DEF ResponseOK
  <1> QED BY <1>8, <1>11, <1>13 DEF VehiclesInv

\* Time passes while no call is on its way: what is cached is one older, and has one less left.
LEMMA HoursPass ==
    ASSUME VehicleSettings, VehiclesInv, External!Tick
    PROVE  VehiclesInv'
  <1>0. ForsetiInv /\ AnswersInv /\ ResponseOK(req) /\ now \in Nat /\ RedisTimeout \in Nat \ {0}
    BY DEF VehiclesInv, ForsetiInv, VehicleSettings
  <1>1. now' = now + 1 /\ cache' = External!Aged(cache) /\ req' = req /\ version' = version /\ replaced' = replaced
    BY DEF External!Tick
  <1>2. /\ DOMAIN cache' = DOMAIN cache
        /\ \A k \in DOMAIN cache : cache'[k] = IF cache[k].kind = "absent" \/ cache[k].left = 1 THEN External!Absent
                                              ELSE [cache[k] EXCEPT !.left = cache[k].left - 1]
    BY <1>1 DEF External!Aged
  <1>3. ASSUME NEW k \in DOMAIN cache, k[1] \in VehicleApis PROVE AnswerOK(cache[k])'
    <2>1. CASE cache[k].kind = "absent" \/ cache[k].left = 1
      <3>1. cache'[k].kind = "absent"
        BY <1>2, <1>3, <2>1 DEF External!Absent
      <3> QED BY <3>1 DEF AnswerOK
    <2>2. CASE ~(cache[k].kind = "absent" \/ cache[k].left = 1)
      <3>1. PICK e : e = cache[k]
        OBVIOUS
      <3>2. AnswerOK(e) /\ e.kind # "absent" /\ e.left # 1
        BY <1>0, <1>3, <2>2, <3>1 DEF AnswersInv
      <3>3. /\ e.kind = "entry" /\ e = External!Entry(e.value, e.left) /\ e.left \in Nat \ {0} /\ e.left <= RedisTimeout
            /\ e.value.kind = "data" /\ SaidSince(e.value.v, now - (RedisTimeout - e.left))
        BY <3>2 DEF AnswerOK
      <3>4. PICK n : n = cache'[k] /\ n = [e EXCEPT !.left = e.left - 1]
        BY <1>2, <1>3, <2>2, <3>1
      <3>5. PICK v, l : v = e.value /\ l = e.left
        OBVIOUS
      <3>6. n = External!Entry(v, l - 1)
        <4>1. e = External!Entry(v, l) /\ n = [e EXCEPT !.left = l - 1]
          BY <3>3, <3>4, <3>5
        <4> QED BY <4>1 DEF External!Entry
      <3>7. n.kind = "entry" /\ n.value = v /\ n.left = l - 1
        BY <3>6 DEF External!Entry
      <3>8. n = External!Entry(n.value, n.left)
        BY <3>6, <3>7, Zenon
      <3>9. /\ n.left \in Nat \ {0} /\ n.left <= RedisTimeout
            /\ now' - (RedisTimeout - n.left) = now - (RedisTimeout - e.left)
        BY <1>0, <1>1, <3>2, <3>3, <3>5, <3>7
      <3>10. SaidSince(n.value.v, now - (RedisTimeout - n.left))'
        BY <1>1, <3>3, <3>5, <3>7, <3>9 DEF SaidSince
      <3>11. AnswerOK(n)'
        BY <3>3, <3>5, <3>7, <3>8, <3>9, <3>10 DEF AnswerOK
      <3> QED BY <3>4, <3>11 DEF AnswerOK
    <2> QED BY <2>1, <2>2
  <1>4. AnswersInv'
    BY <1>0, <1>2, <1>3 DEF AnswersInv
  <1>5. ASSUME NEW a, NEW x, VehicleOK(a, x) PROVE VehicleOK(a, x)'
    <2>1. x.position # "" => OwnPosition(x) /\ x.at \in Int /\ x.at <= now /\ SaidSince(x.of, x.at - RedisTimeout + 1)
      BY <1>5 DEF VehicleOK
    <2>a. x.at \in Int /\ x.at <= now => x.at <= now'
      BY <1>0, <1>1
    <2>2. x.position # "" => x.at <= now'
      BY <2>1, <2>a, Zenon
    <2>3. SaidSince(x.of, x.at - RedisTimeout + 1) => SaidSince(x.of, x.at - RedisTimeout + 1)'
      BY <1>1 DEF SaidSince
    <2> QED BY <1>5, <2>1, <2>2, <2>3 DEF VehicleOK, OwnPosition, AskedAbout
  <1>6. ResponseOK(req)'
    BY <1>0, <1>1, <1>5 DEF ResponseOK
  <1> QED BY <1>0, <1>1, <1>4, <1>6 DEF VehiclesInv, ForsetiInv

LEMMA VehiclesInductive ==
    ASSUME VehicleSettings
    PROVE  External!Spec => []VehiclesInv
  <1>1. ASSUME External!Init PROVE VehiclesInv
    <2>1. ForsetiInv
      <3>1. MaxVersion \in Nat \ {0}
        BY DEF VehicleSettings
      <3>2. now = 0 /\ version = [s \in DOMAIN Published |-> 1] /\ replaced = [s \in DOMAIN Published |-> [v \in 1 .. MaxVersion |-> -1000]]
        BY <1>1 DEF External!Init, External!ServiceIds, External!Never
      <3>3. [v \in 1 .. MaxVersion |-> -1000] \in [1 .. MaxVersion -> Int] /\ 1 \in 1 .. MaxVersion
        BY <3>1
      <3> QED BY <3>2, <3>3 DEF ForsetiInv
    <2>2. AnswersInv
      BY <1>1 DEF External!Init, AnswersInv, AnswerOK, External!Empty, External!Absent
    <2>3. ResponseOK(req)
      BY <1>1 DEF External!Init, ResponseOK
    <2> QED BY <2>1, <2>2, <2>3 DEF VehiclesInv
  <1>2. ASSUME VehiclesInv, [External!Next]_External!vars PROVE VehiclesInv'
    <2>1. CASE UNCHANGED External!vars
      BY <1>2, <2>1 DEF External!vars, VehiclesInv, ForsetiInv, AnswersInv, AnswerOK, SaidSince, ResponseOK, VehicleOK, OwnPosition
    <2>2. CASE External!Begin
      BY <1>2, <2>2, ResponseBegins
    <2>3. CASE External!Work
      BY <1>2, <2>3, EquipmentsKeep, OthersKeep, StartKeeps, UpdateKeeps DEF External!Work
    <2>4. CASE \E s \in External!ServiceIds : External!Publish(s)
      BY <1>2, <2>4, PublicationsKeep DEF External!ServiceIds
    <2>5. CASE External!Tick
      BY <1>2, <2>5, HoursPass
    <2> QED BY <1>2, <2>1, <2>2, <2>3, <2>4, <2>5 DEF External!Next
  <1> QED BY <1>1, <1>2, PTL DEF External!Spec

LEMMA SaidAfter ==
    ASSUME VehicleSettings, ForsetiInv, NEW v, NEW n \in Int, SaidSince(v, n - RedisTimeout + 1), v # version["forseti"]
    PROVE  replaced["forseti"][v] > n - RedisTimeout
  <1>1. RedisTimeout \in Nat /\ MaxVersion \in Nat
    BY DEF VehicleSettings
  <1>2. PICK f, old : f = version["forseti"] /\ old = replaced["forseti"]
    OBVIOUS
  <1>3. f \in 1 .. MaxVersion /\ \A u \in 1 .. MaxVersion : old[u] \in Int
    BY <1>2 DEF ForsetiInv, VehicleSettings
  <1>4. v \in 1 .. f /\ old[v] >= n - RedisTimeout + 1
    BY <1>2 DEF SaidSince
  <1>5. v \in 1 .. MaxVersion
    BY <1>1, <1>3, <1>4
  <1>6. old[v] \in Int
    BY <1>3, <1>5
  <1>7. old[v] > n - RedisTimeout
    BY <1>1, <1>4, <1>6
  <1> QED BY <1>2, <1>7

\* In whatever order the greenlets of update_response end, a vehicle gets the position, or the occupancy, that
\* forseti gives to one of its own codes, and that was replaced less than the time it may be cached before.
THEOREM PositionsBelong ==
    ASSUME VehicleSettings
    PROVE  External!Spec => []External!PositionsAreTheirOwn
  <1>1. ASSUME VehiclesInv PROVE External!PositionsAreTheirOwn
    <2> SUFFICES ASSUME req.pc = "done", External!FirstStep(req.api) = "vehicles", NEW k \in DOMAIN req.items, req.items[k].position # ""
                 PROVE  /\ \E c \in External!ArgsOf(req.items[k]) :
                             /\ c \in DOMAIN Published["forseti"][req.items[k].of]
                             /\ Published["forseti"][req.items[k].of][c] = req.items[k].position
                        /\ req.items[k].of # version["forseti"] =>
                             replaced["forseti"][req.items[k].of] > req.items[k].at - RedisTimeout
      BY Zenon DEF External!PositionsAreTheirOwn, External!Done
    <2>1. PICK x : x = req.items[k]
      OBVIOUS
    <2>2. req.api \in VehicleApis
      BY DEF External!FirstStep, VehicleApis
    <2>3. VehicleOK(req.api, x)
      BY <1>1, <2>1, <2>2 DEF VehiclesInv, ResponseOK
    <2>4. OwnPosition(x) /\ x.at \in Int /\ SaidSince(x.of, x.at - RedisTimeout + 1)
      BY <2>1, <2>3 DEF VehicleOK
    <2>7. x.of # version["forseti"] => replaced["forseti"][x.of] > x.at - RedisTimeout
      <3>1. ForsetiInv
        BY <1>1 DEF VehiclesInv
      <3> QED BY <2>4, <3>1, SaidAfter
    <2> QED BY <2>1, <2>4, <2>7 DEF OwnPosition
  <1> QED BY <1>1, VehiclesInductive, PTL
=============================================================================
