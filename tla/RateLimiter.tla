----------------------------- MODULE RateLimiter -----------------------------
(***************************************************************************)
(* The limiter of calls to the realtime services that is shared through    *)
(* redis (navitiacommon/ratelimit.py).  The log of a key holds the dates   *)
(* of the last calls, the newest first; a redis lock, which expires,       *)
(* protects its reading and writing.  Time is relative: a date is an age,  *)
(* so that time may pass for ever in finitely many states.                 *)
(***************************************************************************)
EXTENDS Integers, Sequences, FiniteSets, SequencesExt

CONSTANTS
  Conditions,   \* what add_condition is given: [requests, seconds]
  Processes,    \* callers of acquire
  Patient,      \* those that call it with block=True
  Blocks,       \* the durations of manual blocks, 0: the default
  LockTimeout,  \* timeout of the redis lock
  InTime        \* the lock never expires while it is held

VARIABLES
  log,       \* ages of the dates in the redis list
  logLeft,   \* what is left before the list expires
  block,     \* what is left of the manual block, 0: none
  lock,      \* [by, left]
  proc,      \* process |-> [pc, seen, asked, ...]
  granted    \* the ages of the last calls that were allowed, newest first: a window of the largest condition and one

vars == <<log, logLeft, block, lock, proc, granted>>

\* The conditions kept are those of a positive period, sorted by requests.
add_condition(conditions) ==
  SortSeq(SelectSeq(conditions, LAMBDA c : c.seconds > 0),
          LAMBDA c, d : c.requests < d.requests \/ (c.requests = d.requests /\ c.seconds < d.seconds))

conditions == add_condition(Conditions)
list_ttl == IF conditions = <<>> THEN 0 ELSE Max({conditions[i].seconds : i \in DOMAIN conditions})
max_requests == conditions[Len(conditions)].requests

\* Ages past Horizon make no difference.
Horizon == list_ttl + 1
Free == [by |-> "", left |-> 0]
Idle == [pc |-> "idle", seen |-> <<>>, wait |-> 0, since |-> FALSE]

-----------------------------------------------------------------------------

\* Without condition every call is allowed, with a condition of no request none.
Shortcut(p) ==
  /\ proc[p].pc = "ping" /\ (conditions = <<>> \/ conditions[1].requests = 0)
  /\ proc' = [proc EXCEPT ![p] = IF conditions = <<>> THEN [@ EXCEPT !.pc = "yes"]
                                 ELSE [@ EXCEPT !.pc = "no", !.wait = conditions[1].seconds]]
  /\ UNCHANGED <<log, logLeft, block, lock, granted>>

TakeLock(p) ==
  /\ proc[p].pc = "ping" /\ conditions # <<>> /\ conditions[1].requests > 0 /\ lock = Free
  /\ lock' = [by |-> p, left |-> LockTimeout]
  /\ proc' = [proc EXCEPT ![p].pc = "locked"]
  /\ UNCHANGED <<log, logLeft, block, granted>>

\* lindex of each condition, or None (-1), and the block.
Boundaries == [i \in DOMAIN conditions |->
                 IF conditions[i].requests <= Len(log) THEN log[conditions[i].requests] ELSE -1]

Read(p) ==
  /\ proc[p].pc = "locked"
  /\ proc' = [proc EXCEPT ![p] = IF block > 0 THEN [@ EXCEPT !.pc = "refused", !.wait = block]
                                 ELSE [@ EXCEPT !.pc = "read", !.seen = Boundaries]]
  /\ UNCHANGED <<log, logLeft, block, lock, granted>>

\* The conditions that the dates hit, in order.
Hit(seen) == {i \in DOMAIN conditions : seen[i] # -1 /\ seen[i] < conditions[i].seconds}

Decide(p) ==
  /\ proc[p].pc = "read"
  /\ IF Hit(proc[p].seen) = {}
     THEN /\ proc' = [proc EXCEPT ![p].pc = "record", ![p].seen = <<0>>]
          /\ granted' = SubSeq(<<0>> \o granted, 1, Min({Len(granted) + 1, max_requests + 1}))
     ELSE LET i == Min(Hit(proc[p].seen))
          IN  /\ proc' = [proc EXCEPT ![p].pc = "refused", ![p].wait = conditions[i].seconds - proc[p].seen[i], ![p].seen = <<>>]
              /\ UNCHANGED granted
  /\ UNCHANGED <<log, logLeft, block, lock>>

PushFirst(age) == SubSeq(<<age>> \o log, 1, conditions[1].requests)

\* lpush, ltrim to what the largest condition needs, expire.
Push(age) == SubSeq(<<age>> \o log, 1, Min({Len(log) + 1, max_requests}))
Record(p) ==
  /\ proc[p].pc = "record"
  /\ log' = Push(proc[p].seen[1]) /\ logLeft' = list_ttl
  /\ proc' = [proc EXCEPT ![p].pc = "allowed"]
  /\ UNCHANGED <<block, lock, granted>>

\* Leaving the lock: an error if it is no longer ours.
Release(p) ==
  /\ proc[p].pc \in {"refused", "allowed"}
  /\ IF lock.by = p
     THEN /\ lock' = Free
          /\ proc' = [proc EXCEPT ![p].pc = IF @ = "allowed" THEN "yes" ELSE "no"]
     ELSE /\ UNCHANGED lock
          /\ proc' = [proc EXCEPT ![p].pc = "error"]
  /\ UNCHANGED <<log, logLeft, block, granted>>

make_ping(p) == Shortcut(p) \/ TakeLock(p) \/ Read(p) \/ Decide(p) \/ Record(p) \/ Release(p)

-----------------------------------------------------------------------------

acquire(p) ==
  /\ proc[p].pc = "idle"
  /\ proc' = [proc EXCEPT ![p].pc = "ping", ![p].since = block > 0]
  /\ UNCHANGED <<log, logLeft, block, lock, granted>>

\* Refused: sleep and ask again, or give up.
Retry(p) ==
  /\ p \in Patient /\ proc[p].pc = "no" /\ proc[p].wait = 0
  /\ proc' = [proc EXCEPT ![p].pc = "ping", ![p].since = block > 0]
  /\ UNCHANGED <<log, logLeft, block, lock, granted>>

Return(p) ==
  /\ proc[p].pc \in {"yes", "error"} \/ (proc[p].pc = "no" /\ p \notin Patient)
  /\ proc' = [proc EXCEPT ![p] = Idle]
  /\ UNCHANGED <<log, logLeft, block, lock, granted>>

\* A manual block, which does not take the lock; 0 means the longest period.
block_key(s) == IF s = 0 THEN list_ttl ELSE s
Block(s) ==
  /\ block = 0 /\ block_key(s) > 0
  /\ block' = block_key(s)
  /\ proc' = [p \in Processes |-> [proc[p] EXCEPT !.since = FALSE]]
  /\ UNCHANGED <<log, logLeft, lock, granted>>

-----------------------------------------------------------------------------
(* Time                                                                    *)

Older(n) == IF n = -1 THEN -1 ELSE Min({n + 1, Horizon})
Less(n) == IF n = 0 THEN 0 ELSE n - 1

Tick ==
  /\ InTime => lock.left # 1
  /\ log' = IF logLeft = 1 THEN <<>> ELSE [i \in DOMAIN log |-> Older(log[i])]
  /\ logLeft' = Less(logLeft)
  /\ block' = Less(block)
  /\ lock' = IF lock.left <= 1 THEN Free ELSE [lock EXCEPT !.left = @ - 1]
  /\ proc' = [p \in Processes |->
                [proc[p] EXCEPT !.seen = [i \in DOMAIN @ |-> Older(@[i])], !.wait = Less(@)]]
  /\ granted' = [i \in DOMAIN granted |-> Older(granted[i])]

Init ==
  /\ log = <<>> /\ logLeft = 0 /\ block = 0 /\ lock = Free
  /\ proc = [p \in Processes |-> Idle] /\ granted = <<>>

Step(p) == make_ping(p) \/ Retry(p) \/ Return(p)
Next ==
  \/ \E p \in Processes : acquire(p) \/ Step(p)
  \/ \E s \in Blocks : Block(s)
  \/ Tick

Spec == Init /\ [][Next]_vars

-----------------------------------------------------------------------------
(* Properties                                                              *)

\* What sorting gives: the conditions of a positive period, in the order of their requests.
ConditionsAreSorted ==
  /\ \A i, j \in DOMAIN conditions : i <= j => conditions[i].requests <= conditions[j].requests
  /\ Range(conditions) = {c \in Range(Conditions) : c.seconds > 0}

\* The log is in order, no longer than the largest condition, and one process
\* is inside the lock when it does not expire.
TypeOK ==
  /\ ConditionsAreSorted
  /\ conditions # <<>> => Len(log) <= max_requests
  /\ \A i \in 1 .. Len(log) - 1 : InTime => log[i] <= log[i + 1]
  /\ InTime => Cardinality({p \in Processes : proc[p].pc \in {"locked", "read", "record", "refused", "allowed"}}) <= 1

\* Sliding windows: for every condition, of the calls that were allowed,
\* whoever made them, one and the one `requests` later are at least `seconds`
\* apart.  Ages are exact below Horizon, which no period reaches.
WindowsAreRespected ==
  \A c \in DOMAIN conditions : \A i \in DOMAIN granted :
    LET r == conditions[c].requests
    IN  i + r \in DOMAIN granted /\ r > 0 /\ granted[i + r] < Horizon => granted[i + r] - granted[i] >= conditions[c].seconds

\* A call that begins while the key is blocked is not allowed before the end of
\* the block.
BlockHolds == \A p \in Processes : proc[p].since /\ block > 0 => proc[p].pc \notin {"read", "record", "allowed", "yes"}

\* A condition of no request allows nothing.
NothingIsAllowed == (\E c \in Range(Conditions) : c.requests = 0 /\ c.seconds > 0) => granted = <<>> /\ \A p \in Processes : proc[p].pc # "yes"

\* A refused caller waits no longer than the longest period or the block.
WaitIsBounded == \A p \in Processes : proc[p].wait <= Max({list_ttl} \cup Blocks)

=============================================================================
