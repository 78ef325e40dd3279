------------------------------ MODULE MemoCache ------------------------------
(***************************************************************************)
(* The two levels of cache of jormungandr: functions are memoized in the   *)
(* memory of the process and, under that, in a redis that the processes    *)
(* share.  A level maps a key to an entry with the time it has left.       *)
(***************************************************************************)
EXTENDS Integers

CONSTANTS MemoryTimeout, RedisTimeout

Absent == [kind |-> "absent"]
Entry(value, left) == [kind |-> "entry", value |-> value, left |-> left]
Empty(keys) == [k \in keys |-> Absent]
Holds(level, key) == level[key].kind = "entry"

\* A set (or setex) of a value; None is never found again, so it is as if not kept.
Store(level, key, value, timeout) ==
  IF value.kind = "none" THEN level ELSE [level EXCEPT ![key] = Entry(value, timeout)]

\* A hit gives the entry its whole time again.
ReadSliding(level, key, timeout) == [level EXCEPT ![key].left = timeout]

\* A get leaves the level as it is.
Read(level, key, timeout) == level

\* The value a memoized call returns and what the levels become: a hit in memory, a hit in
\* redis that is copied to memory, or the call.  Without redis the call is made.
MemoryHit(mem, red, key) ==
  [value |-> mem[key].value, mem |-> Read(mem, key, MemoryTimeout), red |-> red]
RedisHit(mem, red, key) ==
  [value |-> red[key].value, mem |-> Store(mem, key, red[key].value, MemoryTimeout),
   red |-> Read(red, key, RedisTimeout)]
Called(mem, red, key, value, redisUp) ==
  [value |-> value, mem |-> Store(mem, key, value, MemoryTimeout),
   red |-> IF redisUp THEN Store(red, key, value, RedisTimeout) ELSE red]

Memoize(mem, red, key, redisUp, value) ==
  IF Holds(mem, key) THEN MemoryHit(mem, red, key)
  ELSE IF redisUp /\ Holds(red, key) THEN RedisHit(mem, red, key)
  ELSE Called(mem, red, key, value, redisUp)

\* One unit of time passes.
Aged(level) ==
  [k \in DOMAIN level |->
     IF level[k].kind = "absent" \/ level[k].left = 1 THEN Absent ELSE [level[k] EXCEPT !.left = @ - 1]]
=============================================================================
