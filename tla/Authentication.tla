--------------------------- MODULE Authentication ---------------------------
(***************************************************************************)
(* Authentication of the requests of jormungandr (authentication.py): the  *)
(* user of a token and its access to a region are memoized, in memory and  *)
(* in redis, and the database that holds them changes and fails.  Ages     *)
(* say how long ago a fact was last true.                                  *)
(***************************************************************************)
EXTENDS MemoCache, FiniteSets

CONSTANTS
  Processes,   \* workers, each with a memory cache
  FailMax,     \* failures in a row that open the circuit breaker of redis
  Apis,        \* "region" and "places" (an api without region)
  UserTypes,   \* the types the user may have
  Regions,     \* the states the region may have: [exists, free]
  Databases    \* the states the database may have

Window == MemoryTimeout + RedisTimeout     \* the longest a memoized value is used
Old(f) == IF f \in {"super", "free_type"} THEN 2 * Window ELSE Window    \* ages are counted up to it
Keys == {"user", "access_user", "access_nobody", "names"}

VARIABLES
  db,        \* "up", "down", or "broken": connections open but the tables cannot be read
  redis,     \* redis answers
  failures,  \* of redis in a row
  user,      \* the type of the user of the token, or "no_user"
  region,    \* [exists, free]
  granted,   \* the user has an authorization on the region
  mem, red,
  req,       \* process |-> what it is doing
  age        \* fact |-> time since it was true
vars == <<db, redis, failures, user, region, granted, mem, red, req, age>>
facts == <<db, user, region, granted>>

None == [kind |-> "none"]
Unknown == [kind |-> "user", type |-> "unknown_user"]
UserOf(type) == [kind |-> "user", type |-> type]
Bool(b) == [kind |-> "bool", is |-> b]
Names(n) == [kind |-> "names", names |-> n]
Idle == [kind |-> "idle"]
Asked(what) == [kind |-> "asked", api |-> what]
Known(what, u) == [kind |-> "known", api |-> what, user |-> u]
Answer(status) == [kind |-> "answer", status |-> status]

Facts == {"valid", "invalid", "granted", "super", "free_type", "free_region", "exists", "unreadable"}
Holding(f) ==
  CASE f = "valid" -> user # "no_user" [] f = "invalid" -> user = "no_user"
    [] f = "granted" -> granted [] f = "super" -> user = "super"
    [] f = "free_type" -> user \in {"with_free", "super"} [] f = "free_region" -> region.free
    [] f = "exists" -> region.exists
    [] f = "unreadable" -> db # "up"
-----------------------------------------------------------------------------
\* The breaker of the redis cache lets a call through while it is closed.
RedisUsable == redis /\ failures < FailMax

\* A failure is counted until the breaker opens.
RedisFails == IF redis \/ failures = FailMax THEN failures ELSE failures + 1

\* A memoized call by a process.  An exception of redis makes memoize call the function.
MemoCall(p, key, value) == Memoize(mem[p], red, key, RedisUsable, value)
Kept(p, call) ==
  /\ mem' = [mem EXCEPT ![p] = call.mem]
  /\ red' = call.red
  /\ failures' = RedisFails

\* uncached_get_user: no user for the token is the unknown user, a database that fails is
\* None.
UncachedUser ==
  IF db # "up" THEN None ELSE IF user = "no_user" THEN Unknown ELSE UserOf(user)

Start(p, api) ==
  /\ req[p].kind \in {"idle", "answer"} /\ req' = [req EXCEPT ![p] = Asked(api)]
  /\ UNCHANGED <<facts, redis, failures, mem, red, age>>

\* get_user.  A request without token is refused.
GetUser(p) ==
  /\ req[p].kind = "asked"
  /\ LET call == MemoCall(p, "user", UncachedUser)
     IN  /\ Kept(p, call)
         /\ req' = [req EXCEPT ![p] =
                      IF call.value = Unknown THEN Answer("no_such_token") ELSE Known(@.api, call.value)]
  /\ UNCHANGED <<facts, redis, age>>

\* A request whose token is absent answers at once.
NoToken(p) ==
  /\ req[p].kind = "asked" /\ req' = [req EXCEPT ![p] = Answer("no_token")]
  /\ UNCHANGED <<facts, redis, failures, mem, red, age>>

\* User.has_access, and the access to free regions; the type is that of the record.
MayAccess(u) ==
  \/ region.free /\ u.type \in {"with_free", "super"}
  \/ u.type = "super"
  \/ granted

\* An answer of has_access: True, or the exception it raises.
AccessResult(u) ==
  IF db = "down" THEN Bool(TRUE)
  ELSE IF u.kind = "none"
  THEN (IF db = "up" THEN Answer("unauthorized") ELSE Bool(TRUE))
  ELSE IF db = "broken" THEN Bool(TRUE)
  ELSE IF ~region.exists THEN Answer("no_region")
  ELSE IF MayAccess(u) THEN Bool(TRUE)
  ELSE Answer("forbidden")

\* An exception leaves has_access: nothing is kept.
HasAccess(p) ==
  /\ req[p].kind = "known" /\ req[p].api = "region"
  /\ LET u == req[p].user
         key == IF u.kind = "none" THEN "access_nobody" ELSE "access_user"
         fresh == AccessResult(u)
         call == MemoCall(p, key, IF fresh.kind = "bool" THEN fresh ELSE None)
     IN  /\ Kept(p, call)
         /\ req' = [req EXCEPT ![p] =
                      IF call.value.kind = "none" THEN fresh ELSE Answer("granted")]
  /\ UNCHANGED <<facts, redis, age>>

\* get_all_available_instances_names, of the apis without region.
NamesResult(u) ==
  IF u.kind = "none" THEN (IF db = "up" THEN Answer("unauthorized") ELSE None)
  ELSE IF u.type \notin {"with_free", "super"} THEN Answer("forbidden")
  ELSE IF db # "up" THEN Answer("error")
  ELSE Names(IF region.exists /\ (u.type = "super" \/ granted \/ region.free) THEN {"region"} ELSE {})

AllInstances(p) ==
  /\ req[p].kind = "known" /\ req[p].api = "places"
  /\ LET fresh == NamesResult(req[p].user)
         key == "names"
         call == MemoCall(p, key, IF fresh.kind = "names" THEN fresh ELSE None)
         got == IF req[p].user.kind = "none" THEN fresh ELSE IF call.value.kind = "none" THEN fresh ELSE call.value
     IN  /\ IF req[p].user.kind = "none" THEN UNCHANGED <<mem, red, failures>> ELSE Kept(p, call)
         /\ req' = [req EXCEPT ![p] =
                      IF got.kind = "answer" THEN got
                      ELSE Answer(IF got.kind = "names" /\ got.names # {} THEN "listed" ELSE "nothing")]
  /\ UNCHANGED <<facts, redis, age>>
-----------------------------------------------------------------------------
\* An age is 0 while its fact holds, and is not counted past its bound.
Refreshed == age' = [f \in Facts |-> IF Holding(f)' THEN 0 ELSE age[f]]

\* The tables change (tyr), the database and redis fail and recover.
TyrChanges ==
  /\ \/ user' \in (UserTypes \cup {"no_user"}) \ {user} /\ UNCHANGED <<region, granted>>
     \/ granted' = ~granted /\ UNCHANGED <<user, region>>
     \/ region' \in Regions \ {region} /\ UNCHANGED <<user, granted>>
  /\ UNCHANGED <<db, redis, failures, mem, red, req>> /\ Refreshed
DatabaseChanges ==
  /\ db' \in Databases \ {db}
  /\ UNCHANGED <<user, region, granted, redis, failures, mem, red, req>> /\ Refreshed
RedisChanges ==
  /\ redis' = ~redis /\ UNCHANGED <<facts, failures, mem, red, req, age>>
\* The breaker of redis tries again after its reset timeout.
BreakerCloses ==
  /\ failures = FailMax /\ redis /\ failures' = 0
  /\ UNCHANGED <<facts, redis, mem, red, req, age>>

\* Time passes between requests: they are short beside the timeouts.
Tick ==
  /\ \A p \in Processes : req[p].kind \in {"idle", "answer"}
  /\ mem' = [p \in Processes |-> Aged(mem[p])] /\ red' = Aged(red)
  /\ age' = [f \in Facts |-> IF Holding(f) THEN 0 ELSE IF age[f] = Old(f) THEN Old(f) ELSE age[f] + 1]
  /\ req' = [p \in Processes |-> Idle]
  /\ UNCHANGED <<facts, redis, failures>>

Init ==
  /\ db = "up" /\ redis = TRUE /\ failures = 0
  /\ user \in UserTypes \cup {"no_user"} /\ granted \in BOOLEAN /\ region \in Regions
  /\ mem = [p \in Processes |-> Empty(Keys)] /\ red = Empty(Keys)
  /\ req = [p \in Processes |-> Idle]
  /\ age = [f \in Facts |-> IF Holding(f) THEN 0 ELSE Old(f)]

ProcessStep(p) ==
  \/ \E api \in Apis : Start(p, api)
  \/ GetUser(p) \/ NoToken(p) \/ HasAccess(p) \/ AllInstances(p)
Next ==
  \/ \E p \in Processes : ProcessStep(p)
  \/ TyrChanges \/ DatabaseChanges \/ RedisChanges \/ BreakerCloses \/ Tick
Spec == Init /\ [][Next]_vars
-----------------------------------------------------------------------------
Within(f, n) == age[f] < n
Says(status) == \E p \in Processes : req[p] = Answer(status)

\* What the variables hold: a level keeps users, granted accesses and lists of regions for at most its
\* timeout, and a request knows at most one user.
Value ==
  {Unknown, Bool(TRUE)} \cup {UserOf(t) : t \in UserTypes} \cup {Names(n) : n \in SUBSET {"region"}}
Level(timeout) == [Keys -> {Absent} \cup [kind : {"entry"}, value : Value, left : 1 .. timeout]]
Statuses == {"no_such_token", "no_token", "granted", "unauthorized", "no_region", "forbidden", "listed", "nothing", "error"}
Request ==
  {Idle} \cup {Asked(api) : api \in Apis} \cup {Answer(status) : status \in Statuses}
  \cup {Known(x[1], x[2]) : x \in Apis \X ({None} \cup {UserOf(t) : t \in UserTypes})}
TypeOK ==
  /\ db \in Databases /\ user \in UserTypes \cup {"no_user"} /\ granted \in BOOLEAN /\ region \in Regions
  /\ redis \in BOOLEAN /\ failures \in 0 .. FailMax
  /\ red \in Level(RedisTimeout) /\ mem \in [Processes -> Level(MemoryTimeout)]
  /\ req \in [Processes -> Request]
  /\ age \in [Facts -> Nat] /\ \A f \in Facts : age[f] <= Old(f)

\* A region is open to a request only if, less than the two timeouts ago, the database
\* could not be read, or the token was valid and the right was there; the type of the user
\* may be as old as two memoized values.
AccessIsRecent ==
  Says("granted") =>
    \/ Within("unreadable", Window)
    \/ /\ Within("valid", Window) /\ Within("exists", Window)
       /\ \/ Within("granted", Window)
          \/ Within("super", 2 * Window)
          \/ Within("free_region", Window) /\ Within("free_type", 2 * Window)

\* A list of regions that is not empty has the same reasons.
ListIsRecent ==
  Says("listed") =>
    /\ Within("valid", Window) /\ Within("free_type", 2 * Window)
    /\ Within("granted", Window) \/ Within("super", 2 * Window) \/ Within("free_region", Window)

\* A token that is refused was absent less than the two timeouts ago: a new token works
\* after that.
RefusalIsRecent == Says("no_such_token") => Within("invalid", Window)

\* A refusal of the region is never kept: what is forbidden was so when it was asked.
DenialIsFresh ==
  \A p \in Processes : req[p].kind = "known" /\ req'[p] = Answer("forbidden") /\ req[p].api = "region"
    => ~granted
=============================================================================
