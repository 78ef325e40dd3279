------------------------ MODULE AuthenticationProofs ------------------------
(***************************************************************************)
(* Proofs about the access that jormungandr gives: any number of           *)
(* processes, any timeouts of the two caches, any history of the tables,   *)
(* of the database and of redis; and, at the end, about the excluded       *)
(* zones, which are memoized by the same two caches, and about the places  *)
(* of car parks and bike stations, which are cached by every provider.     *)
(***************************************************************************)
EXTENDS Authentication, SequenceTheorems, WellFoundedInduction, TLAPS

\* What the proofs need to know of the settings: entries live for some time, the breaker counts, and
\* the types of users are not the words for no user.
Settings ==
  /\ MemoryTimeout \in Nat \ {0} /\ RedisTimeout \in Nat \ {0} /\ FailMax \in Nat
  /\ "no_user" \notin UserTypes /\ "unknown_user" \notin UserTypes
  /\ "up" \in Databases

\* A fact that holds has age 0.
AgeInv == \A f \in Facts : Holding(f) => age[f] = 0

\* What is behind a value, when the ages of the facts are a: the facts it was computed from were true at
\* most n ago.
UserSince(a, v, n) ==
  \/ v = Unknown /\ a["invalid"] <= n
  \/ \E t \in UserTypes :
       /\ v = UserOf(t) /\ a["valid"] <= n
       /\ t = "super" => a["super"] <= n
       /\ t \in {"with_free", "super"} => a["free_type"] <= n

\* The access of a user is computed from a user that may be as old as a memoized value.
AccessSince(a, n) ==
  \/ a["unreadable"] <= n
  \/ /\ a["exists"] <= n
     /\ \/ a["granted"] <= n
        \/ a["super"] <= n + Window
        \/ a["free_region"] <= n /\ a["free_type"] <= n + Window

NamesSince(a, n) ==
  /\ a["free_type"] <= n + Window
  /\ a["granted"] <= n \/ a["super"] <= n + Window \/ a["free_region"] <= n

Since(a, key, v, n) ==
  /\ key = "user" => UserSince(a, v, n)
  /\ key = "access_user" => v = Bool(TRUE) /\ AccessSince(a, n)
  /\ key = "access_nobody" => v = Bool(TRUE) /\ a["unreadable"] <= n
  /\ key = "names" => v.kind = "names" /\ (v.names # {} => NamesSince(a, n))

\* A level is sound when its values are as old as the time they have used, and slack more where they are
\* copied from another level.
Sound(a, level, timeout, slack) ==
  /\ level \in Level(timeout)
  /\ \A key \in Keys : Holds(level, key) => Since(a, key, level[key].value, slack + timeout - level[key].left)

\* An entry of memory may have been copied from one of redis just before its end.
CacheInv ==
  /\ Sound(age, red, RedisTimeout, 0)
  /\ \A p \in Processes : Sound(age, mem[p], MemoryTimeout, RedisTimeout)

\* The user that a request knows is one that memoize gave it since time last passed.
RequestInv ==
  \A p \in Processes : req[p].kind = "known" /\ req[p].user # None => UserSince(age, req[p].user, Window - 1)

IInv == TypeOK /\ AgeInv /\ CacheInv /\ RequestInv /\ AccessIsRecent /\ ListIsRecent /\ RefusalIsRecent

-----------------------------------------------------------------------------
(* Ages and values *)

\* The bounds of ages are numbers.
LEMMA SettingsAreNumbers ==
    ASSUME Settings
    PROVE  /\ MemoryTimeout \in Nat /\ RedisTimeout \in Nat /\ 1 <= MemoryTimeout /\ 1 <= RedisTimeout
           /\ Window \in Nat /\ Window = MemoryTimeout + RedisTimeout
           /\ \A f \in Facts : Old(f) \in Nat
  BY DEF Settings, Window, Old

\* Ages are numbers.
LEMMA AgesAreNumbers ==
    ASSUME TypeOK
    PROVE  /\ age["valid"] \in Nat /\ age["invalid"] \in Nat /\ age["granted"] \in Nat /\ age["super"] \in Nat
           /\ age["free_type"] \in Nat /\ age["free_region"] \in Nat /\ age["exists"] \in Nat /\ age["unreadable"] \in Nat
  BY DEF TypeOK, Facts

\* A value that is n old is m old after m - n units of time, whatever becomes true again meanwhile.
LEMMA SinceGrows ==
    ASSUME Settings, NEW a \in [Facts -> Nat], NEW b \in [Facts -> Nat], NEW n \in Int, NEW m \in Int,
           \A f \in Facts : b[f] <= a[f] + (m - n),
           NEW key \in Keys, NEW v, Since(a, key, v, n)
    PROVE  Since(b, key, v, m)
  <1>1. \A f \in Facts : a[f] \in Nat /\ b[f] \in Nat /\ \A c \in Int : a[f] <= n + c => b[f] <= m + c
    OBVIOUS
  <1>2. Window \in Int /\ n + 0 = n /\ m + 0 = m
    BY SettingsAreNumbers
  <1>3. \A f \in Facts : a[f] <= n => b[f] <= m
    BY <1>1, <1>2
  <1>4. \A f \in Facts : a[f] <= n + Window => b[f] <= m + Window
    BY <1>1, <1>2
  <1>5. /\ "valid" \in Facts /\ "invalid" \in Facts /\ "granted" \in Facts /\ "super" \in Facts
        /\ "free_type" \in Facts /\ "free_region" \in Facts /\ "exists" \in Facts /\ "unreadable" \in Facts
    BY DEF Facts
  <1>6. UserSince(a, v, n) => UserSince(b, v, m)
    BY <1>3, <1>5, Zenon DEF UserSince
  <1>7. AccessSince(a, n) => AccessSince(b, m)
    BY <1>3, <1>4, <1>5, Zenon DEF AccessSince
  <1>8. NamesSince(a, n) => NamesSince(b, m)
    BY <1>3, <1>4, <1>5, Zenon DEF NamesSince
  <1> QED BY <1>3, <1>5, <1>6, <1>7, <1>8, Zenon DEF Since

\* A value that is n old is also at most m old.
LEMMA SinceLater ==
    ASSUME Settings, NEW a \in [Facts -> Nat], NEW n \in Int, NEW m \in Int, n <= m, NEW key \in Keys, NEW v,
           Since(a, key, v, n)
    PROVE  Since(a, key, v, m)
  <1>1. \A f \in Facts : a[f] <= a[f] + (m - n)
    OBVIOUS
  <1> QED BY <1>1, SinceGrows

-----------------------------------------------------------------------------
(* A memoized call *)

\* What an entry holds.
LEMMA EntryTypes ==
    ASSUME NEW timeout \in Nat, NEW level \in Level(timeout), NEW key \in Keys, Holds(level, key)
    PROVE  level[key].value \in Value /\ level[key].left \in 1 .. timeout
  BY DEF Level, Holds, Absent

\* A value that is stored may be as old as the slack.
LEMMA StoreSound ==
    ASSUME NEW a, NEW timeout \in Nat \ {0}, NEW slack \in Nat, NEW level, Sound(a, level, timeout, slack), NEW key \in Keys,
           NEW value \in Value, Since(a, key, value, slack)
    PROVE  Sound(a, Store(level, key, value, timeout), timeout, slack)
  <1>1. value.kind # "none"
    BY DEF Value, Unknown, Bool, UserOf, Names
  <1> DEFINE new == [level EXCEPT ![key] = Entry(value, timeout)]
  <1>2. Store(level, key, value, timeout) = new
    BY <1>1 DEF Store
  <1>3. Entry(value, timeout) \in [kind : {"entry"}, value : Value, left : 1 .. timeout]
    BY DEF Entry
  <1>4. new \in Level(timeout) /\ new[key] = Entry(value, timeout) /\ \A k \in Keys \ {key} : new[k] = level[k]
    BY <1>3 DEF Sound, Level
  <1>5. new[key].value = value /\ new[key].left = timeout
    BY <1>4 DEF Entry
  <1> HIDE DEF new
  <1>6. slack + timeout - timeout = slack
    OBVIOUS
  <1>7. Since(a, key, new[key].value, slack + timeout - new[key].left)
    BY <1>5, <1>6
  <1>8. \A k \in Keys \ {key} : Holds(new, k) => Since(a, k, new[k].value, slack + timeout - new[k].left)
    BY <1>4 DEF Sound, Holds
  <1> QED BY <1>2, <1>4, <1>7, <1>8 DEF Sound

\* None is not kept.
LEMMA StoreNone ==
    ASSUME NEW level, NEW key, NEW timeout
    PROVE  Store(level, key, None, timeout) = level
  BY DEF Store, None

\* What memoize returns is younger than Window, and it leaves sound levels.
LEMMA MemoizeSound ==
    ASSUME Settings, NEW a \in [Facts -> Nat], NEW m, Sound(a, m, MemoryTimeout, RedisTimeout), NEW r, Sound(a, r, RedisTimeout, 0),
           NEW key \in Keys, NEW up \in BOOLEAN, NEW value \in Value \cup {None}, value # None => Since(a, key, value, 0),
           NEW call, call = Memoize(m, r, key, up, value)
    PROVE  /\ call.value \in Value \cup {None}
           /\ call.value = None => value = None
           /\ call.value # None => Since(a, key, call.value, Window - 1)
           /\ Sound(a, call.mem, MemoryTimeout, RedisTimeout) /\ Sound(a, call.red, RedisTimeout, 0)
  <1>0. /\ MemoryTimeout \in Nat \ {0} /\ RedisTimeout \in Nat \ {0} /\ 0 \in Nat /\ Window = MemoryTimeout + RedisTimeout
        /\ None \notin Value
    BY SettingsAreNumbers DEF Settings, Value, None, Unknown, Bool, UserOf, Names
  <1>1. CASE Holds(m, key)
    <2>1. call = [value |-> m[key].value, mem |-> m, red |-> r]
      BY <1>1 DEF Memoize, MemoryHit, Read
    <2>2. m[key].value \in Value /\ m[key].left \in 1 .. MemoryTimeout
      BY <1>0, <1>1, EntryTypes DEF Sound
    <2>3. Since(a, key, m[key].value, RedisTimeout + MemoryTimeout - m[key].left)
      BY <1>1 DEF Sound
    <2>4. Since(a, key, m[key].value, Window - 1)
      <3>1. /\ RedisTimeout + MemoryTimeout - m[key].left \in Int /\ Window - 1 \in Int
            /\ RedisTimeout + MemoryTimeout - m[key].left <= Window - 1
        BY <1>0, <2>2
      <3> QED BY <2>3, <3>1, SinceLater
    <2> QED BY <1>0, <2>1, <2>2, <2>4
  <1>2. CASE ~Holds(m, key) /\ up /\ Holds(r, key)
    <2> DEFINE v == r[key].value
    <2>1. call = [value |-> v, mem |-> Store(m, key, v, MemoryTimeout), red |-> r]
      BY <1>2 DEF Memoize, RedisHit, Read
    <2>2. v \in Value /\ r[key].left \in 1 .. RedisTimeout
      BY <1>0, <1>2, EntryTypes DEF Sound
    <2>3. Since(a, key, v, 0 + RedisTimeout - r[key].left)
      BY <1>2 DEF Sound
    <2> HIDE DEF v
    <2>4. Since(a, key, v, RedisTimeout) /\ Since(a, key, v, Window - 1)
      <3>1. /\ 0 + RedisTimeout - r[key].left \in Int /\ Window - 1 \in Int /\ RedisTimeout \in Int
            /\ 0 + RedisTimeout - r[key].left <= Window - 1 /\ 0 + RedisTimeout - r[key].left <= RedisTimeout
        BY <1>0, <2>2
      <3> QED BY <2>3, <3>1, SinceLater
    <2>5. Sound(a, Store(m, key, v, MemoryTimeout), MemoryTimeout, RedisTimeout)
      BY <1>0, <2>2, <2>4, StoreSound
    <2> QED BY <1>0, <2>1, <2>2, <2>4, <2>5
  <1>3. CASE ~Holds(m, key) /\ ~(up /\ Holds(r, key))
    <2>1. call = [value |-> value, mem |-> Store(m, key, value, MemoryTimeout),
                  red |-> IF up THEN Store(r, key, value, RedisTimeout) ELSE r]
      BY <1>3 DEF Memoize, Called
    <2>2. CASE value = None
      BY <2>1, <2>2, StoreNone
    <2>3. CASE value # None
      <3>1. value \in Value /\ Since(a, key, value, 0)
        BY <2>3
      <3>2. Since(a, key, value, RedisTimeout) /\ Since(a, key, value, Window - 1)
        <4>1. 0 \in Int /\ RedisTimeout \in Int /\ Window - 1 \in Int /\ 0 <= RedisTimeout /\ 0 <= Window - 1
          BY <1>0
        <4> QED BY <3>1, <4>1, SinceLater
      <3>3. Sound(a, Store(m, key, value, MemoryTimeout), MemoryTimeout, RedisTimeout)
        BY <1>0, <3>1, <3>2, StoreSound
      <3>4. Sound(a, Store(r, key, value, RedisTimeout), RedisTimeout, 0)
        BY <1>0, <3>1, StoreSound
      <3> QED BY <2>1, <2>3, <3>1, <3>2, <3>3, <3>4
    <2> QED BY <2>2, <2>3
  <1> QED BY <1>1, <1>2, <1>3

\* Time passes over a sound level.
LEMMA AgedSound ==
    ASSUME Settings, NEW a \in [Facts -> Nat], NEW b \in [Facts -> Nat], \A f \in Facts : b[f] <= a[f] + 1,
           NEW timeout \in Nat, NEW slack \in Nat, NEW level, Sound(a, level, timeout, slack)
    PROVE  Sound(b, Aged(level), timeout, slack)
  <1> DEFINE new == Aged(level)
  <1>1. DOMAIN level = Keys /\ \A k \in Keys : level[k] \in {Absent} \cup [kind : {"entry"}, value : Value, left : 1 .. timeout]
    BY DEF Sound, Level
  <1>2. ASSUME NEW k \in Keys
        PROVE  /\ new[k] \in {Absent} \cup [kind : {"entry"}, value : Value, left : 1 .. timeout]
               /\ Holds(new, k) => Since(b, k, new[k].value, slack + timeout - new[k].left)
    <2>1. CASE level[k].kind = "absent" \/ level[k].left = 1
      <3>1. new[k] = Absent
        BY <1>1, <2>1 DEF Aged
      <3> QED BY <3>1 DEF Holds, Absent
    <2>2. CASE ~(level[k].kind = "absent" \/ level[k].left = 1)
      <3>1. new[k] = [level[k] EXCEPT !.left = level[k].left - 1]
        BY <1>1, <2>2 DEF Aged
      <3>2. level[k] \in [kind : {"entry"}, value : Value, left : 1 .. timeout]
        BY <1>1, <2>2 DEF Absent
      <3>3. /\ new[k] \in [kind : {"entry"}, value : Value, left : 1 .. timeout]
            /\ new[k].value = level[k].value /\ new[k].left = level[k].left - 1 /\ level[k].left \in Int
        BY <2>2, <3>1, <3>2
      <3>4. Holds(level, k)
        BY <3>2 DEF Holds
      <3> DEFINE n == slack + timeout - level[k].left
                 m == slack + timeout - new[k].left
      <3>5. Since(a, k, level[k].value, n)
        BY <3>4 DEF Sound
      <3>6. n \in Int /\ m \in Int /\ m - n = 1
        BY <3>3
      <3> HIDE DEF n, m
      <3>7. Since(b, k, level[k].value, m)
        <4>1. \A f \in Facts : b[f] <= a[f] + (m - n)
          BY <3>6
        <4> QED BY <3>5, <3>6, <4>1, SinceGrows
      <3> QED BY <3>3, <3>7 DEF m
    <2> QED BY <2>1, <2>2
  <1>3. new = [k \in Keys |-> new[k]]
    BY <1>1 DEF Aged
  <1> HIDE DEF new
  <1>4. new \in Level(timeout)
    BY <1>2, <1>3 DEF Level
  <1> QED BY <1>2, <1>4 DEF Sound, new

\* A fact that becomes true again only makes values younger.
LEMMA YoungerSound ==
    ASSUME Settings, NEW a \in [Facts -> Nat], NEW b \in [Facts -> Nat], \A f \in Facts : b[f] <= a[f],
           NEW timeout \in Nat, NEW slack \in Nat, NEW level, Sound(a, level, timeout, slack)
    PROVE  Sound(b, level, timeout, slack)
  <1> SUFFICES ASSUME NEW k \in Keys, Holds(level, k)
               PROVE  Since(b, k, level[k].value, slack + timeout - level[k].left)
    BY DEF Sound
  <1> DEFINE n == slack + timeout - level[k].left
  <1>1. n \in Int
    BY EntryTypes DEF Sound
  <1>2. Since(a, k, level[k].value, n)
    BY DEF Sound
  <1> HIDE DEF n
  <1>3. \A f \in Facts : b[f] <= a[f] + (n - n)
    BY <1>1
  <1>4. Since(b, k, level[k].value, n)
    BY <1>1, <1>2, <1>3, SinceGrows
  <1> QED BY <1>4 DEF n

-----------------------------------------------------------------------------
(* What a step keeps *)

\* A memoized call of a process whose value is fresh keeps the caches as they must be, and gives a value
\* younger than Window.
LEMMA KeptSound ==
    ASSUME Settings, IInv, NEW p \in Processes, NEW key \in Keys, NEW value \in Value \cup {None},
           value # None => Since(age, key, value, 0), age' = age, NEW call, call = MemoCall(p, key, value), Kept(p, call)
    PROVE  /\ call.value \in Value \cup {None}
           /\ call.value = None => value = None
           /\ call.value # None => Since(age, key, call.value, Window - 1)
           /\ CacheInv'
           /\ red' \in Level(RedisTimeout) /\ mem' \in [Processes -> Level(MemoryTimeout)] /\ failures' \in 0 .. FailMax
  <1>1. age \in [Facts -> Nat] /\ mem \in [Processes -> Level(MemoryTimeout)] /\ RedisUsable \in BOOLEAN
    BY DEF IInv, TypeOK, RedisUsable
  <1>2. Sound(age, mem[p], MemoryTimeout, RedisTimeout) /\ Sound(age, red, RedisTimeout, 0)
    BY DEF IInv, CacheInv
  <1>3. /\ call.value \in Value \cup {None}
        /\ call.value = None => value = None
        /\ call.value # None => Since(age, key, call.value, Window - 1)
        /\ Sound(age, call.mem, MemoryTimeout, RedisTimeout) /\ Sound(age, call.red, RedisTimeout, 0)
    BY <1>1, <1>2, MemoizeSound DEF MemoCall
  <1>4. mem' = [mem EXCEPT ![p] = call.mem] /\ red' = call.red
    BY DEF Kept
  <1>5. call.mem \in Level(MemoryTimeout) /\ call.red \in Level(RedisTimeout)
    BY <1>3 DEF Sound
  <1>6. mem' \in [Processes -> Level(MemoryTimeout)] /\ mem'[p] = call.mem /\ \A q \in Processes \ {p} : mem'[q] = mem[q]
    BY <1>1, <1>4, <1>5
  <1>7. failures' \in 0 .. FailMax
    BY DEF Kept, RedisFails, IInv, TypeOK, Settings
  <1>8. \A q \in Processes : Sound(age, mem'[q], MemoryTimeout, RedisTimeout)
    BY <1>3, <1>6 DEF IInv, CacheInv
  <1>9. CacheInv'
    BY <1>3, <1>4, <1>8 DEF CacheInv
  <1> QED BY <1>3, <1>4, <1>5, <1>6, <1>7, <1>9

\* Steps that touch neither the caches nor the ages.
LEMMA CacheStays ==
    ASSUME CacheInv, UNCHANGED <<mem, red, age>>
    PROVE  CacheInv'
  BY DEF CacheInv

\* The reasons of the three answers that the properties are about.
AccessReason ==
  \/ Within("unreadable", Window)
  \/ /\ Within("valid", Window) /\ Within("exists", Window)
     /\ \/ Within("granted", Window)
        \/ Within("super", 2 * Window)
        \/ Within("free_region", Window) /\ Within("free_type", 2 * Window)
ListReason ==
  /\ Within("valid", Window) /\ Within("free_type", 2 * Window)
  /\ Within("granted", Window) \/ Within("super", 2 * Window) \/ Within("free_region", Window)

\* Reasons stay as long as no time passes, so an answer that was there keeps its own and only a new answer
\* needs one.
LEMMA ReasonsStay ==
    ASSUME Settings, IInv, age' \in [Facts -> Nat], \A f \in Facts : age'[f] <= age[f],
           \A q \in Processes :
             /\ req'[q] = Answer("granted") => req[q] = Answer("granted") \/ AccessReason
             /\ req'[q] = Answer("listed") => req[q] = Answer("listed") \/ ListReason
             /\ req'[q] = Answer("no_such_token") => req[q] = Answer("no_such_token") \/ Within("invalid", Window)
    PROVE  AccessIsRecent' /\ ListIsRecent' /\ RefusalIsRecent'
  <1>1. /\ "valid" \in Facts /\ "invalid" \in Facts /\ "granted" \in Facts /\ "super" \in Facts
        /\ "free_type" \in Facts /\ "free_region" \in Facts /\ "exists" \in Facts /\ "unreadable" \in Facts
    BY DEF Facts
  <1>2. Window \in Nat /\ 2 * Window \in Nat
    BY SettingsAreNumbers
  <1>3. \A f \in Facts : age[f] \in Nat /\ age'[f] \in Nat
    BY DEF IInv, TypeOK
  <1>4. \A f \in Facts : \A n \in Nat : age[f] < n => age'[f] < n
    BY <1>3
  <1>5. AccessReason => AccessReason'
    BY <1>1, <1>2, <1>4, Zenon DEF AccessReason, Within
  <1>6. ListReason => ListReason'
    BY <1>1, <1>2, <1>4, Zenon DEF ListReason, Within
  <1>7. Within("invalid", Window) => Within("invalid", Window)'
    BY <1>1, <1>2, <1>4, Zenon DEF Within
  <1>8. /\ Says("granted") => AccessReason
        /\ Says("listed") => ListReason
        /\ Says("no_such_token") => Within("invalid", Window)
    BY Zenon DEF IInv, AccessIsRecent, ListIsRecent, RefusalIsRecent, AccessReason, ListReason
  <1>9. /\ Says("granted")' => Says("granted") \/ AccessReason
        /\ Says("listed")' => Says("listed") \/ ListReason
        /\ Says("no_such_token")' => Says("no_such_token") \/ Within("invalid", Window)
    BY Zenon DEF Says, Answer
  <1>10. /\ Says("granted")' => AccessReason'
         /\ Says("listed")' => ListReason'
         /\ Says("no_such_token")' => Within("invalid", Window)'
    BY <1>5, <1>6, <1>7, <1>8, <1>9, Zenon
  <1> QED BY <1>10, Zenon DEF AccessIsRecent, ListIsRecent, RefusalIsRecent, AccessReason, ListReason

\* What a request may be.
LEMMA RequestForms ==
    /\ Idle \in Request /\ \A api \in Apis : Asked(api) \in Request
    /\ \A status \in Statuses : Answer(status) \in Request
    /\ \A api \in Apis, u \in {None} \cup {UserOf(t) : t \in UserTypes} : Known(api, u) \in Request
  <1>1. ASSUME NEW api \in Apis, NEW u \in {None} \cup {UserOf(t) : t \in UserTypes}
        PROVE  Known(api, u) \in Request
    <2> DEFINE x == <<api, u>>
    <2>1. x \in Apis \X ({None} \cup {UserOf(t) : t \in UserTypes}) /\ x[1] = api /\ x[2] = u
      OBVIOUS
    <2> HIDE DEF x
    <2>2. Known(api, u) = Known(x[1], x[2])
      BY <2>1
    <2> QED BY <2>1, <2>2 DEF Request
  <1> QED BY <1>1 DEF Request

\* What the request of a process that knows its user holds.
LEMMA KnownForm ==
    ASSUME Settings, TypeOK, NEW p \in Processes
    PROVE  /\ req[p].kind = "asked" => req[p].api \in Apis
           /\ req[p].kind = "known" =>
                req[p].api \in Apis /\ req[p].user \in {None} \cup {UserOf(t) : t \in UserTypes}
  <1>1. req[p] \in Request
    BY DEF TypeOK
  <1>2. CASE req[p] = Idle
    BY <1>2 DEF Idle
  <1>3. CASE req[p] \in {Asked(api) : api \in Apis}
    BY <1>3 DEF Asked
  <1>4. CASE req[p] \in {Answer(status) : status \in Statuses}
    BY <1>4 DEF Answer
  <1>5. CASE req[p] \in {Known(x[1], x[2]) : x \in Apis \X ({None} \cup {UserOf(t) : t \in UserTypes})}
    <2>1. PICK x \in Apis \X ({None} \cup {UserOf(t) : t \in UserTypes}) : req[p] = Known(x[1], x[2])
      BY <1>5
    <2>2. x[1] \in Apis /\ x[2] \in {None} \cup {UserOf(t) : t \in UserTypes}
      BY <2>1
    <2>3. req[p].kind = "known" /\ req[p].api = x[1] /\ req[p].user = x[2]
      BY <2>1 DEF Known
    <2> QED BY <2>2, <2>3
  <1> QED BY <1>1, <1>2, <1>3, <1>4, <1>5 DEF Request

\* A step of a process that changes only its request and the caches, keeps the caches sound and gives the
\* request a new form keeps the invariant.
LEMMA RequestStep ==
    ASSUME Settings, IInv, NEW p \in Processes, NEW new \in Request, req' = [req EXCEPT ![p] = new],
           UNCHANGED <<facts, redis, age>>,
           red' \in Level(RedisTimeout), mem' \in [Processes -> Level(MemoryTimeout)], failures' \in 0 .. FailMax,
           CacheInv',
           new.kind = "known" /\ new.user # None => UserSince(age, new.user, Window - 1),
           new = Answer("granted") => AccessReason,
           new = Answer("listed") => ListReason,
           new = Answer("no_such_token") => Within("invalid", Window)
    PROVE  IInv'
  <1>1. req' \in [Processes -> Request] /\ req'[p] = new /\ \A q \in Processes \ {p} : req'[q] = req[q]
    BY DEF IInv, TypeOK
  <1>2. TypeOK'
    BY <1>1 DEF IInv, TypeOK, facts
  <1>3. AgeInv'
    BY DEF IInv, AgeInv, Holding, facts
  <1>4. RequestInv'
    BY <1>1 DEF IInv, RequestInv
  <1>5. age' \in [Facts -> Nat] /\ \A f \in Facts : age'[f] <= age[f]
    BY DEF IInv, TypeOK
  <1>6. \A q \in Processes :
          /\ req'[q] = Answer("granted") => req[q] = Answer("granted") \/ AccessReason
          /\ req'[q] = Answer("listed") => req[q] = Answer("listed") \/ ListReason
          /\ req'[q] = Answer("no_such_token") => req[q] = Answer("no_such_token") \/ Within("invalid", Window)
    BY <1>1, Zenon
  <1>7. AccessIsRecent' /\ ListIsRecent' /\ RefusalIsRecent'
    BY <1>5, <1>6, ReasonsStay
  <1> QED BY <1>2, <1>3, <1>4, <1>7, Zenon DEF IInv

-----------------------------------------------------------------------------
(* The actions of a process *)

\* A request arrives.
LEMMA StartPreserves ==
    ASSUME Settings, IInv, NEW p \in Processes, NEW api \in Apis, Start(p, api)
    PROVE  IInv'
  <1>1. Asked(api) \in Request /\ Asked(api).kind = "asked" /\ \A s : Asked(api) # Answer(s)
    BY RequestForms DEF Asked, Answer
  <1>2. CacheInv'
    BY CacheStays DEF IInv, Start
  <1>3. /\ req' = [req EXCEPT ![p] = Asked(api)] /\ UNCHANGED <<facts, redis, age>>
        /\ red' \in Level(RedisTimeout) /\ mem' \in [Processes -> Level(MemoryTimeout)] /\ failures' \in 0 .. FailMax
    BY DEF Start, IInv, TypeOK
  <1> QED BY <1>1, <1>2, <1>3, RequestStep

\* A request without token.
LEMMA NoTokenPreserves ==
    ASSUME Settings, IInv, NEW p \in Processes, NoToken(p)
    PROVE  IInv'
  <1> DEFINE new == Answer("no_token")
  <1>1. new \in Request /\ new.kind = "answer"
    BY RequestForms DEF Answer, Statuses
  <1>2. CacheInv'
    BY CacheStays DEF IInv, NoToken
  <1>3. /\ req' = [req EXCEPT ![p] = new] /\ UNCHANGED <<facts, redis, age>>
        /\ red' \in Level(RedisTimeout) /\ mem' \in [Processes -> Level(MemoryTimeout)] /\ failures' \in 0 .. FailMax
    BY DEF NoToken, IInv, TypeOK
  <1>4. new # Answer("granted") /\ new # Answer("listed") /\ new # Answer("no_such_token")
    BY DEF Answer
  <1> QED BY <1>1, <1>2, <1>3, <1>4, RequestStep

\* The user that the database gives now.
LEMMA UserFresh ==
    ASSUME Settings, IInv
    PROVE  UncachedUser \in Value \cup {None} /\ (UncachedUser # None => Since(age, "user", UncachedUser, 0))
  <1>1. CASE db # "up"
    BY <1>1 DEF UncachedUser
  <1>2. CASE db = "up" /\ user = "no_user"
    <2>1. UncachedUser = Unknown
      BY <1>2 DEF UncachedUser
    <2>2. Holding("invalid") /\ "invalid" \in Facts
      BY <1>2 DEF Holding, Facts
    <2>3. age["invalid"] = 0
      BY <2>2 DEF IInv, AgeInv
    <2>4. UserSince(age, Unknown, 0)
      BY <2>3 DEF UserSince
    <2> QED BY <2>1, <2>4 DEF Since, Value
  <1>3. CASE db = "up" /\ user # "no_user"
    <2>1. UncachedUser = UserOf(user) /\ user \in UserTypes
      BY <1>3 DEF UncachedUser, IInv, TypeOK
    <2>2. /\ "valid" \in Facts /\ "super" \in Facts /\ "free_type" \in Facts
          /\ Holding("valid") /\ (user = "super" => Holding("super"))
          /\ (user \in {"with_free", "super"} => Holding("free_type"))
      BY <1>3 DEF Holding, Facts
    <2>3. /\ age["valid"] = 0 /\ (user = "super" => age["super"] = 0)
          /\ (user \in {"with_free", "super"} => age["free_type"] = 0)
      BY <2>2, Zenon DEF IInv, AgeInv
    <2>4. UserSince(age, UserOf(user), 0)
      BY <2>1, <2>3 DEF UserSince
    <2> QED BY <2>1, <2>4 DEF Since, Value
  <1> QED BY <1>1, <1>2, <1>3

\* get_user: the unknown user is refused, any other is known from now on.
LEMMA GetUserPreserves ==
    ASSUME Settings, IInv, NEW p \in Processes, GetUser(p)
    PROVE  IInv'
  <1> DEFINE call == MemoCall(p, "user", UncachedUser)
             new == IF call.value = Unknown THEN Answer("no_such_token") ELSE Known(req[p].api, call.value)
  <1>1. /\ req[p].kind = "asked" /\ Kept(p, call) /\ req' = [req EXCEPT ![p] = new] /\ UNCHANGED <<facts, redis, age>>
    BY DEF GetUser
  <1>2. "user" \in Keys /\ UncachedUser \in Value \cup {None} /\ (UncachedUser # None => Since(age, "user", UncachedUser, 0))
    BY UserFresh DEF Keys
  <1> HIDE DEF call
  <1>3. /\ call.value \in Value \cup {None}
        /\ call.value # None => Since(age, "user", call.value, Window - 1)
        /\ CacheInv'
        /\ red' \in Level(RedisTimeout) /\ mem' \in [Processes -> Level(MemoryTimeout)] /\ failures' \in 0 .. FailMax
    <2>1. age' = age
      BY <1>1
    <2> QED BY <1>1, <1>2, <2>1, KeptSound DEF call
  <1>4. call.value # None => UserSince(age, call.value, Window - 1)
    BY <1>3 DEF Since
  <1>5. CASE call.value = Unknown
    <2>1. new = Answer("no_such_token") /\ new \in Request /\ new.kind = "answer"
      BY <1>5, RequestForms DEF Answer, Statuses
    <2>2. new # Answer("granted") /\ new # Answer("listed")
      BY <2>1 DEF Answer
    <2>3. Unknown # None /\ \A t \in UserTypes : Unknown # UserOf(t)
      BY DEF Unknown, None, UserOf, Settings
    <2>4. age["invalid"] <= Window - 1
      BY <1>4, <1>5, <2>3 DEF UserSince
    <2>5. Within("invalid", Window)
      BY <2>4, SettingsAreNumbers, AgesAreNumbers DEF Within, IInv
    <2> HIDE DEF new
    <2> QED BY <1>1, <1>3, <2>1, <2>2, <2>5, RequestStep
  <1>6. CASE call.value # Unknown
    <2>1. new = Known(req[p].api, call.value) /\ req[p].api \in Apis
      BY <1>1, <1>6, KnownForm DEF IInv
    <2>2. call.value \in {None} \cup {UserOf(t) : t \in UserTypes}
      BY <1>4, <1>6 DEF UserSince
    <2>3. new \in Request /\ new.kind = "known" /\ new.user = call.value /\ \A s : new # Answer(s)
      BY <2>1, <2>2, RequestForms DEF Known, Answer
    <2> HIDE DEF new
    <2> QED BY <1>1, <1>3, <1>4, <2>3, RequestStep
  <1> QED BY <1>5, <1>6

\* The facts that hold now, as the values computed now need them.
LEMMA HoldingNow ==
    ASSUME IInv
    PROVE  /\ (db # "up" => age["unreadable"] = 0) /\ (region.exists => age["exists"] = 0)
           /\ (granted => age["granted"] = 0) /\ (region.free => age["free_region"] = 0)
  <1>1. /\ "unreadable" \in Facts /\ "exists" \in Facts /\ "granted" \in Facts /\ "free_region" \in Facts
        /\ (db # "up" => Holding("unreadable")) /\ (region.exists => Holding("exists"))
        /\ (granted => Holding("granted")) /\ (region.free => Holding("free_region"))
    BY DEF Holding, Facts
  <1> QED BY <1>1, Zenon DEF IInv, AgeInv

\* What the type of a known user says.
LEMMA UserKnows ==
    ASSUME Settings, IInv, NEW p \in Processes, req[p].kind = "known", req[p].user # None
    PROVE  /\ req[p].user.kind = "user" /\ age["valid"] <= Window - 1
           /\ (req[p].user.type = "super" => age["super"] <= Window - 1)
           /\ (req[p].user.type \in {"with_free", "super"} => age["free_type"] <= Window - 1)
  <1>1. PICK t \in UserTypes : req[p].user = UserOf(t)
    BY KnownForm DEF IInv
  <1>2. req[p].user # Unknown
    BY <1>1 DEF UserOf, Unknown, Settings
  <1>3. UserSince(age, req[p].user, Window - 1)
    BY DEF IInv, RequestInv
  <1>4. PICK s \in UserTypes :
           /\ req[p].user = UserOf(s) /\ age["valid"] <= Window - 1
           /\ s = "super" => age["super"] <= Window - 1
           /\ s \in {"with_free", "super"} => age["free_type"] <= Window - 1
    BY <1>2, <1>3 DEF UserSince
  <1>5. req[p].user.kind = "user" /\ req[p].user.type = s
    BY <1>4 DEF UserOf
  <1> QED BY <1>4, <1>5

\* has_access, when it is called, answers True for reasons that hold now, but for the type of the user.
LEMMA AccessFresh ==
    ASSUME Settings, IInv, NEW p \in Processes, req[p].kind = "known", NEW u, u = req[p].user,
           AccessResult(u).kind = "bool"
    PROVE  /\ AccessResult(u) = Bool(TRUE)
           /\ u = None => Since(age, "access_nobody", Bool(TRUE), 0)
           /\ u # None => Since(age, "access_user", Bool(TRUE), 0)
  <1>0. Window \in Nat /\ Window - 1 <= 0 + Window /\ 0 <= 0
    BY SettingsAreNumbers
  <1>1. \A s : Answer(s).kind # "bool"
    BY DEF Answer
  <1>2. AccessResult(u) = Bool(TRUE)
    BY <1>1 DEF AccessResult
  <1>3. db # "up" => Since(age, "access_nobody", Bool(TRUE), 0) /\ Since(age, "access_user", Bool(TRUE), 0)
    BY HoldingNow, <1>0 DEF Since, AccessSince
  <1>4. CASE db = "up"
    <2>1. u # None
      <3> SUFFICES ASSUME u = None PROVE FALSE
        OBVIOUS
      <3>1. u.kind = "none"
        BY DEF None
      <3>2. AccessResult(u) = Answer("unauthorized")
        BY <1>4, <3>1 DEF AccessResult
      <3> QED BY <1>1, <3>2
    <2>2. u.kind = "user"
      BY <2>1, UserKnows
    <2>3. region.exists /\ MayAccess(u)
      BY <1>1, <1>4, <2>2 DEF AccessResult
    <2>4. age["exists"] = 0
      BY <2>3, HoldingNow
    <2>5. /\ u.type = "super" => age["super"] <= 0 + Window
          /\ u.type \in {"with_free", "super"} => age["free_type"] <= 0 + Window
      BY <1>0, <2>1, UserKnows, AgesAreNumbers DEF IInv
    <2>6. AccessSince(age, 0)
      BY <1>0, <2>3, <2>4, <2>5, HoldingNow DEF MayAccess, AccessSince
    <2> QED BY <1>2, <2>1, <2>6 DEF Since
  <1> QED BY <1>2, <1>3, <1>4

\* has_access: the region is open for a reason that is recent.
LEMMA HasAccessPreserves ==
    ASSUME Settings, IInv, NEW p \in Processes, HasAccess(p)
    PROVE  IInv'
  <1> DEFINE u == req[p].user
             key == IF u.kind = "none" THEN "access_nobody" ELSE "access_user"
             fresh == AccessResult(u)
             value == IF fresh.kind = "bool" THEN fresh ELSE None
             call == MemoCall(p, key, value)
             new == IF call.value.kind = "none" THEN fresh ELSE Answer("granted")
  <1>1. /\ req[p].kind = "known" /\ Kept(p, call) /\ req' = [req EXCEPT ![p] = new] /\ UNCHANGED <<facts, redis, age>>
    BY DEF HasAccess
  <1>2. (u = None <=> u.kind = "none") /\ key \in Keys
    BY <1>1, UserKnows DEF None, Keys
  <1>3. /\ fresh.kind = "bool" => fresh = Bool(TRUE)
        /\ fresh.kind = "bool" => Since(age, key, fresh, 0)
    <2> HIDE DEF u
    <2> QED BY <1>1, <1>2, AccessFresh DEF u
  <1>4. fresh = Bool(TRUE) \/ fresh \in {Answer(s) : s \in {"unauthorized", "no_region", "forbidden"}}
    BY DEF AccessResult
  <1>5. value \in Value \cup {None} /\ (value # None => Since(age, key, value, 0))
    BY <1>3 DEF Value
  <1> HIDE DEF call, value, fresh, key, u
  <1>6. /\ call.value \in Value \cup {None} /\ (call.value = None => value = None)
        /\ call.value # None => Since(age, key, call.value, Window - 1)
        /\ CacheInv'
        /\ red' \in Level(RedisTimeout) /\ mem' \in [Processes -> Level(MemoryTimeout)] /\ failures' \in 0 .. FailMax
    <2>1. age' = age
      BY <1>1
    <2> QED BY <1>1, <1>2, <1>5, <2>1, KeptSound DEF call
  <1>7. call.value.kind = "none" <=> call.value = None
    BY <1>6 DEF Value, None, Unknown, Bool, UserOf, Names
  <1>8. CASE call.value = None
    <2>1. new = fresh /\ fresh \in {Answer(s) : s \in {"unauthorized", "no_region", "forbidden"}}
      <3>1. value = None
        BY <1>6, <1>8
      <3>2. fresh # Bool(TRUE)
        BY <3>1 DEF value, Bool, None
      <3> QED BY <1>4, <1>7, <1>8, <3>2
    <2> HIDE DEF new
    <2>2. new \in Request /\ new.kind = "answer"
      BY <2>1, RequestForms DEF Answer, Statuses
    <2>3. new # Answer("granted") /\ new # Answer("listed") /\ new # Answer("no_such_token")
      BY <2>1 DEF Answer
    <2> QED BY <1>1, <1>6, <2>2, <2>3, RequestStep
  <1>9. CASE call.value # None
    <2>1. new = Answer("granted")
      BY <1>7, <1>9
    <2> HIDE DEF new
    <2>2. new \in Request /\ new.kind = "answer"
      BY <2>1, RequestForms DEF Answer, Statuses
    <2>3. new # Answer("listed") /\ new # Answer("no_such_token")
      BY <2>1 DEF Answer
    <2>4. Since(age, key, call.value, Window - 1) /\ Window \in Nat
      BY <1>6, <1>9, SettingsAreNumbers
    <2>5. CASE u = None
      <3>1. age["unreadable"] <= Window - 1
        BY <1>2, <2>4, <2>5 DEF Since, key
      <3>2. AccessReason
        BY <2>4, <3>1, AgesAreNumbers DEF AccessReason, Within, IInv
      <3> QED BY <1>1, <1>6, <2>2, <2>3, <3>2, RequestStep
    <2>6. CASE u # None
      <3>1. AccessSince(age, Window - 1)
        BY <1>2, <2>4, <2>6 DEF Since, key
      <3>2. age["valid"] <= Window - 1
        BY <1>1, <2>6, UserKnows DEF u
      <3>3. AccessReason
        BY <2>4, <3>1, <3>2, AgesAreNumbers DEF AccessReason, AccessSince, Within, IInv
      <3> QED BY <1>1, <1>6, <2>2, <2>3, <3>3, RequestStep
    <2> QED BY <2>5, <2>6
  <1> QED BY <1>8, <1>9

\* The list of regions that is computed now.
LEMMA NamesFresh ==
    ASSUME Settings, IInv, NEW p \in Processes, req[p].kind = "known", NEW u, u = req[p].user
    PROVE  /\ NamesResult(u) = None \/ NamesResult(u) \in {Answer(s) : s \in {"unauthorized", "forbidden", "error"}}
              \/ NamesResult(u) \in {Names(n) : n \in SUBSET {"region"}}
           /\ u # None => NamesResult(u) # None
           /\ u = None => NamesResult(u).kind # "names"
           /\ NamesResult(u).kind = "names" => Since(age, "names", NamesResult(u), 0)
  <1>0. Window \in Nat /\ Window - 1 <= 0 + Window /\ 0 <= 0
    BY SettingsAreNumbers
  <1>1. /\ \A s : Answer(s).kind = "answer" /\ Answer(s) # None
        /\ \A n : Names(n).kind = "names" /\ Names(n).names = n /\ Names(n) # None
        /\ None.kind = "none"
    BY DEF Answer, Names, None
  <1>2. CASE u = None
    BY <1>1, <1>2 DEF NamesResult
  <1>3. CASE u # None
    <2>1. u.kind = "user"
      BY <1>3, UserKnows
    <2>2. CASE u.type \notin {"with_free", "super"} \/ db # "up"
      BY <1>1, <1>3, <2>1, <2>2 DEF NamesResult
    <2>3. CASE u.type \in {"with_free", "super"} /\ db = "up"
      <3> DEFINE n == IF region.exists /\ (u.type = "super" \/ granted \/ region.free) THEN {"region"} ELSE {}
      <3>1. NamesResult(u) = Names(n) /\ n \in SUBSET {"region"}
        BY <2>1, <2>3 DEF NamesResult
      <3>2. age["free_type"] <= 0 + Window /\ (u.type = "super" => age["super"] <= 0 + Window)
        BY <1>0, <1>3, <2>3, UserKnows, AgesAreNumbers DEF IInv
      <3>3. n # {} => NamesSince(age, 0)
        BY <1>0, <3>2, HoldingNow DEF NamesSince
      <3> HIDE DEF n
      <3>4. Since(age, "names", Names(n), 0)
        BY <1>1, <3>3 DEF Since
      <3> QED BY <1>1, <1>3, <3>1, <3>4
    <2> QED BY <2>2, <2>3
  <1> QED BY <1>2, <1>3

\* get_all_available_instances_names: a list that is not empty has a reason that is recent.
LEMMA AllInstancesPreserves ==
    ASSUME Settings, IInv, NEW p \in Processes, AllInstances(p)
    PROVE  IInv'
  <1> DEFINE u == req[p].user
             fresh == NamesResult(u)
             value == IF fresh.kind = "names" THEN fresh ELSE None
             call == MemoCall(p, "names", value)
             got == IF u.kind = "none" THEN fresh ELSE IF call.value.kind = "none" THEN fresh ELSE call.value
             new == IF got.kind = "answer" THEN got
                    ELSE Answer(IF got.kind = "names" /\ got.names # {} THEN "listed" ELSE "nothing")
  <1>1. /\ req[p].kind = "known" /\ req' = [req EXCEPT ![p] = new] /\ UNCHANGED <<facts, redis, age>>
        /\ IF u.kind = "none" THEN UNCHANGED <<mem, red, failures>> ELSE Kept(p, call)
    BY DEF AllInstances
  <1>2. u = None <=> u.kind = "none"
    BY <1>1, UserKnows DEF None
  <1>3. /\ fresh = None \/ fresh \in {Answer(s) : s \in {"unauthorized", "forbidden", "error"}}
           \/ fresh \in {Names(n) : n \in SUBSET {"region"}}
        /\ u = None => fresh.kind # "names"
        /\ fresh.kind = "names" => Since(age, "names", fresh, 0)
    <2> HIDE DEF u
    <2> QED BY <1>1, NamesFresh DEF u
  <1>5. /\ \A s : Answer(s).kind = "answer" /\ \A n : Names(n).kind = "names"
        /\ None.kind = "none" /\ Unknown.kind = "user" /\ \A b : Bool(b).kind = "bool" /\ \A t : UserOf(t).kind = "user"
    BY DEF Answer, Names, None, Unknown, Bool, UserOf
  <1> HIDE DEF fresh
  <1>4. value \in Value \cup {None} /\ (value # None => Since(age, "names", value, 0))
    <2>1. CASE fresh.kind = "names"
      <3>1. fresh \in {Names(n) : n \in SUBSET {"region"}}
        BY <1>3, <1>5, <2>1
      <3> QED BY <1>3, <2>1, <3>1 DEF Value
    <2>2. CASE fresh.kind # "names"
      BY <2>2
    <2> QED BY <2>1, <2>2
  <1> HIDE DEF call, value, u
  <1>6. /\ CacheInv'
        /\ red' \in Level(RedisTimeout) /\ mem' \in [Processes -> Level(MemoryTimeout)] /\ failures' \in 0 .. FailMax
        /\ u # None => /\ call.value \in Value \cup {None} /\ (call.value = None => value = None)
                       /\ call.value # None => Since(age, "names", call.value, Window - 1)
    <2>1. age' = age /\ "names" \in Keys
      BY <1>1 DEF Keys
    <2>2. CASE u = None
      BY <1>1, <1>2, <2>1, <2>2, CacheStays DEF IInv, TypeOK
    <2>3. CASE u # None
      BY <1>1, <1>2, <1>4, <2>1, <2>3, KeptSound DEF call
    <2> QED BY <2>2, <2>3
  <1>7. fresh.kind = "names" => value = fresh /\ value # None
    BY <1>5 DEF value
  <1>8. got.kind = "names" => u # None /\ Since(age, "names", got, Window - 1)
    <2>1. CASE u = None
      BY <1>2, <1>3, <2>1
    <2>2. CASE u # None /\ call.value.kind = "none"
      <3>1. call.value = None
        BY <1>5, <1>6, <2>2 DEF Value
      <3>2. got = fresh /\ value = None
        BY <1>2, <1>6, <2>2, <3>1
      <3> QED BY <1>7, <3>2
    <2>3. CASE u # None /\ call.value.kind # "none"
      BY <1>2, <1>5, <1>6, <2>3
    <2> QED BY <2>1, <2>2, <2>3
  <1>9. got.kind = "answer" => got \in {Answer(s) : s \in {"unauthorized", "forbidden", "error"}}
    <2>1. \A v \in Value \cup {None} : v.kind # "answer"
      BY <1>5 DEF Value
    <2>2. fresh.kind = "answer" => fresh \in {Answer(s) : s \in {"unauthorized", "forbidden", "error"}}
      BY <1>3, <1>5
    <2> QED BY <1>2, <1>6, <2>1, <2>2
  <1>10. CASE got.kind = "names" /\ got.names # {}
    <2> HIDE DEF got
    <2>1. new = Answer("listed")
      BY <1>10
    <2> HIDE DEF new
    <2>2. new \in Request /\ new.kind = "answer" /\ new # Answer("granted") /\ new # Answer("no_such_token")
      BY <2>1, RequestForms DEF Answer, Statuses
    <2>3. NamesSince(age, Window - 1)
      BY <1>8, <1>10 DEF Since
    <2>4. age["valid"] <= Window - 1
      BY <1>1, <1>8, <1>10, UserKnows DEF u
    <2>5. ListReason
      BY <2>3, <2>4, SettingsAreNumbers, AgesAreNumbers DEF ListReason, NamesSince, Within, IInv
    <2> QED BY <1>1, <1>6, <2>2, <2>5, RequestStep
  <1>11. CASE ~(got.kind = "names" /\ got.names # {})
    <2> HIDE DEF got
    <2>1. new \in {Answer(s) : s \in {"unauthorized", "forbidden", "error", "nothing"}}
      BY <1>9, <1>11
    <2> HIDE DEF new
    <2>2. new \in Request /\ new.kind = "answer"
      BY <2>1, RequestForms DEF Answer, Statuses
    <2>3. new # Answer("granted") /\ new # Answer("listed") /\ new # Answer("no_such_token")
      BY <2>1 DEF Answer
    <2> QED BY <1>1, <1>6, <2>2, <2>3, RequestStep
  <1> QED BY <1>10, <1>11

-----------------------------------------------------------------------------
(* Time, the tables, the database and redis *)

\* A step of the tables or of the database: facts change, and the ages of those that hold become 0.
LEMMA RefreshPreserves ==
    ASSUME Settings, IInv, UNCHANGED <<redis, failures, mem, red, req>>, Refreshed,
           db' \in Databases, user' \in UserTypes \cup {"no_user"}, granted' \in BOOLEAN, region' \in Regions
    PROVE  IInv'
  <1>1. age \in [Facts -> Nat] /\ \A f \in Facts : age[f] <= Old(f) /\ Old(f) \in Nat
    BY SettingsAreNumbers DEF IInv, TypeOK
  <1>2. age' = [f \in Facts |-> IF Holding(f)' THEN 0 ELSE age[f]]
    BY DEF Refreshed
  <1>3. age' \in [Facts -> Nat] /\ \A f \in Facts : age'[f] <= age[f] /\ age'[f] <= Old(f)
    BY <1>1, <1>2
  <1>4. AgeInv'
    BY <1>2 DEF AgeInv
  <1>5. TypeOK'
    BY <1>3 DEF IInv, TypeOK
  <1>6. CacheInv'
    <2>0. MemoryTimeout \in Nat /\ RedisTimeout \in Nat /\ 0 \in Nat
      BY SettingsAreNumbers
    <2>1. Sound(age', red, RedisTimeout, 0)
      BY <1>1, <1>3, <2>0, YoungerSound DEF IInv, CacheInv
    <2>2. \A p \in Processes : Sound(age', mem[p], MemoryTimeout, RedisTimeout)
      BY <1>1, <1>3, <2>0, YoungerSound DEF IInv, CacheInv
    <2> QED BY <2>1, <2>2 DEF CacheInv
  <1>7. RequestInv'
    <2> SUFFICES ASSUME NEW p \in Processes, req[p].kind = "known", req[p].user # None
                 PROVE  UserSince(age', req[p].user, Window - 1)
      BY DEF RequestInv
    <2> DEFINE n == Window - 1
    <2>1. Since(age, "user", req[p].user, n)
      BY DEF IInv, RequestInv, Since
    <2>2. "user" \in Keys /\ n \in Int
      BY SettingsAreNumbers DEF Keys
    <2> HIDE DEF n
    <2>3. \A f \in Facts : age'[f] <= age[f] + (n - n)
      BY <1>1, <1>3, <2>2
    <2>4. Since(age', "user", req[p].user, n)
      BY <1>1, <1>3, <2>1, <2>2, <2>3, SinceGrows
    <2> QED BY <2>4 DEF Since, n
  <1>8. AccessIsRecent' /\ ListIsRecent' /\ RefusalIsRecent'
    BY <1>3, ReasonsStay
  <1> QED BY <1>4, <1>5, <1>6, <1>7, <1>8, Zenon DEF IInv

\* The tables change under tyr.
LEMMA TyrChangesPreserves ==
    ASSUME Settings, IInv, TyrChanges
    PROVE  IInv'
  <1>1. /\ UNCHANGED <<redis, failures, mem, red, req>> /\ Refreshed
        /\ db' \in Databases /\ user' \in UserTypes \cup {"no_user"} /\ granted' \in BOOLEAN /\ region' \in Regions
    BY DEF TyrChanges, IInv, TypeOK
  <1> QED BY <1>1, RefreshPreserves

\* The database fails or comes back.
LEMMA DatabaseChangesPreserves ==
    ASSUME Settings, IInv, DatabaseChanges
    PROVE  IInv'
  <1>1. /\ UNCHANGED <<redis, failures, mem, red, req>> /\ Refreshed
        /\ db' \in Databases /\ user' \in UserTypes \cup {"no_user"} /\ granted' \in BOOLEAN /\ region' \in Regions
    BY DEF DatabaseChanges, IInv, TypeOK
  <1> QED BY <1>1, RefreshPreserves

\* A step of redis or of its breaker.
LEMMA RedisPreserves ==
    ASSUME Settings, IInv, UNCHANGED <<facts, mem, red, req, age>>, redis' \in BOOLEAN, failures' \in 0 .. FailMax
    PROVE  IInv'
  <1>1. TypeOK'
    BY DEF IInv, TypeOK, facts
  <1>2. AgeInv'
    BY DEF IInv, AgeInv, Holding, facts
  <1>3. CacheInv'
    BY CacheStays DEF IInv
  <1>4. RequestInv'
    BY DEF IInv, RequestInv
  <1>5. age' \in [Facts -> Nat] /\ \A f \in Facts : age'[f] <= age[f]
    BY DEF IInv, TypeOK
  <1>6. AccessIsRecent' /\ ListIsRecent' /\ RefusalIsRecent'
    BY <1>5, ReasonsStay
  <1> QED BY <1>1, <1>2, <1>3, <1>4, <1>6, Zenon DEF IInv

\* Time passes: entries and facts grow older together, and the answers of before are gone.
LEMMA TickPreserves ==
    ASSUME Settings, IInv, Tick
    PROVE  IInv'
  <1>1. age \in [Facts -> Nat] /\ \A f \in Facts : age[f] <= Old(f) /\ Old(f) \in Nat
    BY SettingsAreNumbers DEF IInv, TypeOK
  <1>2. /\ age' = [f \in Facts |-> IF Holding(f) THEN 0 ELSE IF age[f] = Old(f) THEN Old(f) ELSE age[f] + 1]
        /\ mem' = [p \in Processes |-> Aged(mem[p])] /\ red' = Aged(red)
        /\ req' = [p \in Processes |-> Idle] /\ UNCHANGED <<db, user, region, granted, redis, failures>>
    BY DEF Tick, facts
  <1>3. age' \in [Facts -> Nat] /\ \A f \in Facts : age'[f] <= age[f] + 1 /\ age'[f] <= Old(f)
    BY <1>1, <1>2
  <1>4. AgeInv'
    BY <1>2 DEF AgeInv, Holding
  <1>5. CacheInv'
    <2>0. MemoryTimeout \in Nat /\ RedisTimeout \in Nat /\ 0 \in Nat
      BY SettingsAreNumbers
    <2>1. Sound(age', Aged(red), RedisTimeout, 0)
      BY <1>1, <1>3, <2>0, AgedSound DEF IInv, CacheInv
    <2>2. \A p \in Processes : Sound(age', Aged(mem[p]), MemoryTimeout, RedisTimeout)
      BY <1>1, <1>3, <2>0, AgedSound DEF IInv, CacheInv
    <2> QED BY <1>2, <2>1, <2>2 DEF CacheInv
  <1>6. TypeOK'
    <2>1. red' \in Level(RedisTimeout) /\ \A p \in Processes : mem'[p] \in Level(MemoryTimeout)
      BY <1>5 DEF CacheInv, Sound
    <2>2. mem' \in [Processes -> Level(MemoryTimeout)]
      BY <1>2, <2>1
    <2>3. req' \in [Processes -> Request]
      BY <1>2, RequestForms
    <2> QED BY <1>2, <1>3, <2>1, <2>2, <2>3 DEF IInv, TypeOK
  <1>7. \A p \in Processes : req'[p].kind = "idle" /\ \A s : req'[p] # Answer(s)
    BY <1>2 DEF Idle, Answer
  <1>8. RequestInv'
    BY <1>7 DEF RequestInv
  <1>9. ~Says("granted")' /\ ~Says("listed")' /\ ~Says("no_such_token")'
    BY <1>7, Zenon DEF Says
  <1>10. AccessIsRecent' /\ ListIsRecent' /\ RefusalIsRecent'
    BY <1>9, Zenon DEF AccessIsRecent, ListIsRecent, RefusalIsRecent
  <1> QED BY <1>4, <1>5, <1>6, <1>8, <1>10, Zenon DEF IInv

-----------------------------------------------------------------------------
(* The theorems *)

\* The caches start empty and no request has been answered.
LEMMA InitIInv ==
    ASSUME Settings, Init
    PROVE  IInv
  <1>1. /\ mem = [p \in Processes |-> Empty(Keys)] /\ red = Empty(Keys) /\ req = [p \in Processes |-> Idle]
        /\ age = [f \in Facts |-> IF Holding(f) THEN 0 ELSE Old(f)]
    BY DEF Init
  <1>2. age \in [Facts -> Nat] /\ \A f \in Facts : age[f] <= Old(f)
    BY <1>1, SettingsAreNumbers
  <1>3. AgeInv
    BY <1>1 DEF AgeInv
  <1>4. \A timeout : Empty(Keys) \in Level(timeout) /\ \A key \in Keys : ~Holds(Empty(Keys), key)
    BY DEF Empty, Level, Holds, Absent
  <1>5. CacheInv
    BY <1>1, <1>4 DEF CacheInv, Sound
  <1>6. TypeOK
    BY <1>1, <1>2, <1>4, RequestForms DEF Init, TypeOK, Settings
  <1>7. \A p \in Processes : req[p].kind = "idle" /\ \A s : req[p] # Answer(s)
    BY <1>1 DEF Idle, Answer
  <1>8. RequestInv
    BY <1>7 DEF RequestInv
  <1>9. ~Says("granted") /\ ~Says("listed") /\ ~Says("no_such_token")
    BY <1>7, Zenon DEF Says
  <1>10. AccessIsRecent /\ ListIsRecent /\ RefusalIsRecent
    BY <1>9, Zenon DEF AccessIsRecent, ListIsRecent, RefusalIsRecent
  <1> QED BY <1>3, <1>5, <1>6, <1>8, <1>10, Zenon DEF IInv

\* Every step keeps the invariant.
LEMMA Inductive ==
    ASSUME Settings, IInv, [Next]_vars
    PROVE  IInv'
  <1>1. ASSUME NEW p \in Processes, ProcessStep(p)
        PROVE  IInv'
    BY <1>1, StartPreserves, GetUserPreserves, NoTokenPreserves, HasAccessPreserves, AllInstancesPreserves, Zenon
       DEF ProcessStep
  <1>2. CASE RedisChanges
    <2>1. UNCHANGED <<facts, mem, red, req, age>> /\ redis' \in BOOLEAN /\ failures' \in 0 .. FailMax
      BY <1>2 DEF RedisChanges, IInv, TypeOK
    <2> QED BY <2>1, RedisPreserves
  <1>3. CASE BreakerCloses
    <2>1. UNCHANGED <<facts, mem, red, req, age>> /\ redis' \in BOOLEAN /\ failures' \in 0 .. FailMax
      BY <1>3 DEF BreakerCloses, IInv, TypeOK, Settings
    <2> QED BY <2>1, RedisPreserves
  <1>4. CASE UNCHANGED vars
    <2>1. UNCHANGED <<facts, mem, red, req, age>> /\ redis' \in BOOLEAN /\ failures' \in 0 .. FailMax
      BY <1>4 DEF vars, facts, IInv, TypeOK
    <2> QED BY <2>1, RedisPreserves
  <1> QED BY <1>1, <1>2, <1>3, <1>4, TyrChangesPreserves, DatabaseChangesPreserves, TickPreserves, Zenon DEF Next

\* The inductive invariant holds in every state.
THEOREM Invariance ==
    ASSUME Settings
    PROVE  Spec => []IInv
  <1>1. Init => IInv
    BY InitIInv
  <1>2. IInv /\ [Next]_vars => IInv'
    BY Inductive
  <1> QED BY <1>1, <1>2, PTL DEF Spec

\* The caches, the requests and the ages keep their types.
THEOREM TypeCorrectness ==
    ASSUME Settings
    PROVE  Spec => []TypeOK
  <1>1. IInv => TypeOK
    BY DEF IInv
  <1> QED BY <1>1, Invariance, PTL

\* A process that opens a region does so for a reason less than MemoryTimeout + RedisTimeout old (the type of
\* the user, which has gone through two memoized functions, less than twice that), whatever the interleaving
\* of the processes with the changes of the tables and with the failures of the database and of redis.
THEOREM AccessFromRecentFacts ==
    ASSUME Settings
    PROVE  Spec => []AccessIsRecent
  <1>1. IInv => AccessIsRecent
    BY DEF IInv
  <1> QED BY <1>1, Invariance, PTL

\* The same of a list of regions that is not empty.
THEOREM ListsFromRecentFacts ==
    ASSUME Settings
    PROVE  Spec => []ListIsRecent
  <1>1. IInv => ListIsRecent
    BY DEF IInv
  <1> QED BY <1>1, Invariance, PTL

\* A token is refused as unknown only if it was unknown less than the two timeouts ago.
THEOREM RefusalsAreRecent ==
    ASSUME Settings
    PROVE  Spec => []RefusalIsRecent
  <1>1. IInv => RefusalIsRecent
    BY DEF IInv
  <1> QED BY <1>1, Invariance, PTL

\* The access is computed to be forbidden only when there is no authorization.
LEMMA ForbiddenIsTrue ==
    ASSUME NEW u, AccessResult(u) = Answer("forbidden")
    PROVE  ~granted
  <1>1. Answer("forbidden") # Bool(TRUE) /\ Answer("forbidden") # Answer("unauthorized") /\ Answer("forbidden") # Answer("no_region")
    BY DEF Answer, Bool
  <1>2. ~MayAccess(u)
    BY <1>1, Zenon DEF AccessResult
  <1> QED BY <1>2, Zenon DEF MayAccess

\* Only has_access ends a request about a region that knows its user.
LEMMA DenialStep ==
    ASSUME Settings, IInv, Next, NEW p \in Processes, req[p].kind = "known", req[p].api = "region",
           req'[p] = Answer("forbidden")
    PROVE  ~granted
  <1>1. req'[p] # req[p] /\ req'[p] # Idle /\ DOMAIN req = Processes
    BY DEF Answer, Idle, IInv, TypeOK
  <1>2. ~UNCHANGED req
    BY <1>1
  <1>3. ~(TyrChanges \/ DatabaseChanges \/ RedisChanges \/ BreakerCloses \/ Tick)
    BY <1>1, <1>2 DEF TyrChanges, DatabaseChanges, RedisChanges, BreakerCloses, Tick
  <1>4. PICK o \in Processes : ProcessStep(o)
    BY <1>3 DEF Next
  <1>5. \E new : req' = [req EXCEPT ![o] = new]
    <2>1. ASSUME NEW api \in Apis, Start(o, api) PROVE \E new : req' = [req EXCEPT ![o] = new]
      BY <2>1 DEF Start
    <2>2. CASE GetUser(o)
      BY <2>2 DEF GetUser
    <2>3. CASE NoToken(o)
      BY <2>3 DEF NoToken
    <2>4. CASE HasAccess(o)
      BY <2>4 DEF HasAccess
    <2>5. CASE AllInstances(o)
      BY <2>5 DEF AllInstances
    <2> QED BY <1>4, <2>1, <2>2, <2>3, <2>4, <2>5 DEF ProcessStep
  <1>6. o = p
    BY <1>1, <1>5
  <1>7. HasAccess(p)
    BY <1>4, <1>6 DEF ProcessStep, Start, GetUser, NoToken, AllInstances
  <1>8. req'[p] = AccessResult(req[p].user) \/ req'[p] = Answer("granted")
    BY <1>1, <1>7 DEF HasAccess
  <1>9. Answer("granted") # Answer("forbidden")
    BY DEF Answer
  <1> QED BY <1>8, <1>9, ForbiddenIsTrue

\* A refusal of a region is never memoized: whoever is told that a region is forbidden had no
\* authorization on it at that moment, whatever the caches of any process hold.
THEOREM DenialsAreFresh ==
    ASSUME Settings
    PROVE  Spec => [][DenialIsFresh]_vars
  <1>1. IInv /\ [Next]_vars => [DenialIsFresh]_vars
    BY DenialStep, Zenon DEF DenialIsFresh
  <1> QED BY <1>1, Invariance, PTL DEF Spec

-----------------------------------------------------------------------------
(***************************************************************************)
(* The excluded zones, which are behind the same two levels of cache: any  *)
(* files, any number of processes, any timeouts.                           *)
(***************************************************************************)
CONSTANTS Bucket, Modes, Dates, Places, MaxNow, MaxCalls, MaxFailures, MaxRestarts
VARIABLES shapes, version, changed, failed, answer, now, calls, restarts

Zones == INSTANCE ExcludedZones

\* What the proofs need to know of the settings: entries live for some time, the bucket is a list of
\* lists of files, and no mode or date is the word for all of them.
ZoneSettings ==
  /\ MemoryTimeout \in Nat \ {0} /\ RedisTimeout \in Nat \ {0}
  /\ Bucket # <<>> /\ \E Files : Bucket \in Seq(Seq(Files))
  /\ Zones!Whatever \notin Modes /\ 0 \notin Dates

\* One process, that never restarts.
Alone == (\A p, q \in Processes : p = q) /\ MaxRestarts = 0

\* What a value of the caches is judged by: w is the history of the bucket, the last failure and the shapes
\* of the processes.
World == [version |-> version, changed |-> changed, failed |-> failed, shapes |-> shapes]
FilesSince(w, t) == {v \in 1 .. w.version : v = w.version \/ w.changed[v + 1] >= t}
FromFiles(w, z, t) == z = Zones!Unread \/ \E v \in FilesSince(w, t) : z \in Zones!Range(Bucket[v])

\* A reading at t or later; the zones selected from one; and, alone, the shapes of one.
AllSince(w, zs, t) ==
  /\ \A z \in Zones!Range(zs) : FromFiles(w, z, t)
  /\ w.failed >= t \/ \E v \in FilesSince(w, t) : zs = Bucket[v]
ZonesSince(w, mode, date, zs, t) ==
  /\ \A z \in zs : /\ mode = Zones!Whatever \/ mode \in z.modes
                   /\ date = 0 \/ Zones!is_activated(z.periods, date)
                   /\ FromFiles(w, z, t)
  /\ w.failed >= t \/ \E v \in FilesSince(w, t) : zs = Zones!Selected(Bucket[v], mode, date)
ShapesSince(w, t) ==
  Alone => \A p \in Processes : w.failed >= t \/ \E v \in FilesSince(w, t) : w.shapes[p] = Zones!ShapesOf(Bucket[v])

\* An exclusion has a zone of files since t and a shape that files once had; alone, the answer is what files
\* since t say.
Once(v, u, place, mode, date) ==
  \E z \in Zones!Range(Bucket[v]), y \in Zones!Range(Bucket[u]) :
    /\ mode \in z.modes /\ Zones!is_activated(z.periods, date)
    /\ y.poi = z.poi /\ y.shape # Zones!NoShape /\ place \in y.shape
ExcludedSince(w, place, mode, date, b, t) ==
  /\ b \in BOOLEAN
  /\ b => \E v \in FilesSince(w, t), u \in 1 .. w.version : Once(v, u, place, mode, date)
  /\ Alone => w.failed >= t \/ \E v, u \in FilesSince(w, t) : b = Zones!Says(v, u, place, mode, date)

KeySince(w, k, value, t) ==
  /\ value.kind = "value"
  /\ k[1] = "all" => AllSince(w, value.v, t) /\ ShapesSince(w, t)
  /\ k[1] = "zones" => ZonesSince(w, k[2], k[3], value.v, t) /\ ShapesSince(w, t)
  /\ k[1] = "excluded" => ExcludedSince(w, k[2], k[3], k[4], value.v, t)

\* How old the values are that a function computes from: those of the functions it calls.
Base(k) == IF k[1] = "all" THEN 0 ELSE IF k[1] = "zones" THEN Zones!Kept ELSE 2 * Zones!Kept

\* A level at time n: each entry is as old as the time it has used.
EntrySince(w, k, e, timeout, n) ==
  /\ e = Zones!Entry(e.value, e.left) /\ e.left \in 1 .. timeout
  /\ KeySince(w, k, e.value, n - (timeout - e.left) - Base(k))
LevelSince(w, level, timeout, n) ==
  /\ DOMAIN level = Zones!Keys
  /\ \A k \in Zones!Keys : level[k] = Zones!Absent \/ EntrySince(w, k, level[k], timeout, n)

\* An entry of memory may have been copied from one of redis just before its end.
LevelsSince(w, m, r, n) ==
  LevelSince(w, m, MemoryTimeout, n - (RedisTimeout - 1)) /\ LevelSince(w, r, RedisTimeout, n)

\* The shapes that a process knows are of files that were in the bucket.
KnownShapes(w) ==
  \A p \in Processes : \A poi \in DOMAIN w.shapes[p] :
    \E u \in 1 .. w.version : \E y \in Zones!Range(Bucket[u]) :
      y.poi = poi /\ y.shape # Zones!NoShape /\ w.shapes[p][poi] = y.shape

\* The last answer is as old as the levels between it and the bucket.
AnswerSince(w, n) ==
  /\ answer.what = "excluded" =>
       ExcludedSince(w, answer.place, answer.mode, answer.date, answer.value, n - 3 * Zones!Kept)
  /\ answer.what = "zones" => ZonesSince(w, answer.mode, 0, answer.value, n - 2 * Zones!Kept)

ZoneTypes ==
  /\ now \in Nat /\ restarts \in Nat /\ failed \in Int /\ failed <= now
  /\ version \in 1 .. Len(Bucket) /\ changed \in Seq(Int) /\ Len(changed) = version
  /\ DOMAIN mem = Processes /\ DOMAIN shapes = Processes
ZoneInv ==
  /\ ZoneTypes /\ KnownShapes(World) /\ AnswerSince(World, now)
  /\ \A p \in Processes : LevelsSince(World, mem[p], red, now)

\* Numbers.
LEMMA KeptIsNumber ==
    ASSUME ZoneSettings
    PROVE  /\ MemoryTimeout \in Nat /\ RedisTimeout \in Nat /\ MemoryTimeout >= 1 /\ RedisTimeout >= 1
           /\ Zones!Kept \in Nat /\ Zones!Kept = MemoryTimeout + RedisTimeout - 2
           /\ \A k : Base(k) \in Nat
  <1>1. /\ MemoryTimeout \in Nat /\ RedisTimeout \in Nat /\ MemoryTimeout >= 1 /\ RedisTimeout >= 1
        /\ Zones!Kept \in Nat /\ Zones!Kept = MemoryTimeout + RedisTimeout - 2
    BY DEF ZoneSettings, Zones!Kept
  <1> QED BY <1>1 DEF Base

\* What is justified since t is justified since s in a world that has the files of t since s.
LEMMA SinceMoves ==
    ASSUME NEW w, NEW x, NEW t, NEW s, FilesSince(w, t) \subseteq FilesSince(x, s), 1 .. w.version \subseteq 1 .. x.version,
           w.failed >= t => x.failed >= s
    PROVE  /\ \A zs : AllSince(w, zs, t) => AllSince(x, zs, s)
           /\ \A m, d, zs : ZonesSince(w, m, d, zs, t) => ZonesSince(x, m, d, zs, s)
           /\ \A p, m, d, b : ExcludedSince(w, p, m, d, b, t) => ExcludedSince(x, p, m, d, b, s)
           /\ (ShapesSince(w, t) => ShapesSince(x, s)) =>
                \A k, value : KeySince(w, k, value, t) => KeySince(x, k, value, s)
  <1>1. \A z : FromFiles(w, z, t) => FromFiles(x, z, s)
    BY DEF FromFiles
  <1>2. \A zs : AllSince(w, zs, t) => AllSince(x, zs, s)
    BY <1>1 DEF AllSince
  <1>3. \A m, d, zs : ZonesSince(w, m, d, zs, t) => ZonesSince(x, m, d, zs, s)
    BY <1>1 DEF ZonesSince
  <1>4. \A p, m, d, b : ExcludedSince(w, p, m, d, b, t) => ExcludedSince(x, p, m, d, b, s)
    BY DEF ExcludedSince
  <1> QED BY <1>2, <1>3, <1>4 DEF KeySince

\* What is justified since t is justified since any earlier time.
LEMMA SinceEarlier ==
    ASSUME NEW w, w.failed \in Int, \A v \in 2 .. w.version : w.changed[v] \in Int, w.version \in Nat,
           NEW t \in Int, NEW s \in Int, s <= t
    PROVE  /\ FilesSince(w, t) \subseteq FilesSince(w, s)
           /\ w.failed >= t => w.failed >= s
           /\ ShapesSince(w, t) => ShapesSince(w, s)
           /\ \A k, value : KeySince(w, k, value, t) => KeySince(w, k, value, s)
  <1>1. FilesSince(w, t) \subseteq FilesSince(w, s)
    <2> SUFFICES ASSUME NEW v \in 1 .. w.version, v # w.version, w.changed[v + 1] >= t PROVE w.changed[v + 1] >= s
      BY DEF FilesSince
    <2>1. v + 1 \in 2 .. w.version
      OBVIOUS
    <2> QED BY <2>1
  <1>2. w.failed >= t => w.failed >= s
    OBVIOUS
  <1>3. ShapesSince(w, t) => ShapesSince(w, s)
    BY <1>1, <1>2 DEF ShapesSince
  <1> QED BY <1>1, <1>2, <1>3, SinceMoves

-----------------------------------------------------------------------------
(* A memoized call *)

\* The world has numbers where ages are compared.
Sane(w) == w.failed \in Int /\ w.version \in Nat /\ \A v \in 2 .. w.version : w.changed[v] \in Int

\* A fresh entry may be as old as what it was computed from.
LEMMA StoreSince ==
    ASSUME NEW w, NEW timeout \in Nat \ {0}, NEW n \in Int, NEW level, LevelSince(w, level, timeout, n), NEW k \in Zones!Keys,
           NEW value, KeySince(w, k, value, n - Base(k)), Base(k) \in Int
    PROVE  LevelSince(w, Zones!Store(level, k, value, timeout), timeout, n)
  <1>1. Zones!Store(level, k, value, timeout) = [level EXCEPT ![k] = Zones!Entry(value, timeout)]
    BY DEF KeySince, Zones!Store
  <1> DEFINE new == [level EXCEPT ![k] = Zones!Entry(value, timeout)]
  <1>2. DOMAIN new = Zones!Keys /\ new[k] = Zones!Entry(value, timeout) /\ \A i \in Zones!Keys \ {k} : new[i] = level[i]
    BY DEF LevelSince
  <1>3. new[k].value = value /\ new[k].left = timeout
    BY <1>2 DEF Zones!Entry
  <1>4. n - (timeout - timeout) - Base(k) = n - Base(k) /\ timeout \in 1 .. timeout
    OBVIOUS
  <1> HIDE DEF new
  <1>5. EntrySince(w, k, new[k], timeout, n)
    BY <1>2, <1>3, <1>4 DEF EntrySince
  <1>6. LevelSince(w, new, timeout, n)
    BY <1>2, <1>5 DEF LevelSince
  <1> QED BY <1>1, <1>6 DEF new

Memo(m, r, k, value) == Zones!Memoize(m, r, k, TRUE, value)

\* What memoize returns is at most Kept older than what the function computes from.
LEMMA ThroughSince ==
    ASSUME ZoneSettings, NEW w, Sane(w), NEW n \in Int, NEW m, NEW r, LevelsSince(w, m, r, n), NEW k \in Zones!Keys, NEW value,
           Zones!Holds(m, k) \/ Zones!Holds(r, k) \/ KeySince(w, k, value, n - Base(k)),
           NEW call, call = Memo(m, r, k, value)
    PROVE  /\ LevelsSince(w, call.mem, call.red, n)
           /\ KeySince(w, k, call.value, n - Base(k) - Zones!Kept)
  <1>0. /\ MemoryTimeout \in Nat \ {0} /\ RedisTimeout \in Nat \ {0} /\ Zones!Kept \in Nat
        /\ Zones!Kept = MemoryTimeout + RedisTimeout - 2 /\ Base(k) \in Nat
    BY KeptIsNumber
  <1> DEFINE M == MemoryTimeout
             R == RedisTimeout
             K == Zones!Kept
             B == Base(k)
  <1>1. \A t, s \in Int : s <= t => \A i, x : KeySince(w, i, x, t) => KeySince(w, i, x, s)
    BY SinceEarlier DEF Sane
  <1>2. \A i \in Zones!Keys : Zones!Holds(m, i) => EntrySince(w, i, m[i], M, n - (R - 1))
    BY DEF LevelsSince, LevelSince, Zones!Holds, Zones!Absent
  <1>3. \A i \in Zones!Keys : Zones!Holds(r, i) => EntrySince(w, i, r[i], R, n)
    BY DEF LevelsSince, LevelSince, Zones!Holds, Zones!Absent
  <1>4. CASE Zones!Holds(m, k)
    <2>1. call = [value |-> m[k].value, mem |-> m, red |-> r]
      BY <1>4 DEF Memo, Zones!Memoize, Zones!MemoryHit, Zones!Read
    <2>2. m[k].left \in 1 .. M /\ KeySince(w, k, m[k].value, (n - (R - 1)) - (M - m[k].left) - B)
      BY <1>2, <1>4 DEF EntrySince
    <2>3. /\ (n - (R - 1)) - (M - m[k].left) - B \in Int /\ n - B - K \in Int
          /\ n - B - K <= (n - (R - 1)) - (M - m[k].left) - B
      BY <1>0, <2>2
    <2>4. KeySince(w, k, m[k].value, n - B - K)
      BY <1>1, <2>2, <2>3, SMT
    <2>5. call.value = m[k].value /\ call.mem = m /\ call.red = r
      BY <2>1
    <2> QED BY <2>4, <2>5, Zenon
  <1>5. CASE ~Zones!Holds(m, k) /\ Zones!Holds(r, k)
    <2> DEFINE v == r[k].value
    <2>1. call = [value |-> v, mem |-> Zones!Store(m, k, v, M), red |-> r]
      BY <1>5 DEF Memo, Zones!Memoize, Zones!RedisHit, Zones!Read
    <2>2. r[k].left \in 1 .. R /\ KeySince(w, k, v, n - (R - r[k].left) - B)
      BY <1>3, <1>5 DEF EntrySince
    <2> HIDE DEF v
    <2>3. /\ n - (R - r[k].left) - B \in Int /\ n - B - K \in Int /\ n - (R - 1) - B \in Int /\ n - (R - 1) \in Int
          /\ n - B - K <= n - (R - r[k].left) - B /\ n - (R - 1) - B <= n - (R - r[k].left) - B
      BY <1>0, <2>2
    <2>4. KeySince(w, k, v, n - B - K) /\ KeySince(w, k, v, n - (R - 1) - B)
      BY <1>1, <2>2, <2>3, SMT
    <2>5. LevelSince(w, Zones!Store(m, k, v, M), M, n - (R - 1))
      BY <1>0, <2>3, <2>4, StoreSince DEF LevelsSince
    <2>6. call.value = v /\ call.mem = Zones!Store(m, k, v, M) /\ call.red = r
      BY <2>1
    <2> QED BY <2>4, <2>5, <2>6, Zenon DEF LevelsSince
  <1>6. CASE ~Zones!Holds(m, k) /\ ~Zones!Holds(r, k)
    <2>1. call = [value |-> value, mem |-> Zones!Store(m, k, value, M), red |-> Zones!Store(r, k, value, R)]
      BY <1>6 DEF Memo, Zones!Memoize, Zones!Called
    <2>2. /\ n - B \in Int /\ n - B - K \in Int /\ n - (R - 1) - B \in Int /\ n - (R - 1) \in Int
          /\ n - B - K <= n - B /\ n - (R - 1) - B <= n - B
      BY <1>0
    <2>3. KeySince(w, k, value, n - B)
      BY <1>6
    <2>4. KeySince(w, k, value, n - B - K) /\ KeySince(w, k, value, n - (R - 1) - B)
      BY <1>1, <2>2, <2>3, SMT
    <2>5. LevelSince(w, Zones!Store(m, k, value, M), M, n - (R - 1)) /\ LevelSince(w, Zones!Store(r, k, value, R), R, n)
      BY <1>0, <2>2, <2>3, <2>4, StoreSince DEF LevelsSince
    <2>6. call.value = value /\ call.mem = Zones!Store(m, k, value, M) /\ call.red = Zones!Store(r, k, value, R)
      BY <2>1
    <2> QED BY <2>4, <2>5, <2>6, Zenon DEF LevelsSince
  <1> QED BY <1>4, <1>5, <1>6

-----------------------------------------------------------------------------
(* Time, and other files *)

\* An entry that stays after a unit of time is as old as it was.
LEMMA AgedSince ==
    ASSUME NEW w, NEW timeout \in Nat \ {0}, NEW n \in Int, NEW level, LevelSince(w, level, timeout, n),
           \A k : Base(k) \in Int
    PROVE  LevelSince(w, Zones!Aged(level), timeout, n + 1)
  <1> DEFINE new == Zones!Aged(level)
  <1>1. DOMAIN level = Zones!Keys /\ DOMAIN new = Zones!Keys
    BY DEF LevelSince, Zones!Aged
  <1> SUFFICES ASSUME NEW k \in Zones!Keys
               PROVE  new[k] = Zones!Absent \/ EntrySince(w, k, new[k], timeout, n + 1)
    BY <1>1 DEF LevelSince
  <1>2. CASE level[k] = Zones!Absent
    BY <1>1, <1>2 DEF Zones!Aged, Zones!Absent
  <1>3. CASE EntrySince(w, k, level[k], timeout, n)
    <2> DEFINE e == level[k]
    <2>1. e = Zones!Entry(e.value, e.left) /\ e.left \in 1 .. timeout
      BY <1>3 DEF EntrySince
    <2>2. KeySince(w, k, e.value, n - (timeout - e.left) - Base(k))
      BY <1>3 DEF EntrySince
    <2>3. e.kind = "entry"
      BY <2>1 DEF Zones!Entry
    <2>4. CASE e.left = 1
      BY <1>1, <2>4 DEF Zones!Aged
    <2>5. CASE e.left # 1
      <3>1. new[k] = [e EXCEPT !.left = @ - 1]
        BY <1>1, <2>3, <2>5 DEF Zones!Aged
      <3> HIDE DEF new, e
      <3>2. new[k] = Zones!Entry(e.value, e.left - 1)
        BY <2>1, <3>1 DEF Zones!Entry
      <3>3. new[k].value = e.value /\ new[k].left = e.left - 1 /\ e.left - 1 \in 1 .. timeout
        BY <2>1, <2>5, <3>2 DEF Zones!Entry
      <3>4. (n + 1) - (timeout - (e.left - 1)) - Base(k) = n - (timeout - e.left) - Base(k)
        BY <2>1
      <3> QED BY <2>2, <3>2, <3>3, <3>4 DEF EntrySince
    <2> QED BY <2>4, <2>5
  <1> QED BY <1>2, <1>3 DEF LevelSince

\* The world x comes from w at time n: the files of w are still known, and a failure, other files or
\* other shapes are of time n.
Evolves(w, x, n) ==
  /\ 1 .. w.version \subseteq 1 .. x.version
  /\ \A t \in Int : t <= n =>
       /\ FilesSince(w, t) \subseteq FilesSince(x, t)
       /\ w.failed >= t => x.failed >= t
       /\ ShapesSince(w, t) => ShapesSince(x, t)

LEMMA LevelEvolves ==
    ASSUME NEW w, NEW x, NEW n \in Int, Evolves(w, x, n), NEW timeout \in Nat \ {0}, NEW a \in Int, a <= n, NEW level,
           LevelSince(w, level, timeout, a), \A k : Base(k) \in Nat
    PROVE  LevelSince(x, level, timeout, a)
  <1> SUFFICES ASSUME NEW k \in Zones!Keys, EntrySince(w, k, level[k], timeout, a)
               PROVE  EntrySince(x, k, level[k], timeout, a)
    BY DEF LevelSince
  <1> DEFINE t == a - (timeout - level[k].left) - Base(k)
  <1>1. t \in Int /\ t <= n
    BY DEF EntrySince
  <1> HIDE DEF t
  <1>2. \A i, value : KeySince(w, i, value, t) => KeySince(x, i, value, t)
    BY <1>1, SinceMoves DEF Evolves
  <1> QED BY <1>2 DEF EntrySince, t

LEMMA LevelsEvolve ==
    ASSUME ZoneSettings, NEW w, NEW x, NEW n \in Int, Evolves(w, x, n), NEW m, NEW r, LevelsSince(w, m, r, n)
    PROVE  LevelsSince(x, m, r, n)
  <1>1. /\ MemoryTimeout \in Nat \ {0} /\ RedisTimeout \in Nat \ {0} /\ \A k : Base(k) \in Nat
    BY KeptIsNumber
  <1>2. n - (RedisTimeout - 1) \in Int /\ n - (RedisTimeout - 1) <= n /\ n <= n
    BY <1>1
  <1>3. LevelSince(x, m, MemoryTimeout, n - (RedisTimeout - 1))
    BY <1>1, <1>2, LevelEvolves DEF LevelsSince
  <1>4. LevelSince(x, r, RedisTimeout, n)
    BY <1>1, <1>2, LevelEvolves DEF LevelsSince
  <1> QED BY <1>3, <1>4 DEF LevelsSince

-----------------------------------------------------------------------------
(* The shapes of files *)

\* The shape of a poi is that of one of the files about it.
LEMMA ShapesAreOfFiles ==
    ASSUME NEW Files, NEW zones \in Seq(Files), NEW poi \in DOMAIN Zones!ShapesOf(zones)
    PROVE  \E i \in DOMAIN zones :
             zones[i].poi = poi /\ zones[i].shape # Zones!NoShape /\ Zones!ShapesOf(zones)[poi] = zones[i].shape
  <1> DEFINE shaped == {i \in DOMAIN zones : zones[i].shape # Zones!NoShape}
             Newest(x) == CHOOSE i \in shaped : zones[i].poi = x /\ \A j \in shaped : zones[j].poi = x => j <= i
             About == {n \in Nat : \E i \in shaped : zones[i].poi = poi /\ n = Len(zones) - i}
  <1>1. Zones!ShapesOf(zones) = [x \in {zones[i].poi : i \in shaped} |-> zones[Newest(x)].shape]
    BY DEF Zones!ShapesOf
  <1>2. PICK i \in shaped : zones[i].poi = poi
    BY <1>1
  <1>3. \A j \in shaped : j \in 1 .. Len(zones) /\ Len(zones) - j \in Nat
    OBVIOUS
  <1>4. About # {}
    BY <1>2, <1>3
  <1>5. PICK m \in About : \A n \in About : ~(<<n, m>> \in OpToRel(<, Nat))
    BY <1>4, NatLessThanWellFounded, WFMin, Zenon
  <1>6. \A n \in About : ~(n < m)
    BY <1>5 DEF OpToRel
  <1>7. PICK k \in shaped : zones[k].poi = poi /\ m = Len(zones) - k
    BY <1>5
  <1>8. \A j \in shaped : zones[j].poi = poi => j <= k
    BY <1>3, <1>6, <1>7
  <1>9. Newest(poi) \in shaped /\ zones[Newest(poi)].poi = poi
    BY <1>7, <1>8
  <1>10. Zones!ShapesOf(zones)[poi] = zones[Newest(poi)].shape
    BY <1>1
  <1> QED BY <1>9, <1>10

\* A reading gives files of the bucket, or empty zones.
LEMMA ReadingIsOfFiles ==
    ASSUME ZoneSettings, version \in 1 .. Len(Bucket), NEW read \in Zones!Readings
    PROVE  /\ \E Files : read \in Seq(Files)
           /\ \A z \in Zones!Range(read) : z = Zones!Unread \/ z \in Zones!Range(Bucket[version])
  <1> DEFINE files == Bucket[version]
  <1>1. PICK Files : Bucket \in Seq(Seq(Files))
    BY DEF ZoneSettings
  <1>2. files \in Seq(Files)
    BY <1>1
  <1> HIDE DEF files
  <1>3. CASE read = files
    BY <1>2, <1>3 DEF files
  <1>4. CASE \E n \in 0 .. (Len(files) - 1) : read = SubSeq(files, 1, n)
    <2> PICK n \in 0 .. (Len(files) - 1) : read = SubSeq(files, 1, n)
      BY <1>4
    <2>1. read \in Seq(Files) /\ Len(read) = n /\ \A i \in 1 .. n : read[i] = files[i]
      BY <1>2, SubSeqProperties
    <2>2. \A i \in DOMAIN read : i \in DOMAIN files /\ read[i] = files[i]
      BY <1>2, <2>1
    <2>3. \A z \in Zones!Range(read) : z \in Zones!Range(files)
      BY <2>2 DEF Zones!Range
    <2> QED BY <2>1, <2>3 DEF files
  <1>5. CASE \E i \in DOMAIN files : read = [files EXCEPT ![i] = Zones!Unread]
    <2> PICK i \in DOMAIN files : read = [files EXCEPT ![i] = Zones!Unread]
      BY <1>5
    <2> DEFINE More == Files \cup {Zones!Unread}
    <2>1. files \in Seq(More)
      BY <1>2
    <2>2. read \in Seq(More)
      BY <2>1, ExceptSeq
    <2>3. DOMAIN read = DOMAIN files /\ \A j \in DOMAIN files : read[j] = Zones!Unread \/ read[j] = files[j]
      OBVIOUS
    <2>4. \A z \in Zones!Range(read) : z = Zones!Unread \/ z \in Zones!Range(files)
      BY <2>3 DEF Zones!Range
    <2> QED BY <2>2, <2>4 DEF files
  <1> QED BY <1>3, <1>4, <1>5 DEF Zones!Readings, files

LEMMA UnreadIsEmpty == Zones!Unread.shape = Zones!NoShape /\ Zones!Unread.modes = {}
  BY DEF Zones!Unread

\* The shapes of a reading are shapes of the bucket.
LEMMA ReadShapes ==
    ASSUME ZoneSettings, version \in 1 .. Len(Bucket), NEW read \in Zones!Readings, NEW poi \in DOMAIN Zones!ShapesOf(read)
    PROVE  \E y \in Zones!Range(Bucket[version]) :
             y.poi = poi /\ y.shape # Zones!NoShape /\ Zones!ShapesOf(read)[poi] = y.shape
  <1>1. PICK Files : read \in Seq(Files)
    BY ReadingIsOfFiles
  <1>2. PICK i \in DOMAIN read : read[i].poi = poi /\ read[i].shape # Zones!NoShape /\ Zones!ShapesOf(read)[poi] = read[i].shape
    BY <1>1, ShapesAreOfFiles
  <1>3. read[i] \in Zones!Range(read)
    BY DEF Zones!Range
  <1>4. read[i] # Zones!Unread
    BY <1>2, UnreadIsEmpty
  <1> QED BY <1>2, <1>3, <1>4, ReadingIsOfFiles

-----------------------------------------------------------------------------
(* The three functions, in the world x of after the call *)

StateRecord(s) ==
  s = [mem |-> s.mem, red |-> s.red, shapes |-> s.shapes, value |-> s.value, called |-> s.called]

LEMMA ThroughFields ==
    ASSUME NEW s, StateRecord(s), NEW k, NEW value, NEW t, t = Zones!Through(s, k, value)
    PROVE  /\ StateRecord(t) /\ t.shapes = s.shapes /\ t.called = s.called
           /\ t.mem = Memo(s.mem, s.red, k, value).mem /\ t.red = Memo(s.mem, s.red, k, value).red
           /\ t.value = Memo(s.mem, s.red, k, value).value
  <1> DEFINE m == Memo(s.mem, s.red, k, value)
  <1>1. t = [s EXCEPT !.mem = m.mem, !.red = m.red, !.value = m.value]
    BY DEF Zones!Through, Memo
  <1> HIDE DEF m
  <1>2. t = [mem |-> m.mem, red |-> m.red, shapes |-> s.shapes, value |-> m.value, called |-> s.called]
    BY <1>1 DEF StateRecord
  <1>3. t.mem = m.mem /\ t.red = m.red /\ t.shapes = s.shapes /\ t.value = m.value /\ t.called = s.called
    BY <1>2
  <1>4. StateRecord(t)
    BY <1>2, <1>3, Zenon DEF StateRecord
  <1> QED BY <1>3, <1>4 DEF m

\* A call through the cache, of which the function has what it needs when it is called.
LEMMA CallSince ==
    ASSUME ZoneSettings, NEW x, Sane(x), NEW n \in Int, NEW s, StateRecord(s), LevelsSince(x, s.mem, s.red, n), NEW k \in Zones!Keys,
           NEW value, Zones!Cached(s, k) \/ KeySince(x, k, value, n - Base(k)), NEW t, t = Zones!Through(s, k, value)
    PROVE  /\ StateRecord(t) /\ t.shapes = s.shapes /\ t.called = s.called
           /\ LevelsSince(x, t.mem, t.red, n) /\ KeySince(x, k, t.value, n - Base(k) - Zones!Kept)
  <1> DEFINE call == Memo(s.mem, s.red, k, value)
  <1>1. Zones!Holds(s.mem, k) \/ Zones!Holds(s.red, k) \/ KeySince(x, k, value, n - Base(k))
    BY DEF Zones!Cached
  <1> HIDE DEF call
  <1>2. LevelsSince(x, call.mem, call.red, n) /\ KeySince(x, k, call.value, n - Base(k) - Zones!Kept)
    BY <1>1, ThroughSince DEF call
  <1>3. /\ StateRecord(t) /\ t.shapes = s.shapes /\ t.called = s.called
        /\ t.mem = call.mem /\ t.red = call.red /\ t.value = call.value
    BY ThroughFields DEF call
  <1> QED BY <1>2, <1>3, Zenon

LEMMA KeysOfCalls ==
    /\ <<"all">> \in Zones!Keys
    /\ \A m \in Modes \cup {Zones!Whatever}, d \in Dates \cup {0} : <<"zones", m, d>> \in Zones!Keys
    /\ \A p \in Places, m \in Modes, d \in Dates : <<"excluded", p, m, d>> \in Zones!Keys
  BY DEF Zones!Keys

\* The shapes change when the bucket is read, and then they are those of the reading.
ShapesFollow(s, t, read) ==
  StateRecord(t) /\ ((t.called /\ t.shapes = Zones!ShapesOf(read)) \/ (t.called = s.called /\ t.shapes = s.shapes))

LEMMA CallsFollow ==
    ASSUME NEW s, StateRecord(s), NEW read
    PROVE  /\ ShapesFollow(s, Zones!get_all_excluded_zones(s, read), read)
           /\ \A mode, date : ShapesFollow(s, Zones!get_excluded_zones(s, mode, date, read), read)
           /\ \A place, mode, date : ShapesFollow(s, Zones!is_excluded(s, place, mode, date, read), read)
  <1>0. \A u, k, value : StateRecord(u) /\ ShapesFollow(s, u, read) => ShapesFollow(s, Zones!Through(u, k, value), read)
    <2> TAKE u, k, value
    <2> DEFINE t == Zones!Through(u, k, value)
    <2> HIDE DEF t
    <2>1. StateRecord(u) => StateRecord(t) /\ t.shapes = u.shapes /\ t.called = u.called
      BY ThroughFields DEF t
    <2> QED BY <2>1, Zenon DEF ShapesFollow, t
  <1>1. ShapesFollow(s, s, read)
    BY DEF ShapesFollow
  <1>2. ShapesFollow(s, Zones!get_all_excluded_zones(s, read), read)
    <2> DEFINE t == Zones!Through(s, <<"all">>, Zones!Value(read))
               all == Zones!get_all_excluded_zones(s, read)
    <2>1. all = t \/ all = [t EXCEPT !.shapes = Zones!ShapesOf(read), !.called = TRUE]
      BY DEF Zones!get_all_excluded_zones
    <2> HIDE DEF t, all
    <2>2. ShapesFollow(s, t, read)
      BY <1>0, <1>1 DEF t
    <2>3. CASE all = [t EXCEPT !.shapes = Zones!ShapesOf(read), !.called = TRUE]
      <3>1. all = [mem |-> t.mem, red |-> t.red, shapes |-> Zones!ShapesOf(read), value |-> t.value, called |-> TRUE]
        BY <2>2, <2>3 DEF StateRecord, ShapesFollow
      <3>2. /\ all.mem = t.mem /\ all.red = t.red /\ all.shapes = Zones!ShapesOf(read) /\ all.value = t.value
            /\ all.called = TRUE
        BY <3>1
      <3>3. StateRecord(all)
        BY <3>1, <3>2, Zenon DEF StateRecord
      <3> QED BY <3>2, <3>3 DEF ShapesFollow, all
    <2> QED BY <2>1, <2>2, <2>3 DEF all
  <1>3. \A mode, date : ShapesFollow(s, Zones!get_excluded_zones(s, mode, date, read), read)
    <2> TAKE mode, date
    <2> DEFINE all == Zones!get_all_excluded_zones(s, read)
               z == Zones!get_excluded_zones(s, mode, date, read)
    <2>1. \/ z = Zones!Through(s, <<"zones", mode, date>>, Zones!Value({}))
          \/ z = Zones!Through(all, <<"zones", mode, date>>, Zones!Value(Zones!Selected(all.value.v, mode, date)))
      BY DEF Zones!get_excluded_zones
    <2> HIDE DEF all, z
    <2>2. StateRecord(all) /\ ShapesFollow(s, all, read)
      BY <1>2 DEF ShapesFollow, all
    <2> QED BY <1>0, <1>1, <2>1, <2>2, Zenon DEF z
  <1>4. \A place, mode, date : ShapesFollow(s, Zones!is_excluded(s, place, mode, date, read), read)
    <2> TAKE place, mode, date
    <2> DEFINE z == Zones!get_excluded_zones(s, mode, date, read)
               e == Zones!is_excluded(s, place, mode, date, read)
               key == <<"excluded", place, mode, date>>
    <2>1. \/ e = Zones!Through(s, key, Zones!Value(FALSE))
          \/ e = Zones!Through(z, key, Zones!Value(Zones!Within(z.value.v, z.shapes, place)))
      BY DEF Zones!is_excluded
    <2> HIDE DEF e, z, key
    <2>2. StateRecord(z) /\ ShapesFollow(s, z, read)
      BY <1>3 DEF ShapesFollow, z
    <2> QED BY <1>0, <1>1, <2>1, <2>2, Zenon DEF e
  <1> QED BY <1>2, <1>3, <1>4

LEMMA AllCall ==
    ASSUME ZoneSettings, NEW x, Sane(x), NEW n \in Int, NEW s, StateRecord(s), LevelsSince(x, s.mem, s.red, n), ~s.called,
           NEW read, AllSince(x, read, n), NEW a, a = Zones!get_all_excluded_zones(s, read), a.called => ShapesSince(x, n)
    PROVE  /\ LevelsSince(x, a.mem, a.red, n) /\ AllSince(x, a.value.v, n - Zones!Kept) /\ ShapesSince(x, n - Zones!Kept)
  <1> DEFINE k == <<"all">>
             value == Zones!Value(read)
             t == Zones!Through(s, k, value)
  <1>0. k \in Zones!Keys /\ k[1] = "all" /\ Base(k) = 0 /\ Zones!Kept \in Nat
    BY KeysOfCalls, KeptIsNumber DEF Base
  <1>1. n - Base(k) = n /\ n - Base(k) - Zones!Kept = n - Zones!Kept
    BY <1>0
  <1>2. value.kind = "value" /\ value.v = read
    BY DEF Zones!Value
  <1> HIDE DEF k, value
  <1>3. ShapesSince(x, n) => KeySince(x, k, value, n - Base(k))
    BY <1>0, <1>1, <1>2 DEF KeySince
  <1>4. CASE Zones!Cached(s, k)
    <2>1. a = t
      BY <1>4 DEF Zones!get_all_excluded_zones, k, value
    <2> HIDE DEF t
    <2>2. /\ StateRecord(t) /\ t.shapes = s.shapes /\ t.called = s.called
          /\ LevelsSince(x, t.mem, t.red, n) /\ KeySince(x, k, t.value, n - Base(k) - Zones!Kept)
      BY <1>0, <1>4, CallSince DEF t
    <2>3. AllSince(x, t.value.v, n - Zones!Kept) /\ ShapesSince(x, n - Zones!Kept)
      BY <1>0, <1>1, <2>2 DEF KeySince
    <2> QED BY <2>1, <2>2, <2>3, Zenon
  <1>5. CASE ~Zones!Cached(s, k)
    <2>1. a = [t EXCEPT !.shapes = Zones!ShapesOf(read), !.called = TRUE]
      BY <1>5 DEF Zones!get_all_excluded_zones, k, value
    <2> HIDE DEF t
    <2>2. StateRecord(t)
      BY ThroughFields DEF t
    <2>3. a = [mem |-> t.mem, red |-> t.red, shapes |-> Zones!ShapesOf(read), value |-> t.value, called |-> TRUE]
      BY <2>1, <2>2 DEF StateRecord
    <2>4. a.mem = t.mem /\ a.red = t.red /\ a.shapes = Zones!ShapesOf(read) /\ a.value = t.value /\ a.called = TRUE
      BY <2>3
    <2>5. StateRecord(a)
      BY <2>3, <2>4, Zenon DEF StateRecord
    <2>6. ShapesSince(x, n)
      BY <2>4
    <2>7. LevelsSince(x, t.mem, t.red, n) /\ KeySince(x, k, t.value, n - Base(k) - Zones!Kept)
      BY <1>0, <1>3, <2>6, CallSince DEF t
    <2>8. AllSince(x, t.value.v, n - Zones!Kept) /\ ShapesSince(x, n - Zones!Kept)
      BY <1>0, <1>1, <2>7 DEF KeySince
    <2> QED BY <2>4, <2>5, <2>7, <2>8, Zenon
  <1> QED BY <1>4, <1>5

LEMMA SelectedSince ==
    ASSUME NEW x, NEW t, NEW zs, AllSince(x, zs, t), NEW mode, NEW date
    PROVE  ZonesSince(x, mode, date, Zones!Selected(zs, mode, date), t)
  BY DEF AllSince, ZonesSince, Zones!Selected

LEMMA ZonesCall ==
    ASSUME ZoneSettings, NEW x, Sane(x), NEW n \in Int, NEW s, StateRecord(s), LevelsSince(x, s.mem, s.red, n), ~s.called,
           NEW mode \in Modes \cup {Zones!Whatever}, NEW date \in Dates \cup {0},
           NEW read, AllSince(x, read, n), NEW z, z = Zones!get_excluded_zones(s, mode, date, read), z.called => ShapesSince(x, n)
    PROVE  /\ LevelsSince(x, z.mem, z.red, n) /\ ZonesSince(x, mode, date, z.value.v, n - 2 * Zones!Kept)
           /\ ShapesSince(x, n - 2 * Zones!Kept)
  <1> DEFINE k == <<"zones", mode, date>>
             all == Zones!get_all_excluded_zones(s, read)
  <1>0. k \in Zones!Keys /\ k[1] = "zones" /\ k[2] = mode /\ k[3] = date /\ Base(k) = Zones!Kept /\ Zones!Kept \in Nat
    BY KeysOfCalls, KeptIsNumber DEF Base
  <1>1. n - Base(k) = n - Zones!Kept /\ n - Base(k) - Zones!Kept = n - 2 * Zones!Kept
    BY <1>0
  <1> HIDE DEF k, all
  <1>2. \A t : KeySince(x, k, z.value, t) => ZonesSince(x, mode, date, z.value.v, t) /\ ShapesSince(x, t)
    BY <1>0 DEF KeySince
  <1>3. CASE Zones!Cached(s, k)
    <2>1. z = Zones!Through(s, k, Zones!Value({}))
      BY <1>3 DEF Zones!get_excluded_zones, k
    <2>2. /\ StateRecord(z) /\ z.shapes = s.shapes /\ z.called = s.called
          /\ LevelsSince(x, z.mem, z.red, n) /\ KeySince(x, k, z.value, n - Base(k) - Zones!Kept)
      BY <1>0, <1>3, <2>1, CallSince
    <2> QED BY <1>1, <1>2, <2>2, Zenon
  <1>4. CASE ~Zones!Cached(s, k)
    <2> DEFINE value == Zones!Value(Zones!Selected(all.value.v, mode, date))
    <2>1. z = Zones!Through(all, k, value)
      BY <1>4 DEF Zones!get_excluded_zones, k, all
    <2>2. value.kind = "value" /\ value.v = Zones!Selected(all.value.v, mode, date)
      BY DEF Zones!Value
    <2> HIDE DEF value
    <2>3. StateRecord(all)
      BY CallsFollow DEF ShapesFollow, all
    <2>4. z.called = all.called /\ z.shapes = all.shapes
      BY <2>1, <2>3, ThroughFields
    <2>5. /\ LevelsSince(x, all.mem, all.red, n) /\ AllSince(x, all.value.v, n - Zones!Kept) /\ ShapesSince(x, n - Zones!Kept)
      BY <2>4, AllCall DEF all
    <2>6. ZonesSince(x, mode, date, value.v, n - Zones!Kept)
      BY <2>2, <2>5, SelectedSince
    <2>7. KeySince(x, k, value, n - Base(k))
      BY <1>0, <1>1, <2>2, <2>5, <2>6 DEF KeySince
    <2>8. /\ LevelsSince(x, z.mem, z.red, n) /\ KeySince(x, k, z.value, n - Base(k) - Zones!Kept)
      BY <1>0, <2>1, <2>3, <2>5, <2>7, CallSince
    <2> QED BY <1>1, <1>2, <2>4, <2>5, <2>8, Zenon
  <1> QED BY <1>3, <1>4

\* What the shapes of a process say of zones.
LEMMA WithinSince ==
    ASSUME ZoneSettings, NEW x, NEW t, KnownShapes(x), ShapesSince(x, t), NEW p \in Processes, NEW place,
           NEW mode \in Modes, NEW date \in Dates, NEW zs, ZonesSince(x, mode, date, zs, t)
    PROVE  ExcludedSince(x, place, mode, date, Zones!Within(zs, x.shapes[p], place), t)
  <1> DEFINE b == Zones!Within(zs, x.shapes[p], place)
  <1>0. mode # Zones!Whatever /\ date # 0
    BY DEF ZoneSettings
  <1>1. b \in BOOLEAN
    BY DEF Zones!Within
  <1>2. ASSUME b
        PROVE  \E v \in FilesSince(x, t), u \in 1 .. x.version : Once(v, u, place, mode, date)
    <2>1. PICK z \in zs : z.poi \in DOMAIN x.shapes[p] /\ place \in x.shapes[p][z.poi]
      BY <1>2 DEF Zones!Within
    <2>2. mode \in z.modes /\ Zones!is_activated(z.periods, date) /\ FromFiles(x, z, t)
      BY <1>0 DEF ZonesSince
    <2>3. z # Zones!Unread
      BY <2>2, UnreadIsEmpty
    <2>4. PICK v \in FilesSince(x, t) : z \in Zones!Range(Bucket[v])
      BY <2>2, <2>3 DEF FromFiles
    <2>5. PICK u \in 1 .. x.version : \E y \in Zones!Range(Bucket[u]) :
            y.poi = z.poi /\ y.shape # Zones!NoShape /\ x.shapes[p][z.poi] = y.shape
      BY <2>1 DEF KnownShapes
    <2>6. Once(v, u, place, mode, date)
      BY <2>1, <2>2, <2>4, <2>5 DEF Once
    <2> QED BY <2>4, <2>6
  <1>3. ASSUME Alone, ~(x.failed >= t)
        PROVE  \E v, u \in FilesSince(x, t) : b = Zones!Says(v, u, place, mode, date)
    <2>1. PICK v \in FilesSince(x, t) : zs = Zones!Selected(Bucket[v], mode, date)
      BY <1>3 DEF ZonesSince
    <2>2. PICK u \in FilesSince(x, t) : x.shapes[p] = Zones!ShapesOf(Bucket[u])
      BY <1>3 DEF ShapesSince
    <2>3. b = Zones!Says(v, u, place, mode, date)
      BY <1>0, <2>1, <2>2 DEF Zones!Says, Zones!Selected, Zones!Within, Zones!is_activated
    <2> QED BY <2>3
  <1> QED BY <1>1, <1>2, <1>3 DEF ExcludedSince

LEMMA ExcludedCall ==
    ASSUME ZoneSettings, NEW x, Sane(x), NEW n \in Int, NEW s, StateRecord(s), LevelsSince(x, s.mem, s.red, n), ~s.called,
           NEW place \in Places, NEW mode \in Modes, NEW date \in Dates, NEW p \in Processes, KnownShapes(x),
           NEW read, AllSince(x, read, n), NEW e, e = Zones!is_excluded(s, place, mode, date, read),
           e.called => ShapesSince(x, n), x.shapes[p] = e.shapes
    PROVE  /\ LevelsSince(x, e.mem, e.red, n) /\ ExcludedSince(x, place, mode, date, e.value.v, n - 3 * Zones!Kept)
  <1> DEFINE k == <<"excluded", place, mode, date>>
             z == Zones!get_excluded_zones(s, mode, date, read)
  <1>0. /\ k \in Zones!Keys /\ k[1] = "excluded" /\ k[2] = place /\ k[3] = mode /\ k[4] = date
        /\ Base(k) = 2 * Zones!Kept /\ Zones!Kept \in Nat
    BY KeysOfCalls, KeptIsNumber DEF Base
  <1>1. n - Base(k) = n - 2 * Zones!Kept /\ n - Base(k) - Zones!Kept = n - 3 * Zones!Kept
    BY <1>0
  <1> HIDE DEF k, z
  <1>2. \A t : KeySince(x, k, e.value, t) => ExcludedSince(x, place, mode, date, e.value.v, t)
    BY <1>0 DEF KeySince
  <1>3. CASE Zones!Cached(s, k)
    <2> DEFINE no == Zones!Value(FALSE)
    <2>1. e = Zones!Through(s, k, no)
      BY <1>3 DEF Zones!is_excluded, k
    <2> HIDE DEF no
    <2>2. LevelsSince(x, e.mem, e.red, n) /\ KeySince(x, k, e.value, n - Base(k) - Zones!Kept)
      BY <1>0, <1>3, <2>1, CallSince
    <2> QED BY <1>1, <1>2, <2>2, Zenon
  <1>4. CASE ~Zones!Cached(s, k)
    <2> DEFINE b == Zones!Within(z.value.v, z.shapes, place)
               value == Zones!Value(b)
    <2>1. e = Zones!Through(z, k, value)
      BY <1>4 DEF Zones!is_excluded, k, z
    <2>2. value.kind = "value" /\ value.v = b
      BY DEF Zones!Value
    <2> HIDE DEF value
    <2>3. StateRecord(z)
      BY CallsFollow DEF ShapesFollow, z
    <2>4. e.called = z.called /\ e.shapes = z.shapes
      BY <2>1, <2>3, ThroughFields
    <2>5. /\ LevelsSince(x, z.mem, z.red, n) /\ ZonesSince(x, mode, date, z.value.v, n - 2 * Zones!Kept)
          /\ ShapesSince(x, n - 2 * Zones!Kept)
      BY <2>4, ZonesCall DEF z
    <2>6. b = Zones!Within(z.value.v, x.shapes[p], place)
      BY <2>4
    <2> HIDE DEF b
    <2>7. ExcludedSince(x, place, mode, date, b, n - 2 * Zones!Kept)
      BY <2>5, <2>6, WithinSince
    <2>8. KeySince(x, k, value, n - Base(k))
      BY <1>0, <1>1, <2>2, <2>7 DEF KeySince
    <2>9. LevelsSince(x, e.mem, e.red, n) /\ KeySince(x, k, e.value, n - Base(k) - Zones!Kept)
      BY <1>0, <2>1, <2>3, <2>5, <2>8, CallSince
    <2> QED BY <1>1, <1>2, <2>9, Zenon
  <1> QED BY <1>3, <1>4

-----------------------------------------------------------------------------
(* The steps *)

\* The world after a call: the files are the same, a failure or other shapes are of now.
LEMMA DoneWorld ==
    ASSUME ZoneSettings, ZoneInv, NEW p \in Processes, NEW read \in Zones!Readings, NEW s, NEW u, u = Zones!State(p),
           ShapesFollow(u, s, read), NEW what, NEW place, NEW mode, NEW date, Zones!Done(p, s, read, what, place, mode, date),
           NEW x, x = World'
    PROVE  /\ StateRecord(u) /\ ~u.called /\ u.mem = mem[p] /\ u.red = red
           /\ ZoneTypes' /\ Sane(x) /\ Evolves(World, x, now) /\ KnownShapes(x) /\ AllSince(x, read, now)
           /\ (s.called => ShapesSince(x, now)) /\ x.shapes[p] = s.shapes
  <1>0. /\ now \in Nat /\ failed \in Int /\ failed <= now /\ version \in 1 .. Len(Bucket) /\ version \in Nat
        /\ changed \in Seq(Int) /\ Len(changed) = version /\ DOMAIN shapes = Processes /\ Len(Bucket) \in Nat
    BY DEF ZoneInv, ZoneTypes, ZoneSettings
  <1>1. /\ u.mem = mem[p] /\ u.red = red /\ u.shapes = shapes[p] /\ u.called = FALSE
        /\ u = [mem |-> mem[p], red |-> red, shapes |-> shapes[p], value |-> Zones!Value(<<>>), called |-> FALSE]
    BY DEF Zones!State
  <1>2. StateRecord(u)
    <2>1. u.value = Zones!Value(<<>>)
      BY <1>1
    <2> QED BY <1>1, <2>1, Zenon DEF StateRecord
  <1>3. /\ version' = version /\ changed' = changed /\ now' = now /\ restarts' = restarts
        /\ shapes' = [shapes EXCEPT ![p] = s.shapes] /\ mem' = [mem EXCEPT ![p] = s.mem]
        /\ s.called \/ read = Bucket[version]
        /\ failed' = IF read # Bucket[version] THEN now ELSE failed
    BY DEF Zones!Done
  <1>4. x = [version |-> version, changed |-> changed, failed |-> failed', shapes |-> shapes']
    BY <1>3 DEF World
  <1>5. x.version = version /\ x.changed = changed /\ x.failed = failed' /\ x.shapes = shapes'
    BY <1>4
  <1>6. World.version = version /\ World.changed = changed /\ World.failed = failed /\ World.shapes = shapes
    BY DEF World
  <1>7. ZoneTypes'
    <2>1. DOMAIN mem' = Processes /\ DOMAIN shapes' = Processes /\ restarts' \in Nat
      BY <1>3 DEF ZoneInv, ZoneTypes
    <2>2. failed' \in Int /\ failed' <= now'
      BY <1>0, <1>3
    <2> QED BY <1>0, <1>3, <2>1, <2>2 DEF ZoneTypes
  <1>8. \A t : FilesSince(x, t) = FilesSince(World, t) /\ version \in FilesSince(x, t)
    BY <1>0, <1>5, <1>6 DEF FilesSince
  <1>9. Sane(x)
    BY <1>0, <1>3, <1>5 DEF Sane
  <1>10. \A q \in Processes : x.shapes[q] = IF q = p THEN s.shapes ELSE shapes[q]
    BY <1>0, <1>3, <1>5
  <1>11. (s.called /\ s.shapes = Zones!ShapesOf(read)) \/ (~s.called /\ s.shapes = shapes[p])
    BY <1>1 DEF ShapesFollow
  <1>12. KnownShapes(x)
    <2> SUFFICES ASSUME NEW q \in Processes, NEW poi \in DOMAIN x.shapes[q]
                 PROVE  \E i \in 1 .. x.version : \E y \in Zones!Range(Bucket[i]) :
                          y.poi = poi /\ y.shape # Zones!NoShape /\ x.shapes[q][poi] = y.shape
      BY DEF KnownShapes
    <2>1. CASE x.shapes[q] = shapes[q]
      BY <1>5, <1>6, <2>1 DEF ZoneInv, KnownShapes
    <2>2. CASE x.shapes[q] = Zones!ShapesOf(read)
      <3>1. \E y \in Zones!Range(Bucket[version]) : y.poi = poi /\ y.shape # Zones!NoShape /\ x.shapes[q][poi] = y.shape
        BY <1>0, <2>2, ReadShapes
      <3> QED BY <1>0, <1>5, <3>1
    <2> QED BY <1>10, <1>11, <2>1, <2>2
  <1>13. read = Bucket[version] \/ x.failed = now
    BY <1>3, <1>5
  <1>14. AllSince(x, read, now)
    <2>1. \A z \in Zones!Range(read) : z = Zones!Unread \/ z \in Zones!Range(Bucket[version])
      BY <1>0, ReadingIsOfFiles
    <2>2. \A z \in Zones!Range(read) : FromFiles(x, z, now)
      BY <1>8, <2>1 DEF FromFiles
    <2>3. x.failed >= now \/ \E v \in FilesSince(x, now) : read = Bucket[v]
      BY <1>0, <1>8, <1>13
    <2> QED BY <2>2, <2>3 DEF AllSince
  <1>15. ASSUME s.called, NEW t \in Int, t <= now
         PROVE  ShapesSince(x, t)
    <2> SUFFICES ASSUME Alone, NEW q \in Processes
                 PROVE  x.failed >= t \/ \E v \in FilesSince(x, t) : x.shapes[q] = Zones!ShapesOf(Bucket[v])
      BY DEF ShapesSince
    <2>1. x.shapes[q] = Zones!ShapesOf(read)
      BY <1>10, <1>11, <1>15 DEF Alone
    <2> QED BY <1>0, <1>8, <1>13, <1>15, <2>1
  <1>16. ASSUME ~s.called
         PROVE  x.failed = failed /\ \A q \in Processes : x.shapes[q] = shapes[q]
    BY <1>3, <1>5, <1>10, <1>11, <1>16
  <1>17. Evolves(World, x, now)
    <2> SUFFICES ASSUME NEW t \in Int, t <= now
                 PROVE  /\ World.failed >= t => x.failed >= t
                        /\ ShapesSince(World, t) => ShapesSince(x, t)
      BY <1>5, <1>6, <1>8 DEF Evolves
    <2>1. World.failed >= t => x.failed >= t
      BY <1>0, <1>3, <1>5, <1>6
    <2>2. ShapesSince(World, t) => ShapesSince(x, t)
      <3>1. CASE s.called
        BY <1>15, <3>1
      <3>2. CASE ~s.called
        BY <1>6, <1>8, <1>16, <3>2 DEF ShapesSince
      <3> QED BY <3>1, <3>2
    <2> QED BY <2>1, <2>2
  <1>18. s.called => ShapesSince(x, now)
    BY <1>0, <1>15
  <1>19. x.shapes[p] = s.shapes
    BY <1>10
  <1> QED BY <1>1, <1>2, <1>7, <1>9, <1>12, <1>14, <1>17, <1>18, <1>19

\* After a call, the levels of the caller are those of the call and those of the others as they were.
LEMMA DoneLevels ==
    ASSUME ZoneSettings, ZoneInv, NEW p \in Processes, NEW s, NEW x, Evolves(World, x, now), LevelsSince(x, s.mem, s.red, now),
           mem' = [mem EXCEPT ![p] = s.mem], red' = s.red, NEW q \in Processes
    PROVE  LevelsSince(x, mem'[q], red', now)
  <1>1. DOMAIN mem = Processes /\ now \in Int
    BY DEF ZoneInv, ZoneTypes
  <1>2. CASE q = p
    BY <1>1, <1>2
  <1>3. CASE q # p
    <2>1. mem'[q] = mem[q]
      BY <1>1, <1>3
    <2>2. LevelsSince(x, mem[q], red, now)
      BY <1>1, LevelsEvolve DEF ZoneInv
    <2> QED BY <2>1, <2>2 DEF LevelsSince
  <1> QED BY <1>2, <1>3

LEMMA AskExcludedKeeps ==
    ASSUME ZoneSettings, ZoneInv, NEW p \in Processes, Zones!AskExcluded(p)
    PROVE  ZoneInv'
  <1>1. PICK read \in Zones!Readings, place \in Places, mode \in Modes, date \in Dates :
          Zones!Done(p, Zones!is_excluded(Zones!State(p), place, mode, date, read), read, "excluded", place, mode, date)
    BY DEF Zones!AskExcluded
  <1> DEFINE u == Zones!State(p)
             s == Zones!is_excluded(u, place, mode, date, read)
             x == World'
  <1>2. StateRecord(u)
    BY DEF Zones!State, StateRecord
  <1>3. Zones!Done(p, s, read, "excluded", place, mode, date)
    BY <1>1
  <1>4. now \in Int
    BY DEF ZoneInv, ZoneTypes
  <1> HIDE DEF u, s, x
  <1>5. ShapesFollow(u, s, read)
    BY <1>2, CallsFollow DEF s
  <1>6. /\ ~u.called /\ u.mem = mem[p] /\ u.red = red
        /\ ZoneTypes' /\ Sane(x) /\ Evolves(World, x, now) /\ KnownShapes(x) /\ AllSince(x, read, now)
        /\ (s.called => ShapesSince(x, now)) /\ x.shapes[p] = s.shapes
    BY <1>3, <1>5, DoneWorld DEF u, x
  <1>7. LevelsSince(x, u.mem, u.red, now)
    BY <1>4, <1>6, LevelsEvolve DEF ZoneInv
  <1>8. LevelsSince(x, s.mem, s.red, now) /\ ExcludedSince(x, place, mode, date, s.value.v, now - 3 * Zones!Kept)
    BY <1>2, <1>4, <1>6, <1>7, ExcludedCall DEF s
  <1>9. /\ mem' = [mem EXCEPT ![p] = s.mem] /\ red' = s.red /\ now' = now
        /\ answer' = [what |-> "excluded", place |-> place, mode |-> mode, date |-> date, value |-> s.value.v]
    BY <1>3 DEF Zones!Done
  <1>10. \A q \in Processes : LevelsSince(x, mem'[q], red', now)
    BY <1>6, <1>8, <1>9, DoneLevels
  <1>11. /\ answer'.what = "excluded" /\ answer'.place = place /\ answer'.mode = mode /\ answer'.date = date
         /\ answer'.value = s.value.v
    BY <1>9
  <1>12. AnswerSince(World, now)'
    BY <1>8, <1>9, <1>11 DEF AnswerSince, x
  <1> QED BY <1>6, <1>9, <1>10, <1>12 DEF ZoneInv, x

LEMMA FetchKeeps ==
    ASSUME ZoneSettings, ZoneInv, NEW p \in Processes, Zones!fetch_and_get_data(p)
    PROVE  ZoneInv'
  <1>1. PICK read \in Zones!Readings, mode \in Modes \cup {Zones!Whatever} :
          Zones!Done(p, Zones!get_excluded_zones(Zones!State(p), mode, 0, read), read, "zones", "", mode, 0)
    BY DEF Zones!fetch_and_get_data
  <1> DEFINE u == Zones!State(p)
             s == Zones!get_excluded_zones(u, mode, 0, read)
             x == World'
             place == ""
             date == 0
  <1>2. StateRecord(u)
    BY DEF Zones!State, StateRecord
  <1>3. Zones!Done(p, s, read, "zones", place, mode, date)
    BY <1>1
  <1>4. now \in Int
    BY DEF ZoneInv, ZoneTypes
  <1> HIDE DEF u, s, x, place, date
  <1>5. ShapesFollow(u, s, read)
    BY <1>2, CallsFollow DEF s
  <1>6. /\ ~u.called /\ u.mem = mem[p] /\ u.red = red
        /\ ZoneTypes' /\ Sane(x) /\ Evolves(World, x, now) /\ KnownShapes(x) /\ AllSince(x, read, now)
        /\ (s.called => ShapesSince(x, now))
    BY <1>3, <1>5, DoneWorld DEF u, x
  <1>7. LevelsSince(x, u.mem, u.red, now)
    BY <1>4, <1>6, LevelsEvolve DEF ZoneInv
  <1>8. LevelsSince(x, s.mem, s.red, now) /\ ZonesSince(x, mode, 0, s.value.v, now - 2 * Zones!Kept)
    BY <1>2, <1>4, <1>6, <1>7, ZonesCall DEF s
  <1>9. /\ mem' = [mem EXCEPT ![p] = s.mem] /\ red' = s.red /\ now' = now
        /\ answer' = [what |-> "zones", place |-> place, mode |-> mode, date |-> date, value |-> s.value.v]
    BY <1>3 DEF Zones!Done
  <1>10. \A q \in Processes : LevelsSince(x, mem'[q], red', now)
    BY <1>6, <1>8, <1>9, DoneLevels
  <1>11. answer'.what = "zones" /\ answer'.mode = mode /\ answer'.value = s.value.v
    BY <1>9
  <1>12. AnswerSince(World, now)'
    BY <1>8, <1>9, <1>11 DEF AnswerSince, x
  <1> QED BY <1>6, <1>9, <1>10, <1>12 DEF ZoneInv, x

\* What is said of an answer stays true.
AnswerEvolves(w, x, n) ==
  /\ \A p, m, d, b : ExcludedSince(w, p, m, d, b, n - 3 * Zones!Kept) => ExcludedSince(x, p, m, d, b, n - 3 * Zones!Kept)
  /\ \A m, d, zs : ZonesSince(w, m, d, zs, n - 2 * Zones!Kept) => ZonesSince(x, m, d, zs, n - 2 * Zones!Kept)

\* Other files come: those before were there until now.
LEMMA UploadKeeps ==
    ASSUME ZoneSettings, ZoneInv, Zones!Upload
    PROVE  ZoneInv'
  <1> DEFINE x == World'
  <1>0. /\ now \in Nat /\ failed \in Int /\ failed <= now /\ version \in 1 .. Len(Bucket) /\ version \in Nat
        /\ changed \in Seq(Int) /\ Len(changed) = version /\ Len(Bucket) \in Nat /\ Zones!Kept \in Nat
    BY KeptIsNumber DEF ZoneInv, ZoneTypes, ZoneSettings
  <1>1. /\ version < Len(Bucket) /\ version' = version + 1 /\ changed' = Append(changed, now)
        /\ mem' = mem /\ red' = red /\ shapes' = shapes /\ failed' = failed /\ answer' = answer /\ now' = now
        /\ restarts' = restarts
    BY DEF Zones!Upload, Zones!counters
  <1>2. /\ changed' \in Seq(Int) /\ Len(changed') = version + 1 /\ changed'[version + 1] = now
        /\ \A v \in 1 .. version : changed'[v] = changed[v]
    BY <1>0, <1>1, AppendProperties
  <1>3. x.version = version + 1 /\ x.changed = changed' /\ x.failed = failed /\ x.shapes = shapes
    BY <1>1 DEF World
  <1>4. World.version = version /\ World.changed = changed /\ World.failed = failed /\ World.shapes = shapes
    BY DEF World
  <1> HIDE DEF x
  <1>5. \A t \in Int : t <= now => FilesSince(World, t) \subseteq FilesSince(x, t)
    <2> SUFFICES ASSUME NEW t \in Int, t <= now, NEW v \in 1 .. version, v = version \/ changed[v + 1] >= t
                 PROVE  v \in 1 .. (version + 1) /\ (v = version + 1 \/ changed'[v + 1] >= t)
      BY <1>3, <1>4 DEF FilesSince
    <2> QED BY <1>0, <1>2
  <1>6. Evolves(World, x, now)
    BY <1>0, <1>3, <1>4, <1>5 DEF Evolves, ShapesSince
  <1>7. \A p \in Processes : LevelsSince(x, mem[p], red, now)
    BY <1>0, <1>6, LevelsEvolve DEF ZoneInv
  <1>8. AnswerEvolves(World, x, now)
    <2> DEFINE t == now - 3 * Zones!Kept
               r == now - 2 * Zones!Kept
    <2>1. t \in Int /\ t <= now /\ r \in Int /\ r <= now
      BY <1>0
    <2> HIDE DEF t, r
    <2>2. \A p, m, d, b : ExcludedSince(World, p, m, d, b, t) => ExcludedSince(x, p, m, d, b, t)
      BY <1>6, <2>1, SinceMoves DEF Evolves
    <2>3. \A m, d, zs : ZonesSince(World, m, d, zs, r) => ZonesSince(x, m, d, zs, r)
      BY <1>6, <2>1, SinceMoves DEF Evolves
    <2> QED BY <2>2, <2>3 DEF AnswerEvolves, t, r
  <1>9. KnownShapes(x)
    BY <1>0, <1>3, <1>4 DEF ZoneInv, KnownShapes
  <1>10. ZoneTypes'
    BY <1>0, <1>1, <1>2 DEF ZoneInv, ZoneTypes
  <1>11. AnswerSince(World, now)'
    <2>1. AnswerSince(World, now)
      BY DEF ZoneInv
    <2>2. AnswerSince(x, now)
      BY <1>8, <2>1 DEF AnswerSince, AnswerEvolves
    <2> QED BY <1>1, <2>2 DEF AnswerSince, x
  <1> QED BY <1>1, <1>7, <1>9, <1>10, <1>11 DEF ZoneInv, x

LEMMA RestartKeeps ==
    ASSUME ZoneSettings, ZoneInv, NEW p \in Processes, Zones!Restart(p)
    PROVE  ZoneInv'
  <1> DEFINE x == World'
  <1>0. /\ now \in Nat /\ DOMAIN mem = Processes /\ DOMAIN shapes = Processes /\ restarts \in Nat
    BY DEF ZoneInv, ZoneTypes
  <1>1. /\ restarts < MaxRestarts /\ restarts' = restarts + 1
        /\ mem' = [mem EXCEPT ![p] = Zones!Empty(Zones!Keys)] /\ shapes' = [shapes EXCEPT ![p] = <<>>]
        /\ red' = red /\ version' = version /\ changed' = changed /\ failed' = failed /\ answer' = answer /\ now' = now
    BY DEF Zones!Restart
  <1>2. ~Alone
    BY <1>0, <1>1 DEF Alone
  <1>3. x.version = version /\ x.changed = changed /\ x.failed = failed /\ x.shapes = shapes'
    BY <1>1 DEF World
  <1>4. World.version = version /\ World.changed = changed /\ World.failed = failed /\ World.shapes = shapes
    BY DEF World
  <1> HIDE DEF x
  <1>5. \A t : FilesSince(World, t) = FilesSince(x, t) /\ ShapesSince(x, t)
    BY <1>2, <1>3, <1>4 DEF FilesSince, ShapesSince
  <1>6. Evolves(World, x, now)
    BY <1>3, <1>4, <1>5 DEF Evolves
  <1>7. \A q \in Processes : LevelsSince(x, mem[q], red, now)
    BY <1>0, <1>6, LevelsEvolve DEF ZoneInv
  <1>8. \A q \in Processes : LevelsSince(x, mem'[q], red, now)
    <2> TAKE q \in Processes
    <2>1. LevelSince(x, Zones!Empty(Zones!Keys), MemoryTimeout, now - (RedisTimeout - 1))
      BY DEF LevelSince, Zones!Empty
    <2>2. mem'[q] = Zones!Empty(Zones!Keys) \/ mem'[q] = mem[q]
      BY <1>0, <1>1
    <2> QED BY <1>7, <2>1, <2>2 DEF LevelsSince
  <1>9. KnownShapes(x)
    <2> SUFFICES ASSUME NEW q \in Processes, NEW poi \in DOMAIN shapes'[q]
                 PROVE  \E i \in 1 .. version : \E y \in Zones!Range(Bucket[i]) :
                          y.poi = poi /\ y.shape # Zones!NoShape /\ shapes'[q][poi] = y.shape
      BY <1>3 DEF KnownShapes
    <2>1. shapes'[q] = shapes[q]
      <3>1. shapes'[q] = shapes[q] \/ shapes'[q] = <<>>
        BY <1>0, <1>1
      <3>2. DOMAIN <<>> = {}
        OBVIOUS
      <3> QED BY <3>1, <3>2
    <2> QED BY <1>4, <2>1 DEF ZoneInv, KnownShapes
  <1>10. ZoneTypes'
    BY <1>0, <1>1 DEF ZoneInv, ZoneTypes
  <1>11. AnswerSince(World, now)'
    <2>1. \A z, t : FromFiles(x, z, t) = FromFiles(World, z, t)
      BY <1>5 DEF FromFiles
    <2>2. /\ \A q, m, d, b, t : ExcludedSince(World, q, m, d, b, t) => ExcludedSince(x, q, m, d, b, t)
          /\ \A m, d, zs, t : ZonesSince(World, m, d, zs, t) => ZonesSince(x, m, d, zs, t)
      BY <1>3, <1>4, <1>5, <2>1 DEF ExcludedSince, ZonesSince
    <2>3. AnswerSince(World, now)
      BY DEF ZoneInv
    <2>4. AnswerSince(x, now)
      BY <2>2, <2>3 DEF AnswerSince
    <2> QED BY <1>1, <2>4 DEF AnswerSince, x
  <1> QED BY <1>1, <1>8, <1>9, <1>10, <1>11 DEF ZoneInv, x

LEMMA ZonesInductive == ASSUME ZoneSettings PROVE Zones!Spec => []ZoneInv
  <1>1. Zones!Init => ZoneInv
    <2> SUFFICES ASSUME Zones!Init PROVE ZoneInv
      OBVIOUS
    <2>1. PICK Files : Bucket \in Seq(Seq(Files)) /\ Bucket # <<>>
      BY DEF ZoneSettings
    <2>2. Len(Bucket) \in Nat /\ 1 <= Len(Bucket)
      BY <2>1
    <2>3. <<0>> \in Seq(Int) /\ Len(<<0>>) = 1
      OBVIOUS
    <2>4. ZoneTypes
      BY <2>2, <2>3 DEF ZoneTypes, Zones!Init, Zones!Never
    <2>5. AnswerSince(World, now)
      BY DEF AnswerSince, Zones!Init
    <2>6. KnownShapes(World)
      <3>1. World.shapes = [p \in Processes |-> <<>>]
        BY DEF World, Zones!Init
      <3>2. \A p \in Processes : DOMAIN World.shapes[p] = {}
        BY <3>1
      <3> QED BY <3>2 DEF KnownShapes
    <2>7. \A w, timeout, n : LevelSince(w, Zones!Empty(Zones!Keys), timeout, n)
      BY DEF LevelSince, Zones!Empty
    <2>8. \A p \in Processes : LevelsSince(World, mem[p], red, now)
      BY <2>7 DEF Zones!Init, LevelsSince
    <2> QED BY <2>4, <2>5, <2>6, <2>8 DEF ZoneInv
  <1>2. ZoneInv /\ [Zones!Next]_Zones!vars => ZoneInv'
    <2> SUFFICES ASSUME ZoneInv, [Zones!Next]_Zones!vars PROVE ZoneInv'
      OBVIOUS
    <2>1. CASE Zones!Tick
      <3>1. /\ now' = now + 1 /\ mem' = [p \in Processes |-> Zones!Aged(mem[p])] /\ red' = Zones!Aged(red)
            /\ answer' = [what |-> "none"] /\ shapes' = shapes /\ version' = version /\ changed' = changed
            /\ failed' = failed /\ restarts' = restarts
        BY <2>1 DEF Zones!Tick
      <3>2. World' = World
        BY <3>1 DEF World
      <3>3. now \in Int /\ MemoryTimeout \in Nat \ {0} /\ RedisTimeout \in Nat \ {0} /\ \A k : Base(k) \in Int
        BY KeptIsNumber DEF ZoneInv, ZoneTypes
      <3>4. \A p \in Processes : LevelsSince(World, Zones!Aged(mem[p]), Zones!Aged(red), now + 1)
        <4> TAKE p \in Processes
        <4> DEFINE a == now - (RedisTimeout - 1)
        <4>1. a \in Int /\ a + 1 = (now + 1) - (RedisTimeout - 1)
          BY <3>3
        <4> HIDE DEF a
        <4>2. LevelSince(World, mem[p], MemoryTimeout, a) /\ LevelSince(World, red, RedisTimeout, now)
          BY DEF ZoneInv, LevelsSince, a
        <4>3. LevelSince(World, Zones!Aged(mem[p]), MemoryTimeout, a + 1)
          BY <3>3, <4>1, <4>2, AgedSince
        <4>4. LevelSince(World, Zones!Aged(red), RedisTimeout, now + 1)
          BY <3>3, <4>2, AgedSince
        <4>5. LevelSince(World, Zones!Aged(mem[p]), MemoryTimeout, (now + 1) - (RedisTimeout - 1))
          BY <4>1, <4>3, Zenon
        <4> QED BY <4>4, <4>5 DEF LevelsSince
      <3>5. ZoneTypes'
        BY <3>1 DEF ZoneInv, ZoneTypes
      <3>6. AnswerSince(World, now)'
        BY <3>1 DEF AnswerSince
      <3>7. KnownShapes(World')
        BY <3>2 DEF ZoneInv
      <3>8. \A p \in Processes : LevelsSince(World', mem'[p], red', now')
        BY <3>1, <3>2, <3>4
      <3> QED BY <3>5, <3>6, <3>7, <3>8 DEF ZoneInv
    <2>2. CASE UNCHANGED Zones!vars
      <3>1. /\ now' = now /\ mem' = mem /\ red' = red /\ answer' = answer /\ shapes' = shapes /\ version' = version
            /\ changed' = changed /\ failed' = failed /\ restarts' = restarts
        BY <2>2 DEF Zones!vars
      <3>2. World' = World
        BY <3>1 DEF World
      <3> QED BY <3>1, <3>2 DEF ZoneInv, ZoneTypes, AnswerSince
    <2> QED BY <2>1, <2>2, UploadKeeps, AskExcludedKeeps, FetchKeeps, RestartKeeps DEF Zones!Next
  <1> QED BY <1>1, <1>2, PTL DEF Zones!Spec

-----------------------------------------------------------------------------
(* What is answered *)

LEMMA RecentIsSince == \A levels : Zones!Recent(levels) = FilesSince(World, now - levels * Zones!Kept)
  BY DEF Zones!Recent, FilesSince, World

\* Whatever fails and whoever read the bucket, an exclusion has a zone of recent files and a shape that the
\* files once had: any files, processes, timeouts and restarts.
THEOREM ExclusionHasAReason == ASSUME ZoneSettings PROVE Zones!Spec => []Zones!ExclusionIsJustified
  <1>1. ZoneInv => Zones!ExclusionIsJustified
    <2> SUFFICES ASSUME ZoneInv, answer.what = "excluded", answer.value
                 PROVE  \E v \in Zones!Recent(3), w \in 1 .. version : Once(v, w, answer.place, answer.mode, answer.date)
      BY DEF Zones!ExclusionIsJustified, Once, Zones!is_activated
    <2>1. ExcludedSince(World, answer.place, answer.mode, answer.date, answer.value, now - 3 * Zones!Kept)
      BY DEF ZoneInv, AnswerSince
    <2>2. World.version = version
      BY DEF World
    <2> QED BY <2>1, <2>2, RecentIsSince DEF ExcludedSince
  <1> QED BY <1>1, ZonesInductive, PTL

\* The zones that are published for a mode are those of the mode in files at most two lifetimes old, unless a
\* reading failed since.
THEOREM PublishedAreRecent == ASSUME ZoneSettings PROVE Zones!Spec => []Zones!PublishedZones
  <1>1. ZoneInv => Zones!PublishedZones
    <2> SUFFICES ASSUME ZoneInv, answer.what = "zones", failed < now - 2 * Zones!Kept
                 PROVE  \E v \in Zones!Recent(2) :
                          answer.value = {z \in Zones!Range(Bucket[v]) : answer.mode = Zones!Whatever \/ answer.mode \in z.modes}
      BY DEF Zones!PublishedZones
    <2>1. ZonesSince(World, answer.mode, 0, answer.value, now - 2 * Zones!Kept)
      BY DEF ZoneInv, AnswerSince
    <2>2. ~(World.failed >= now - 2 * Zones!Kept)
      BY KeptIsNumber DEF World, ZoneInv, ZoneTypes
    <2>3. PICK v \in Zones!Recent(2) : answer.value = Zones!Selected(Bucket[v], answer.mode, 0)
      BY <2>1, <2>2, RecentIsSince DEF ZonesSince
    <2> QED BY <2>3 DEF Zones!Selected
  <1> QED BY <1>1, ZonesInductive, PTL

\* A process that runs alone and never restarts answers what files say that are at most three lifetimes
\* old, unless a reading failed since: the shapes, which no cache keeps, are never older than the zones.
THEOREM ExclusionIsOfRecentFiles == ASSUME ZoneSettings, Alone PROVE Zones!Spec => []Zones!ExclusionIsRecent
  <1>1. ZoneInv => Zones!ExclusionIsRecent
    <2> SUFFICES ASSUME ZoneInv, answer.what = "excluded", failed < now - 3 * Zones!Kept
                 PROVE  \E v, w \in Zones!Recent(3) : answer.value = Zones!Says(v, w, answer.place, answer.mode, answer.date)
      BY DEF Zones!ExclusionIsRecent
    <2>1. ExcludedSince(World, answer.place, answer.mode, answer.date, answer.value, now - 3 * Zones!Kept)
      BY DEF ZoneInv, AnswerSince
    <2>2. ~(World.failed >= now - 3 * Zones!Kept)
      BY KeptIsNumber DEF World, ZoneInv, ZoneTypes
    <2> QED BY <2>1, <2>2, RecentIsSince DEF ExcludedSince
  <1> QED BY <1>1, ZonesInductive, PTL

-----------------------------------------------------------------------------
(***************************************************************************)
(* The places of car parks and bike stations: any number of workers and    *)
(* processes that share the cache, of providers, and of versions of what   *)
(* the services publish.                                                   *)
(***************************************************************************)
CONSTANTS Workers, Process, Args, Blocks, Pois, Queries, Station, Lower, LStrip, Near, TokenTimeout, Interval, Faults,
          MaxVersion, MaxRequests, ResetTimeout
VARIABLES work, cache, breaker, local, replaced, epoch, revoked, served

Parking == INSTANCE ParkingProviders

\* What the proofs need to know of the settings: what is cached has some time, the managers know
\* their providers, responses are of known POIs, and services fail by a timeout or an error.
Provided == DOMAIN Args \cup {"None"}
ParkingSettings ==
  /\ RedisTimeout \in Nat \ {0} /\ TokenTimeout \in Nat \ {0} /\ Interval \in Nat /\ MaxVersion \in Nat \ {0}
  /\ \A b \in 1 .. Len(Blocks) : Blocks[b].providers \in Seq(Provided)
  /\ Len(Blocks) \in Nat
  /\ \A q \in Queries : q.pois \in Seq(DOMAIN Pois)
  /\ Faults \subseteq {"timeout", "500"}

\* Version v of the service of p, which is not the version 0 of an answer without station, was still
\* published at time t.
PublishedSince(p, v, t) == v \in 0 .. version[p] /\ (v = 0 \/ v = version[p] \/ replaced[p][v] >= t)

\* The tokens of epoch e were still taken at time t.
TakenSince(p, e, t) == e = epoch[p] \/ revoked[p] >= t

ServiceInv ==
  /\ now \in Nat /\ DOMAIN cache = Parking!Keys /\ DOMAIN work = Workers
  /\ DOMAIN local = Parking!Processes \X (DOMAIN Args)
  /\ version \in [DOMAIN Args -> 1 .. MaxVersion] /\ replaced \in [DOMAIN Args -> [0 .. MaxVersion -> Int]]
  /\ epoch \in [DOMAIN Args -> Nat] /\ revoked \in [DOMAIN Args -> Int]

\* An entry e of the cache under the key k: what a provider was told, or a token.
IsToken(k) == k[3] = "token" /\ Parking!Class(k[2]) = "cykleo"
KeptOK(k, e) ==
  /\ e.kind \in {"absent", "entry"}
  /\ e.kind = "entry" =>
       /\ e = Parking!Entry(e.value, e.left) /\ e.left \in Nat \ {0} /\ e.value.kind = "data"
       /\ IsToken(k) => e.left <= TokenTimeout /\ TakenSince(k[2], e.value.v, now - (TokenTimeout - e.left))
       /\ ~IsToken(k) => e.left <= RedisTimeout /\ PublishedSince(k[2], e.value.v, now - (RedisTimeout - e.left))
KeptInv == \A k \in Parking!Keys : KeptOK(k, cache[k])

\* What jcdecaux keeps, of the provider p.
LocalOK(p, l) == l.data.kind = "data" => l.at \in Int /\ l.at <= now /\ PublishedSince(p, l.data.v, l.at - RedisTimeout)
LocalsInv == \A x \in Parking!Processes \X (DOMAIN Args) : LocalOK(x[2], local[x])

\* The information x of a POI.
ShownOK(x) ==
  x.of # 0 => x.by \in DOMAIN Args /\ x.at \in Int /\ x.at <= now /\ PublishedSince(x.by, x.of, x.at - Parking!Stale(x.by))

\* The request r.
Fields == {"pc", "b", "i", "pois", "wanted", "feeds", "hasFeeds", "used", "by", "token", "refusedAt", "infos"}
RequestOK(r) ==
  /\ DOMAIN r = Fields /\ r.pois \in Seq(DOMAIN Pois) /\ r.i \in Nat \ {0} /\ r.b \in Nat \ {0}
  /\ r.pc \in {"block", "poi", "auth", "call", "done"}
  /\ r.pc \in {"poi", "auth", "call"} => r.b <= Len(Blocks)
  /\ r.pc \in {"auth", "call"} => r.by \in DOMAIN Args
  /\ r.pc = "auth" => Parking!Class(r.by) = "cykleo"
  /\ r.pc = "call" /\ Parking!Class(r.by) = "cykleo" /\ r.token # Parking!Null => TakenSince(r.by, r.token, now - TokenTimeout)
  /\ r.refusedAt # Parking!Never =>
       r.refusedAt \in Int /\ r.refusedAt <= now /\ \E p \in DOMAIN Args : Parking!Class(p) = "cykleo" /\ revoked[p] >= r.refusedAt - TokenTimeout
  /\ \A i \in DOMAIN r.infos : ShownOK(r.infos[i])
RequestsInv == \A w \in Workers : work[w] = Parking!Idle \/ RequestOK(work[w])

ParkingInv == ServiceInv /\ KeptInv /\ LocalsInv /\ RequestsInv

-----------------------------------------------------------------------------
(* What a worker makes of an answer *)

\* Numbers may be shown if they are as recent as the caches allow.
Showable(p, d) == d.kind = "data" => PublishedSince(p, d.v, now - Parking!Stale(p))

LEMMA StaleIsTime ==
    ASSUME ParkingSettings, NEW p
    PROVE  Parking!Stale(p) \in Nat /\ RedisTimeout <= Parking!Stale(p) /\ (Parking!Class(p) = "jcdecaux" => Parking!Stale(p) = RedisTimeout + Interval)
  BY DEF ParkingSettings, Parking!Stale

\* Older is easier.
LEMMA PublishedEarlier ==
    ASSUME ParkingSettings, ServiceInv, NEW p \in DOMAIN Args, NEW v, NEW t \in Int, NEW u \in Int, u <= t, PublishedSince(p, v, t)
    PROVE  PublishedSince(p, v, u)
  <1>a. MaxVersion \in Int
    BY DEF ParkingSettings
  <1>b. version \in [DOMAIN Args -> 1 .. MaxVersion] /\ replaced \in [DOMAIN Args -> [0 .. MaxVersion -> Int]]
    BY DEF ServiceInv
  <1>1. version[p] \in 1 .. MaxVersion /\ MaxVersion \in Int /\ \A x \in 0 .. MaxVersion : replaced[p][x] \in Int
    BY <1>a, <1>b
  <1> QED BY <1>1 DEF PublishedSince

LEMMA HandleKeeps ==
    ASSUME ParkingSettings, ServiceInv, NEW r, RequestOK(r), r.pc \in {"poi", "auth", "call"}, NEW p \in DOMAIN Args, NEW d, Showable(p, d),
           NEW n, n = Parking!HandlePoi(r, p, d)
    PROVE  RequestOK(n)
  <1> DEFINE x == r.pois[r.i]
             info == IF d.kind = "alone" THEN Parking!Alone(p, Pois[x]) ELSE Parking!Information(p, Pois[x], d)
             new == [info |-> info, by |-> p, at |-> now, of |-> IF d.kind = "data" THEN d.v ELSE 0]
  <1>1. DOMAIN r = Fields /\ r.b \in Nat \ {0} /\ r.i \in Nat \ {0}
    BY DEF RequestOK
  <1>2. CASE info.is = "exception"
    <2>1. n = [r EXCEPT !.pc = "block", !.b = @ + 1]
      BY <1>2 DEF Parking!HandlePoi
    <2> HIDE DEF info
    <2>2. /\ DOMAIN n = Fields /\ n.pc = "block" /\ n.b = r.b + 1 /\ n.i = r.i /\ n.pois = r.pois /\ n.by = r.by
          /\ n.token = r.token /\ n.refusedAt = r.refusedAt /\ n.infos = r.infos
      BY <1>1, <2>1 DEF Fields
    <2> QED BY <1>1, <2>2 DEF RequestOK
  <1>3. CASE info.is # "exception"
    <2>1. n = [r EXCEPT !.pc = "poi", !.i = @ + 1, !.used = @ \cup {p}, !.infos = [@ EXCEPT ![r.i] = new]]
      BY <1>3 DEF Parking!HandlePoi
    <2>2. new.by = p /\ new.at = now /\ new.of = IF d.kind = "data" THEN d.v ELSE 0
      OBVIOUS
    <2> HIDE DEF info, new
    <2>3. /\ DOMAIN n = Fields /\ n.pc = "poi" /\ n.b = r.b /\ n.i = r.i + 1 /\ n.pois = r.pois /\ n.by = r.by
          /\ n.token = r.token /\ n.refusedAt = r.refusedAt
          /\ DOMAIN n.infos = DOMAIN r.infos /\ \A i \in DOMAIN r.infos : n.infos[i] = r.infos[i] \/ n.infos[i] = new
      BY <1>1, <2>1 DEF Fields
    <2>4. ShownOK(new)
      BY <2>2 DEF ShownOK, Showable, ServiceInv
    <2> QED BY <1>1, <2>3, <2>4 DEF RequestOK
  <1> QED BY <1>2, <1>3

\* The provider that is found is one of the manager's.
LEMMA FoundIsProvider ==
    ASSUME NEW ps \in Seq(Provided), NEW poi
    PROVE  Parking!find_provider(ps, poi) = "" \/ Parking!find_provider(ps, poi) \in Provided
  <1> DEFINE stops == {i \in 1 .. Len(ps) : ps[i] = "None" \/ Parking!handle_poi(ps[i], poi)}
             first == CHOOSE i \in stops : \A j \in stops : i <= j
  <1>0. Len(ps) \in Nat /\ \A i \in 1 .. Len(ps) : ps[i] \in Provided
    OBVIOUS
  <1>1. CASE stops = {}
    BY <1>1 DEF Parking!find_provider
  <1>2. CASE stops # {}
    <2>1. Parking!find_provider(ps, poi) = ps[first]
      BY <1>2 DEF Parking!find_provider
    <2>2. stops \subseteq 1 .. Len(ps) /\ stops \subseteq Nat
      BY <1>0
    <2> HIDE DEF stops
    <2>3. PICK m \in stops : \A k \in stops : ~(<<k, m>> \in OpToRel(<, Nat))
      BY <1>2, <2>2, NatLessThanWellFounded, WFMin, Zenon
    <2>4. \A k \in stops : m <= k
      <3>1. \A k \in stops : k \in Nat /\ m \in Nat
        BY <2>2
      <3>2. \A k \in stops : ~(k < m)
        BY <2>3, <3>1 DEF OpToRel
      <3> QED BY <3>1, <3>2
    <2>5. first \in stops
      BY <2>4
    <2> HIDE DEF first
    <2> QED BY <1>0, <2>1, <2>2, <2>5
  <1> QED BY <1>1, <1>2

-----------------------------------------------------------------------------
(* The cache *)

\* A provider's key is in the cache, and is that of no token.
OfProvider(k, p) == k[2] = p /\ ~IsToken(k)
KeyFor(k, p) == k \in Parking!Keys /\ OfProvider(k, p)

LEMMA NotAToken ==
    ASSUME NEW w, NEW p, NEW poi
    PROVE  OfProvider(Parking!Key(w, p, poi), p)
  <1> DEFINE k == Parking!Key(w, p, poi)
             a == IF Parking!Class(p) \in {"atos", "jcdecaux", "cykleo"} THEN "all" ELSE Process[w]
             c == IF Parking!Class(p) = "forseti" THEN poi.coord ELSE "all"
  <1>1. k = <<a, p, c>>
    BY DEF Parking!Key
  <1>2. Parking!Class(p) = "cykleo" => c = "all"
    OBVIOUS
  <1> HIDE DEF a, c, k
  <1>3. k[2] = p /\ k[3] = c
    BY <1>1
  <1>4. OfProvider(k, p)
    BY <1>2, <1>3 DEF IsToken, OfProvider
  <1> QED BY <1>4 DEF k

LEMMA KeyOf ==
    ASSUME NEW w \in Workers, NEW p \in DOMAIN Args, NEW x \in DOMAIN Pois
    PROVE  KeyFor(Parking!Key(w, p, Pois[x]), p)
  <1> DEFINE k == Parking!Key(w, p, Pois[x])
             a == IF Parking!Class(p) \in {"atos", "jcdecaux", "cykleo"} THEN "all" ELSE Process[w]
             c == IF Parking!Class(p) = "forseti" THEN Pois[x].coord ELSE "all"
  <1>1. k = <<a, p, c>>
    BY DEF Parking!Key
  <1>2. a \in {"all"} \cup Parking!Processes
    BY DEF Parking!Processes
  <1>3. c \in {"all", "token"} \cup Parking!Coords
    BY DEF Parking!Coords
  <1> HIDE DEF a, c
  <1>4. k \in Parking!Keys
    BY <1>1, <1>2, <1>3 DEF Parking!Keys
  <1> QED BY <1>4, NotAToken DEF KeyFor

LEMMA TokenKeyOf ==
    ASSUME NEW p \in DOMAIN Args, Parking!Class(p) = "cykleo", NEW k, k = Parking!TokenKey(p)
    PROVE  k \in Parking!Keys /\ k[2] = p /\ IsToken(k)
  BY DEF Parking!TokenKey, Parking!Keys, IsToken

\* Nothing happens in the services.
Still == version' = version /\ replaced' = replaced /\ epoch' = epoch /\ revoked' = revoked /\ now' = now

LEMMA StoreKeeps ==
    ASSUME ServiceInv, KeptInv, Still, NEW k, NEW d, NEW t, d.kind = "none" \/ KeptOK(k, Parking!Entry(d, t)),
           cache' = Parking!Store(cache, k, d, t)
    PROVE  KeptInv' /\ DOMAIN cache' = Parking!Keys
  <1>1. DOMAIN cache = Parking!Keys
    BY DEF ServiceInv
  <1>2. CASE d.kind = "none"
    <2>1. cache' = cache
      BY <1>2 DEF Parking!Store
    <2> QED BY <1>1, <2>1 DEF KeptInv, KeptOK, Still, PublishedSince, TakenSince
  <1>3. CASE d.kind # "none"
    <2>1. cache' = [cache EXCEPT ![k] = Parking!Entry(d, t)]
      BY <1>3 DEF Parking!Store
    <2>2. DOMAIN cache' = Parking!Keys /\ \A j \in Parking!Keys : cache'[j] = cache[j] \/ (j = k /\ cache'[j] = Parking!Entry(d, t))
      BY <1>1, <2>1
    <2>3. \A j \in Parking!Keys : KeptOK(j, cache'[j])
      BY <1>3, <2>2 DEF KeptInv
    <2> QED BY <2>2, <2>3 DEF KeptInv, KeptOK, Still, PublishedSince, TakenSince
  <1> QED BY <1>2, <1>3

\* An entry of a provider may be shown.
LEMMA KeptIsShowable ==
    ASSUME ParkingSettings, ServiceInv, KeptInv, NEW p \in DOMAIN Args, NEW k \in Parking!Keys, k[2] = p, ~IsToken(k), Parking!Holds(cache, k)
    PROVE  cache[k].value.kind = "data" /\ PublishedSince(p, cache[k].value.v, now - RedisTimeout) /\ Showable(p, cache[k].value)
  <1> DEFINE e == cache[k]
  <1>1. /\ e.left \in Nat \ {0} /\ e.value.kind = "data" /\ e.left <= RedisTimeout
        /\ PublishedSince(p, e.value.v, now - (RedisTimeout - e.left))
    BY DEF KeptInv, KeptOK, Parking!Holds
  <1>2. now \in Nat /\ RedisTimeout \in Nat /\ Parking!Stale(p) \in Nat /\ RedisTimeout <= Parking!Stale(p)
    BY StaleIsTime DEF ServiceInv, ParkingSettings
  <1> HIDE DEF e
  <1>3. /\ now - (RedisTimeout - e.left) \in Int /\ now - RedisTimeout \in Int /\ now - Parking!Stale(p) \in Int
        /\ now - RedisTimeout <= now - (RedisTimeout - e.left) /\ now - Parking!Stale(p) <= now - RedisTimeout
    BY <1>1, <1>2
  <1>4. PublishedSince(p, e.value.v, now - RedisTimeout)
    BY <1>1, <1>3, PublishedEarlier
  <1>5. PublishedSince(p, e.value.v, now - Parking!Stale(p))
    BY <1>3, <1>4, PublishedEarlier
  <1> QED BY <1>1, <1>4, <1>5 DEF e, Showable

-----------------------------------------------------------------------------
(* Steps *)

\* The step of the worker w, whose request becomes n.
LEMMA RequestsKeep ==
    ASSUME ServiceInv, RequestsInv, Still, NEW w \in Workers, NEW n, work' = [work EXCEPT ![w] = n], RequestOK(n)
    PROVE  RequestsInv' /\ DOMAIN work' = Workers
  <1>1. DOMAIN work' = Workers /\ \A u \in Workers : work'[u] = work[u] \/ work'[u] = n
    BY DEF ServiceInv
  <1>2. \A u \in Workers : work'[u] = Parking!Idle \/ RequestOK(work'[u])
    BY <1>1 DEF RequestsInv
  <1> QED BY <1>1, <1>2 DEF RequestsInv, RequestOK, ShownOK, Still, PublishedSince, TakenSince, Parking!Idle

\* What a worker that serves a request has.
LEMMA Serving ==
    ASSUME RequestsInv, NEW w \in Workers, work[w].pc # "idle"
    PROVE  RequestOK(work[w])
  BY DEF RequestsInv, Parking!Idle

LEMMA SameKept ==
    ASSUME ServiceInv, KeptInv, Still, cache' = cache
    PROVE  KeptInv'
  BY DEF KeptInv, KeptOK, Still, PublishedSince, TakenSince

LEMMA SameLocals ==
    ASSUME LocalsInv, Still, local' = local
    PROVE  LocalsInv'
  BY DEF LocalsInv, LocalOK, Still, PublishedSince

\* The steps of a worker inside a response that ask nothing.
LEMMA QuietKeeps ==
    ASSUME ParkingSettings, ParkingInv, NEW w \in Workers,
           Parking!Skip(w) \/ Parking!Broken(w) \/ Parking!ManageParkingPlaces(w) \/ Parking!EndOfBlock(w)
    PROVE  ParkingInv'
  <1>0. ServiceInv /\ KeptInv /\ LocalsInv /\ RequestsInv /\ DOMAIN work = Workers
    BY DEF ParkingInv, ServiceInv
  <1> DEFINE r == work[w]
  <1>1. Still /\ cache' = cache /\ local' = local
    BY DEF Parking!Skip, Parking!Broken, Parking!ManageParkingPlaces, Parking!EndOfBlock, Still
  <1>2. RequestOK(r)
    BY <1>0, Serving DEF Parking!Skip, Parking!Broken, Parking!ManageParkingPlaces, Parking!EndOfBlock
  <1>3. DOMAIN r = Fields /\ r.b \in Nat \ {0} /\ r.i \in Nat \ {0}
    BY <1>2 DEF RequestOK
  <1>4. \E n : work' = [work EXCEPT ![w] = n] /\ RequestOK(n)
    <2>1. CASE Parking!Skip(w)
      <3>1. PICK n : n = [r EXCEPT !.i = r.i + 1] /\ work' = [work EXCEPT ![w] = n] /\ r.pc = "poi"
        BY <1>0, <2>1 DEF Parking!Skip
      <3> HIDE DEF r
      <3>2. /\ DOMAIN n = Fields /\ n.pc = r.pc /\ n.b = r.b /\ n.i = r.i + 1 /\ n.pois = r.pois /\ n.by = r.by
            /\ n.token = r.token /\ n.refusedAt = r.refusedAt /\ n.infos = r.infos
        BY <1>3, <3>1 DEF Fields
      <3>3. RequestOK(n)
        BY <1>2, <1>3, <3>1, <3>2 DEF RequestOK
      <3> QED BY <3>1, <3>3
    <2>2. CASE Parking!Broken(w)
      <3>1. PICK n : n = [r EXCEPT !.pc = "block", !.b = r.b + 1] /\ work' = [work EXCEPT ![w] = n]
        BY <1>0, <2>2 DEF Parking!Broken
      <3> HIDE DEF r
      <3>2. /\ DOMAIN n = Fields /\ n.pc = "block" /\ n.b = r.b + 1 /\ n.i = r.i /\ n.pois = r.pois /\ n.by = r.by
            /\ n.token = r.token /\ n.refusedAt = r.refusedAt /\ n.infos = r.infos
        BY <1>3, <3>1 DEF Fields
      <3>3. RequestOK(n)
        BY <1>2, <1>3, <3>2 DEF RequestOK
      <3> QED BY <3>1, <3>3
    <2>3. CASE Parking!EndOfBlock(w)
      <3> DEFINE feeds == Parking!add_feed_publisher(r)
      <3>1. PICK n : n = [r EXCEPT !.pc = "block", !.b = r.b + 1, !.feeds = feeds] /\ work' = [work EXCEPT ![w] = n]
        BY <1>0, <2>3 DEF Parking!EndOfBlock
      <3> HIDE DEF feeds
      <3> HIDE DEF r
      <3>2. /\ DOMAIN n = Fields /\ n.pc = "block" /\ n.b = r.b + 1 /\ n.i = r.i /\ n.pois = r.pois /\ n.by = r.by
            /\ n.token = r.token /\ n.refusedAt = r.refusedAt /\ n.infos = r.infos
        BY <1>3, <3>1 DEF Fields
      <3>3. RequestOK(n)
        BY <1>2, <1>3, <3>2 DEF RequestOK
      <3> QED BY <3>1, <3>3
    <2>4. CASE Parking!ManageParkingPlaces(w)
      <3>0. r.pc = "block"
        BY <2>4 DEF Parking!ManageParkingPlaces
      <3>1. CASE r.b > Len(Blocks)
        <4>1. PICK n : n = [r EXCEPT !.pc = "done"] /\ work' = [work EXCEPT ![w] = n]
          BY <1>0, <2>4, <3>1 DEF Parking!ManageParkingPlaces
        <4> HIDE DEF r
        <4>2. /\ DOMAIN n = Fields /\ n.pc = "done" /\ n.b = r.b /\ n.i = r.i /\ n.pois = r.pois /\ n.by = r.by
              /\ n.token = r.token /\ n.refusedAt = r.refusedAt /\ n.infos = r.infos
          BY <1>3, <4>1 DEF Fields
        <4>3. RequestOK(n)
          BY <1>2, <1>3, <4>2 DEF RequestOK
        <4> QED BY <4>1, <4>3
      <3>2. CASE ~(r.b > Len(Blocks)) /\ Blocks[r.b].kind \in r.wanted /\ Blocks[r.b].providers # <<>>
        <4>1. PICK n : n = [r EXCEPT !.pc = "poi", !.i = 1, !.used = {}] /\ work' = [work EXCEPT ![w] = n]
          BY <1>0, <2>4, <3>2 DEF Parking!ManageParkingPlaces
        <4>2. r.b <= Len(Blocks)
          BY <1>3, <3>2 DEF ParkingSettings
        <4> HIDE DEF r
        <4>3. /\ DOMAIN n = Fields /\ n.pc = "poi" /\ n.b = r.b /\ n.i = 1 /\ n.pois = r.pois /\ n.by = r.by
              /\ n.token = r.token /\ n.refusedAt = r.refusedAt /\ n.infos = r.infos
          BY <1>3, <4>1 DEF Fields
        <4>4. RequestOK(n)
          BY <1>2, <1>3, <4>2, <4>3 DEF RequestOK
        <4> QED BY <4>1, <4>4
      <3>3. CASE ~(r.b > Len(Blocks)) /\ ~(Blocks[r.b].kind \in r.wanted /\ Blocks[r.b].providers # <<>>)
        <4>1. PICK n : n = [r EXCEPT !.b = r.b + 1] /\ work' = [work EXCEPT ![w] = n]
          BY <1>0, <2>4, <3>3 DEF Parking!ManageParkingPlaces
        <4> HIDE DEF r
        <4>2. /\ DOMAIN n = Fields /\ n.pc = r.pc /\ n.b = r.b + 1 /\ n.i = r.i /\ n.pois = r.pois /\ n.by = r.by
              /\ n.token = r.token /\ n.refusedAt = r.refusedAt /\ n.infos = r.infos
          BY <1>3, <4>1 DEF Fields
        <4>3. RequestOK(n)
          BY <1>2, <1>3, <3>0, <4>2 DEF RequestOK
        <4> QED BY <4>1, <4>3
      <3> QED BY <3>1, <3>2, <3>3
    <2> QED BY <2>1, <2>2, <2>3, <2>4
  <1>5. RequestsInv' /\ DOMAIN work' = Workers
    BY <1>0, <1>1, <1>4, RequestsKeep
  <1>6. KeptInv' /\ LocalsInv'
    BY <1>0, <1>1, SameKept, SameLocals
  <1>7. ServiceInv'
    BY <1>0, <1>1, <1>5 DEF ServiceInv, Still
  <1> QED BY <1>5, <1>6, <1>7 DEF ParkingInv

\* A worker looks at a POI: what it does, of which provider.
Gets(w, p, d) == work' = [work EXCEPT ![w] = Parking!HandlePoi(work[w], p, d)]
GetsNothing(w, p) == Gets(w, p, [kind |-> "alone"]) \/ Gets(w, p, Parking!Failed)
GoesOn(w, p) ==
  LET class == Parking!Class(p)
      held == Parking!Holds(cache, Parking!TokenKey(p))
  IN  work' = [work EXCEPT ![w].by = p,
                 ![w].token = IF class = "cykleo" /\ held THEN cache[Parking!TokenKey(p)].value.v ELSE Parking!Null,
                 ![w].pc = IF class = "cykleo" /\ ~held THEN "auth" ELSE "call"]

Sees(w, p, k, b) ==
  CASE Parking!AnswersAlone(p, Parking!Poi(w)) -> Parking!Gives(w, p, [kind |-> "alone"]) /\ UNCHANGED <<breaker, local>>
    [] Parking!LocalFresh(w, p) -> Parking!Gives(w, p, local[Parking!Here(w, p)].data) /\ UNCHANGED <<breaker, local>>
    [] Parking!Class(p) = "atos" /\ ~Parking!MayCall(b, now) -> Parking!Gives(w, p, Parking!Failed) /\ UNCHANGED <<breaker, local>>
    [] Parking!Holds(cache, k) ->
         /\ Parking!Gives(w, p, cache[k].value)
         /\ breaker' = IF Parking!Class(p) = "atos" THEN [breaker EXCEPT ![Parking!Here(w, p)] = Parking!AfterSuccess(b)] ELSE breaker
         /\ local' = IF Parking!Class(p) = "jcdecaux"
                     THEN [local EXCEPT ![Parking!Here(w, p)] = [data |-> cache[k].value, at |-> now]] ELSE local
    [] ~Parking!MayCall(b, now) -> Parking!Gives(w, p, Parking!Failed) /\ UNCHANGED <<breaker, local>>
    [] OTHER ->
         /\ work' = [work EXCEPT ![w].by = p,
               ![w].token = IF Parking!Class(p) = "cykleo" /\ Parking!Holds(cache, Parking!TokenKey(p)) THEN cache[Parking!TokenKey(p)].value.v ELSE Parking!Null,
               ![w].pc = IF Parking!Class(p) = "cykleo" /\ ~Parking!Holds(cache, Parking!TokenKey(p)) THEN "auth" ELSE "call"]
         /\ UNCHANGED <<breaker, local>>

LEMMA VisitForm ==
    ASSUME ParkingSettings, ParkingInv, NEW w \in Workers, Parking!Visit(w)
    PROVE  \E p \in DOMAIN Args, k \in Parking!Keys :
             /\ k[2] = p /\ ~IsToken(k)
             /\ \/ GetsNothing(w, p) /\ local' = local
                \/ Parking!LocalFresh(w, p) /\ Gets(w, p, local[Parking!Here(w, p)].data) /\ local' = local
                \/ /\ Parking!Holds(cache, k) /\ Gets(w, p, cache[k].value)
                   /\ \/ local' = local
                      \/ local' = [local EXCEPT ![Parking!Here(w, p)] = [data |-> cache[k].value, at |-> now]]
                \/ GoesOn(w, p) /\ local' = local
  <1> DEFINE r == work[w]
             x == r.pois[r.i]
             ps == Blocks[r.b].providers
  <1>1. RequestsInv /\ r.pc = "poi" /\ r.i <= Len(r.pois)
    BY DEF ParkingInv, Parking!Visit
  <1>2. RequestOK(r)
    BY <1>1, Serving
  <1>3. x \in DOMAIN Pois /\ r.b \in 1 .. Len(Blocks)
    <2>1. r.pois \in Seq(DOMAIN Pois) /\ r.i \in Nat \ {0} /\ r.b \in Nat \ {0} /\ r.b <= Len(Blocks) /\ Len(Blocks) \in Nat
      BY <1>1, <1>2 DEF RequestOK, ParkingSettings
    <2> HIDE DEF r
    <2>2. r.i \in 1 .. Len(r.pois)
      BY <1>1, <2>1
    <2> QED BY <2>1, <2>2
  <1>4. ps \in Seq(Provided)
    BY <1>3 DEF ParkingSettings
  <1>5. PICK p \in {Parking!find_provider(Parking!Candidates(w), Parking!Poi(w))} \ {"", "None"} :
          \E k \in {Parking!Key(w, p, Parking!Poi(w))}, b \in {breaker[Parking!Here(w, p)]} : Sees(w, p, k, b)
    BY Zenon DEF Parking!Visit, Sees
  <1>6. p \in DOMAIN Args
    BY <1>4, <1>5, FoundIsProvider DEF Provided, Parking!Candidates
  <1>7. PICK k, b : k = Parking!Key(w, p, Pois[x]) /\ Sees(w, p, k, b)
    BY <1>5 DEF Parking!Poi
  <1>8. k \in Parking!Keys /\ k[2] = p /\ ~IsToken(k)
    <2>1. KeyFor(k, p)
      BY <1>3, <1>6, <1>7, KeyOf, Zenon
    <2> QED BY <2>1 DEF KeyFor, OfProvider
  <1>9. \/ GetsNothing(w, p) /\ local' = local
        \/ Parking!LocalFresh(w, p) /\ Gets(w, p, local[Parking!Here(w, p)].data) /\ local' = local
        \/ /\ Parking!Holds(cache, k) /\ Gets(w, p, cache[k].value)
           /\ \/ local' = local
              \/ local' = [local EXCEPT ![Parking!Here(w, p)] = [data |-> cache[k].value, at |-> now]]
        \/ GoesOn(w, p) /\ local' = local
    BY <1>7 DEF Sees, Parking!Gives, Gets, GetsNothing, GoesOn
  <1> QED BY <1>6, <1>8, <1>9

\* A request that was answered something that may be shown.
LEMMA GetsKeeps ==
    ASSUME ParkingSettings, ServiceInv, RequestsInv, Still, NEW w \in Workers, RequestOK(work[w]), work[w].pc \in {"poi", "auth", "call"},
           NEW p \in DOMAIN Args, NEW d, Showable(p, d), Gets(w, p, d)
    PROVE  RequestsInv' /\ DOMAIN work' = Workers
  <1>1. PICK n : n = Parking!HandlePoi(work[w], p, d) /\ work' = [work EXCEPT ![w] = n]
    BY DEF Gets
  <1>2. RequestOK(n)
    <2>1. PICK r : r = work[w]
      OBVIOUS
    <2>2. RequestOK(r) /\ r.pc \in {"poi", "auth", "call"} /\ n = Parking!HandlePoi(r, p, d)
      BY <1>1, <2>1
    <2> QED BY <2>2, HandleKeeps
  <1> QED BY <1>1, <1>2, RequestsKeep

LEMMA VisitKeeps ==
    ASSUME ParkingSettings, ParkingInv, NEW w \in Workers, Parking!Visit(w)
    PROVE  ParkingInv'
  <1>0. ServiceInv /\ KeptInv /\ LocalsInv /\ RequestsInv /\ DOMAIN work = Workers
    BY DEF ParkingInv, ServiceInv
  <1> DEFINE r == work[w]
  <1>1. Still /\ cache' = cache /\ r.pc = "poi"
    BY DEF Parking!Visit, Still
  <1>2. RequestOK(r)
    BY <1>0, <1>1, Serving
  <1>3. PICK p \in DOMAIN Args, k \in Parking!Keys :
          /\ k[2] = p /\ ~IsToken(k)
          /\ \/ GetsNothing(w, p) /\ local' = local
             \/ Parking!LocalFresh(w, p) /\ Gets(w, p, local[Parking!Here(w, p)].data) /\ local' = local
             \/ /\ Parking!Holds(cache, k) /\ Gets(w, p, cache[k].value)
                /\ \/ local' = local
                   \/ local' = [local EXCEPT ![Parking!Here(w, p)] = [data |-> cache[k].value, at |-> now]]
             \/ GoesOn(w, p) /\ local' = local
    BY VisitForm
  <1> DEFINE here == Parking!Here(w, p)
  <1>4. here \in Parking!Processes \X (DOMAIN Args) /\ here[2] = p
    BY DEF Parking!Here, Parking!Processes
  <1>5. now \in Nat /\ RedisTimeout \in Nat /\ Interval \in Nat /\ Parking!Stale(p) \in Nat
    BY <1>0, StaleIsTime DEF ServiceInv, ParkingSettings
  <1>6. KeptInv'
    BY <1>0, <1>1, SameKept
  <1>7. CASE GetsNothing(w, p) /\ local' = local
    <2>1. PICK d : d.kind # "data" /\ Gets(w, p, d)
      BY <1>7 DEF GetsNothing, Parking!Failed
    <2>2. Showable(p, d)
      BY <2>1 DEF Showable
    <2>3. RequestsInv' /\ DOMAIN work' = Workers
      BY <1>0, <1>1, <1>2, <2>1, <2>2, GetsKeeps
    <2> QED BY <1>0, <1>1, <1>6, <1>7, <2>3, SameLocals DEF ParkingInv, ServiceInv, Still
  <1>8. CASE Parking!LocalFresh(w, p) /\ Gets(w, p, local[here].data) /\ local' = local
    <2> DEFINE l == local[here]
    <2>1. l.data.kind = "data" /\ l.at + Interval >= now /\ Parking!Class(p) = "jcdecaux"
      BY <1>8 DEF Parking!LocalFresh
    <2>2. l.at \in Int /\ PublishedSince(p, l.data.v, l.at - RedisTimeout)
      BY <1>0, <1>4, <2>1 DEF LocalsInv, LocalOK
    <2> HIDE DEF l, here
    <2>3. now - Parking!Stale(p) <= l.at - RedisTimeout /\ now - Parking!Stale(p) \in Int /\ l.at - RedisTimeout \in Int
      <3>1. Parking!Stale(p) = RedisTimeout + Interval
        BY <2>1, StaleIsTime
      <3> QED BY <1>5, <2>1, <2>2, <3>1
    <2>4. PublishedSince(p, l.data.v, now - Parking!Stale(p))
      BY <1>0, <2>2, <2>3, PublishedEarlier
    <2>5. Showable(p, l.data)
      BY <2>4 DEF Showable
    <2>6. Gets(w, p, l.data)
      BY <1>8 DEF l
    <2>7. RequestsInv' /\ DOMAIN work' = Workers
      BY <1>0, <1>1, <1>2, <2>5, <2>6, GetsKeeps
    <2> QED BY <1>0, <1>1, <1>6, <1>8, <2>7, SameLocals DEF ParkingInv, ServiceInv, Still
  <1>9. CASE /\ Parking!Holds(cache, k) /\ Gets(w, p, cache[k].value)
             /\ \/ local' = local
                \/ local' = [local EXCEPT ![here] = [data |-> cache[k].value, at |-> now]]
    <2> DEFINE v == cache[k].value
    <2>1. v.kind = "data" /\ PublishedSince(p, v.v, now - RedisTimeout) /\ Showable(p, v)
      BY <1>0, <1>3, <1>9, KeptIsShowable
    <2>2. Gets(w, p, v)
      BY <1>9
    <2>3. local' = local \/ local' = [local EXCEPT ![here] = [data |-> v, at |-> now]]
      BY <1>9
    <2> HIDE DEF v, here
    <2>4. RequestsInv' /\ DOMAIN work' = Workers
      BY <1>0, <1>1, <1>2, <2>1, <2>2, GetsKeeps
    <2>5. LocalsInv' /\ DOMAIN local' = Parking!Processes \X (DOMAIN Args)
      <3>1. PICK l : l = [data |-> v, at |-> now]
        OBVIOUS
      <3>2. l.data = v /\ l.at = now
        BY <3>1
      <3>3. LocalOK(p, l)
        BY <1>5, <2>1, <3>2 DEF LocalOK
      <3>4. local' = local \/ local' = [local EXCEPT ![here] = l]
        BY <2>3, <3>1
      <3>5. DOMAIN local = Parking!Processes \X (DOMAIN Args)
        BY <1>0 DEF ServiceInv
      <3>6. /\ DOMAIN local' = Parking!Processes \X (DOMAIN Args)
            /\ \A x \in Parking!Processes \X (DOMAIN Args) : local'[x] = local[x] \/ (x = here /\ local'[x] = l)
        BY <3>4, <3>5
      <3>7. \A x \in Parking!Processes \X (DOMAIN Args) : LocalOK(x[2], local'[x])
        BY <1>0, <1>4, <3>3, <3>6 DEF LocalsInv
      <3> QED BY <1>1, <3>6, <3>7 DEF LocalsInv, LocalOK, Still, PublishedSince
    <2> QED BY <1>0, <1>1, <1>6, <2>4, <2>5 DEF ParkingInv, ServiceInv, Still
  <1>10. CASE GoesOn(w, p) /\ local' = local
    <2> DEFINE held == Parking!Holds(cache, Parking!TokenKey(p))
               class == Parking!Class(p)
               token == IF class = "cykleo" /\ held THEN cache[Parking!TokenKey(p)].value.v ELSE Parking!Null
               pc == IF class = "cykleo" /\ ~held THEN "auth" ELSE "call"
    <2>1. PICK n : n = [r EXCEPT !.by = p, !.token = token, !.pc = pc] /\ work' = [work EXCEPT ![w] = n]
      BY <1>0, <1>10 DEF GoesOn
    <2>2. pc \in {"auth", "call"} /\ (pc = "auth" => class = "cykleo")
      OBVIOUS
    <2>3. class = "cykleo" /\ token # Parking!Null /\ pc = "call" => TakenSince(p, token, now - TokenTimeout)
      <3> SUFFICES ASSUME class = "cykleo", token # Parking!Null, pc = "call" PROVE TakenSince(p, token, now - TokenTimeout)
        OBVIOUS
      <3>1. held /\ token = cache[Parking!TokenKey(p)].value.v
        OBVIOUS
      <3>2. PICK j : j = Parking!TokenKey(p)
        OBVIOUS
      <3>3. j \in Parking!Keys /\ j[2] = p /\ IsToken(j)
        BY <3>2, TokenKeyOf
      <3>4. /\ cache[j].left \in Nat \ {0} /\ cache[j].left <= TokenTimeout
            /\ TakenSince(p, cache[j].value.v, now - (TokenTimeout - cache[j].left))
        BY <1>0, <3>1, <3>2, <3>3 DEF KeptInv, KeptOK, Parking!Holds
      <3>5. revoked[p] \in Int /\ TokenTimeout \in Nat
        BY <1>0 DEF ServiceInv, ParkingSettings
      <3>6. TakenSince(p, cache[j].value.v, now - TokenTimeout)
        BY <1>5, <3>4, <3>5 DEF TakenSince
      <3> QED BY <3>1, <3>2, <3>6
    <2> HIDE DEF held, class, token, pc, r
    <2>4. DOMAIN r = Fields
      BY <1>2 DEF RequestOK
    <2>5. /\ DOMAIN n = Fields /\ n.pc = pc /\ n.b = r.b /\ n.i = r.i /\ n.pois = r.pois /\ n.by = p
          /\ n.token = token /\ n.refusedAt = r.refusedAt /\ n.infos = r.infos
      BY <2>1, <2>4 DEF Fields
    <2>6. RequestOK(n)
      BY <1>1, <1>2, <2>2, <2>3, <2>5 DEF RequestOK, class
    <2>7. RequestsInv' /\ DOMAIN work' = Workers
      BY <1>0, <1>1, <2>1, <2>6, RequestsKeep
    <2> QED BY <1>0, <1>1, <1>6, <1>10, <2>7, SameLocals DEF ParkingInv, ServiceInv, Still
  <1> QED BY <1>3, <1>7, <1>8, <1>9, <1>10

LEMMA TokenKeeps ==
    ASSUME ParkingSettings, ParkingInv, NEW w \in Workers, Parking!get_access_token(w)
    PROVE  ParkingInv'
  <1>0. ServiceInv /\ KeptInv /\ LocalsInv /\ RequestsInv /\ DOMAIN work = Workers /\ now \in Nat /\ TokenTimeout \in Nat \ {0}
    BY DEF ParkingInv, ServiceInv, ParkingSettings
  <1> DEFINE r == work[w]
             p == r.by
  <1>1. Still /\ local' = local /\ r.pc = "auth"
    BY DEF Parking!get_access_token, Still
  <1>2. RequestOK(r) /\ p \in DOMAIN Args /\ Parking!Class(p) = "cykleo" /\ DOMAIN r = Fields
    <2>1. RequestOK(r)
      BY <1>0, <1>1, Serving
    <2> QED BY <1>1, <2>1 DEF RequestOK
  <1>3. LocalsInv'
    BY <1>0, <1>1, SameLocals
  <1>4. ASSUME NEW d, NEW token, work' = [work EXCEPT ![w].pc = "call", ![w].token = token], cache' = Parking!Store(cache, Parking!TokenKey(p), d, TokenTimeout),
               \/ d = Parking!Nothing /\ token = Parking!Null
               \/ d = Parking!Token(epoch[p]) /\ token = epoch[p]
        PROVE  ParkingInv'
    <2>1. PICK n : n = [r EXCEPT !.pc = "call", !.token = token] /\ work' = [work EXCEPT ![w] = n]
      BY <1>0, <1>4
    <2>2. token # Parking!Null => TakenSince(p, token, now - TokenTimeout)
      BY <1>4 DEF TakenSince
    <2>3. PICK k : k = Parking!TokenKey(p)
      OBVIOUS
    <2>4. k[2] = p /\ IsToken(k) /\ cache' = Parking!Store(cache, k, d, TokenTimeout)
      BY <1>2, <1>4, <2>3, TokenKeyOf
    <2>5. d.kind = "none" \/ KeptOK(k, Parking!Entry(d, TokenTimeout))
      <3>1. CASE d = Parking!Nothing
        BY <3>1 DEF Parking!Nothing
      <3>2. CASE d = Parking!Token(epoch[p])
        <4>1. d.kind = "data" /\ d.v = epoch[p]
          BY <3>2 DEF Parking!Token
        <4>2. PICK e : e = Parking!Entry(d, TokenTimeout)
          OBVIOUS
        <4>3. e.kind = "entry" /\ e.value = d /\ e.left = TokenTimeout
          BY <4>2 DEF Parking!Entry
        <4>4. e = Parking!Entry(e.value, e.left)
          BY <4>2, <4>3, Zenon
        <4>5. KeptOK(k, e)
          BY <1>0, <2>4, <4>1, <4>3, <4>4 DEF KeptOK, TakenSince
        <4> QED BY <4>2, <4>5
      <3> QED BY <1>4, <3>1, <3>2
    <2>6. KeptInv' /\ DOMAIN cache' = Parking!Keys
      BY <1>0, <1>1, <2>4, <2>5, StoreKeeps
    <2> HIDE DEF r
    <2>7. /\ DOMAIN n = Fields /\ n.pc = "call" /\ n.b = r.b /\ n.i = r.i /\ n.pois = r.pois /\ n.by = p
          /\ n.token = token /\ n.refusedAt = r.refusedAt /\ n.infos = r.infos
      BY <1>2, <2>1 DEF Fields
    <2>8. RequestOK(n)
      BY <1>1, <1>2, <2>2, <2>7 DEF RequestOK
    <2>9. RequestsInv' /\ DOMAIN work' = Workers
      BY <1>0, <1>1, <2>1, <2>8, RequestsKeep
    <2> QED BY <1>0, <1>1, <1>3, <2>6, <2>9 DEF ParkingInv, ServiceInv, Still
  <1>5. ASSUME Gets(w, p, Parking!Failed), cache' = cache
        PROVE  ParkingInv'
    <2>1. Showable(p, Parking!Failed)
      BY DEF Showable, Parking!Failed
    <2>2. RequestsInv' /\ DOMAIN work' = Workers
      BY <1>0, <1>1, <1>2, <1>5, <2>1, GetsKeeps
    <2>3. KeptInv'
      BY <1>0, <1>1, <1>5, SameKept
    <2> QED BY <1>0, <1>1, <1>3, <1>5, <2>2, <2>3 DEF ParkingInv, ServiceInv, Still
  <1>6. \/ /\ cache' = Parking!Store(cache, Parking!TokenKey(p), Parking!Token(epoch[p]), TokenTimeout)
           /\ work' = [work EXCEPT ![w].pc = "call", ![w].token = epoch[p]]
        \/ /\ cache' = Parking!Store(cache, Parking!TokenKey(p), Parking!Nothing, TokenTimeout)
           /\ work' = [work EXCEPT ![w].pc = "call", ![w].token = Parking!Null]
        \/ Gets(w, p, Parking!Failed) /\ cache' = cache
    BY DEF Parking!get_access_token, Parking!Gives, Gets
  <1> QED BY <1>4, <1>5, <1>6

\* The answer o, which is read as d.
Hears(w, p, o, d) ==
  /\ breaker' = [breaker EXCEPT ![Parking!Here(w, p)] = Parking!AfterCall(p, @, o)]
  /\ cache' = IF d.kind = "error" THEN cache ELSE Parking!Store(cache, Parking!Key(w, p, Parking!Poi(w)), d, RedisTimeout)
  /\ local' = IF Parking!Class(p) = "jcdecaux" /\ d.kind = "data"
              THEN [local EXCEPT ![Parking!Here(w, p)] = [data |-> d, at |-> now]] ELSE local
  /\ work' = [work EXCEPT ![w] =
       Parking!HandlePoi([work[w] EXCEPT !.refusedAt = IF o = "401" /\ work[w].token # Parking!Null THEN now ELSE @], p, d)]

LEMMA CallKeeps ==
    ASSUME ParkingSettings, ParkingInv, NEW w \in Workers, Parking!call_webservice(w)
    PROVE  ParkingInv'
  <1>0. ServiceInv /\ KeptInv /\ LocalsInv /\ RequestsInv /\ DOMAIN work = Workers /\ now \in Nat /\ RedisTimeout \in Nat \ {0} /\ TokenTimeout \in Nat
    BY DEF ParkingInv, ServiceInv, ParkingSettings
  <1> DEFINE r == work[w]
             p == r.by
             here == Parking!Here(w, p)
  <1>1. Still /\ r.pc = "call"
    BY DEF Parking!call_webservice, Still
  <1>2. RequestOK(r) /\ p \in DOMAIN Args /\ DOMAIN r = Fields
    <2>1. RequestOK(r)
      BY <1>0, <1>1, Serving
    <2> QED BY <1>1, <2>1 DEF RequestOK
  <1>a. \E q \in {work[w].by} : \E o \in Parking!AnswersOf(w, q) : \E d \in {Parking!ResultOf(q, o)} : Hears(w, q, o, d)
    BY Zenon DEF Parking!call_webservice, Hears
  <1>b. PICK o \in Parking!AnswersOf(w, p) : Hears(w, p, o, Parking!ResultOf(p, o))
    BY <1>a
  <1>c. PICK d : d = Parking!ResultOf(p, o) /\ Hears(w, p, o, d)
    BY <1>b
  <1>3. o \in Parking!AnswersOf(w, p) /\
          /\ d = Parking!ResultOf(p, o)
          /\ cache' = IF d.kind = "error" THEN cache ELSE Parking!Store(cache, Parking!Key(w, p, Parking!Poi(w)), d, RedisTimeout)
          /\ local' = IF Parking!Class(p) = "jcdecaux" /\ d.kind = "data" THEN [local EXCEPT ![here] = [data |-> d, at |-> now]] ELSE local
          /\ work' = [work EXCEPT ![w] =
               Parking!HandlePoi([r EXCEPT !.refusedAt = IF o = "401" /\ r.token # Parking!Null THEN now ELSE r.refusedAt], p, d)]
    BY <1>c DEF Hears
  <1>4. d.kind \in {"data", "none", "error"} /\ (d.kind = "data" => d.v = version[p] \/ d.v = 0)
    BY <1>3 DEF Parking!ResultOf, Parking!Numbers, Parking!Nothing, Parking!Failed
  <1>5. version[p] \in Nat
    BY <1>0, <1>2 DEF ServiceInv, ParkingSettings
  <1>6. d.kind = "data" => PublishedSince(p, d.v, now - RedisTimeout) /\ PublishedSince(p, d.v, now) /\ PublishedSince(p, d.v, now - Parking!Stale(p))
    BY <1>4, <1>5 DEF PublishedSince
  <1>7. KeptInv' /\ DOMAIN cache' = Parking!Keys
    <2>1. CASE d.kind = "error"
      <3>1. cache' = cache
        BY <1>3, <2>1
      <3> QED BY <1>0, <1>1, <3>1, SameKept DEF ServiceInv
    <2>2. CASE d.kind # "error"
      <3>1. PICK k : k = Parking!Key(w, p, Parking!Poi(w))
        OBVIOUS
      <3>2. OfProvider(k, p)
        BY <3>1, NotAToken, Zenon
      <3>3. cache' = Parking!Store(cache, k, d, RedisTimeout)
        BY <1>3, <2>2, <3>1
      <3>4. d.kind = "none" \/ KeptOK(k, Parking!Entry(d, RedisTimeout))
        <4> SUFFICES ASSUME d.kind = "data" PROVE KeptOK(k, Parking!Entry(d, RedisTimeout))
          BY <1>4, <2>2
        <4>1. PICK e : e = Parking!Entry(d, RedisTimeout)
          OBVIOUS
        <4>2. e.kind = "entry" /\ e.value = d /\ e.left = RedisTimeout
          BY <4>1 DEF Parking!Entry
        <4>3. e = Parking!Entry(e.value, e.left)
          BY <4>1, <4>2, Zenon
        <4>4. PublishedSince(p, e.value.v, now - (RedisTimeout - e.left))
          BY <1>0, <1>4, <1>5, <4>2 DEF PublishedSince
        <4>5. KeptOK(k, e)
          BY <1>0, <3>2, <4>2, <4>3, <4>4 DEF KeptOK, OfProvider
        <4> QED BY <4>1, <4>5
      <3> QED BY <1>0, <1>1, <3>3, <3>4, StoreKeeps
    <2> QED BY <2>1, <2>2
  <1>8. LocalsInv' /\ DOMAIN local' = Parking!Processes \X (DOMAIN Args)
    <2>1. PICK l : l = [data |-> d, at |-> now]
      OBVIOUS
    <2>2. l.data = d /\ l.at = now
      BY <2>1
    <2>3. LocalOK(p, l)
      BY <1>0, <1>6, <2>2 DEF LocalOK
    <2>4. local' = local \/ local' = [local EXCEPT ![here] = l]
      BY <1>3, <2>1
    <2>5. here[2] = p
      BY DEF Parking!Here
    <2>6. DOMAIN local = Parking!Processes \X (DOMAIN Args)
      BY <1>0 DEF ServiceInv
    <2> HIDE DEF here
    <2>7. /\ DOMAIN local' = Parking!Processes \X (DOMAIN Args)
          /\ \A x \in Parking!Processes \X (DOMAIN Args) : local'[x] = local[x] \/ (x = here /\ local'[x] = l)
      BY <2>4, <2>6
    <2>8. \A x \in Parking!Processes \X (DOMAIN Args) : LocalOK(x[2], local'[x])
      BY <1>0, <2>3, <2>5, <2>7 DEF LocalsInv
    <2> QED BY <1>1, <2>7, <2>8 DEF LocalsInv, LocalOK, Still, PublishedSince
  <1>9. RequestsInv' /\ DOMAIN work' = Workers
    <2> DEFINE refused == o = "401" /\ r.token # Parking!Null
    <2>1. PICK m : m = [r EXCEPT !.refusedAt = IF refused THEN now ELSE r.refusedAt]
      OBVIOUS
    <2>2. refused => Parking!Class(p) = "cykleo" /\ revoked[p] >= now - TokenTimeout
      <3> SUFFICES ASSUME refused PROVE Parking!Class(p) = "cykleo" /\ revoked[p] >= now - TokenTimeout
        OBVIOUS
      <3>1. o \notin Faults
        BY DEF ParkingSettings
      <3>2. Parking!Class(p) = "cykleo" /\ r.token # epoch[p]
        BY <1>3, <3>1 DEF Parking!AnswersOf
      <3>3. TakenSince(p, r.token, now - TokenTimeout)
        BY <1>1, <1>2, <3>2 DEF RequestOK
      <3> QED BY <3>2, <3>3 DEF TakenSince
    <2>3. work' = [work EXCEPT ![w] = Parking!HandlePoi(m, p, d)]
      BY <1>3, <2>1
    <2> HIDE DEF r, refused
    <2>4. /\ DOMAIN m = Fields /\ m.pc = r.pc /\ m.b = r.b /\ m.i = r.i /\ m.pois = r.pois /\ m.by = r.by
          /\ m.token = r.token /\ m.infos = r.infos /\ m.refusedAt = IF refused THEN now ELSE r.refusedAt
      BY <1>2, <2>1 DEF Fields
    <2>5. RequestOK(m)
      <3>1. m.refusedAt # Parking!Never =>
              /\ m.refusedAt \in Int /\ m.refusedAt <= now
              /\ \E q \in DOMAIN Args : Parking!Class(q) = "cykleo" /\ revoked[q] >= m.refusedAt - TokenTimeout
        <4>1. CASE refused
          BY <1>0, <1>2, <2>2, <2>4, <4>1
        <4>2. CASE ~refused
          BY <1>2, <2>4, <4>2 DEF RequestOK
        <4> QED BY <4>1, <4>2
      <3> QED BY <1>2, <2>4, <3>1 DEF RequestOK
    <2>6. Showable(p, d)
      BY <1>6 DEF Showable
    <2>7. PICK n : n = Parking!HandlePoi(m, p, d) /\ work' = [work EXCEPT ![w] = n]
      BY <2>3
    <2>8. m.pc \in {"poi", "auth", "call"}
      BY <1>1, <2>4
    <2>9. RequestOK(n)
      BY <1>0, <1>2, <2>5, <2>6, <2>7, <2>8, HandleKeeps
    <2> QED BY <1>0, <1>1, <2>7, <2>9, RequestsKeep
  <1> QED BY <1>0, <1>1, <1>7, <1>8, <1>9 DEF ParkingInv, ServiceInv, Still

\* A worker begins a response: nothing is shown in it yet.
LEMMA BeginKeeps ==
    ASSUME ParkingSettings, ParkingInv, NEW w \in Workers, Parking!Begin(w)
    PROVE  ParkingInv'
  <1>0. ServiceInv /\ KeptInv /\ LocalsInv /\ RequestsInv /\ DOMAIN work = Workers
    BY DEF ParkingInv, ServiceInv
  <1>1. Still /\ cache' = cache /\ local' = local
    BY DEF Parking!Begin, Still
  <1>2. PICK q \in Queries : work' = [work EXCEPT ![w] =
         [pc |-> "block", b |-> 1, i |-> 1, pois |-> q.pois, wanted |-> q.wanted, feeds |-> <<>>, hasFeeds |-> q.feeds,
          used |-> {}, by |-> "", token |-> Parking!Null, refusedAt |-> Parking!Never,
          infos |-> [j \in 1 .. Len(q.pois) |-> [info |-> [is |-> "unset"], by |-> "", at |-> now, of |-> 0]]]]
    BY DEF Parking!Begin
  <1> DEFINE infos == [j \in 1 .. Len(q.pois) |-> [info |-> [is |-> "unset"], by |-> "", at |-> now, of |-> 0]]
             n == [pc |-> "block", b |-> 1, i |-> 1, pois |-> q.pois, wanted |-> q.wanted, feeds |-> <<>>, hasFeeds |-> q.feeds,
                   used |-> {}, by |-> "", token |-> Parking!Null, refusedAt |-> Parking!Never, infos |-> infos]
  <1>3. work' = [work EXCEPT ![w] = n]
    BY <1>2, Zenon
  <1>4. \A i \in DOMAIN infos : infos[i].of = 0
    OBVIOUS
  <1>5. q.pois \in Seq(DOMAIN Pois)
    BY DEF ParkingSettings
  <1> HIDE DEF infos
  <1>6. /\ DOMAIN n = Fields /\ n.pc = "block" /\ n.b = 1 /\ n.i = 1 /\ n.pois = q.pois
        /\ n.refusedAt = Parking!Never /\ n.infos = infos
    BY DEF Fields
  <1> HIDE DEF n
  <1>7. RequestOK(n)
    BY <1>4, <1>5, <1>6 DEF RequestOK, ShownOK
  <1>8. RequestsInv' /\ DOMAIN work' = Workers
    BY <1>0, <1>1, <1>3, <1>7, RequestsKeep
  <1>9. KeptInv' /\ LocalsInv'
    BY <1>0, <1>1, SameKept, SameLocals
  <1> QED BY <1>0, <1>1, <1>8, <1>9 DEF ParkingInv, ServiceInv, Still

\* What services did until now stays true of them, when they publish and revoke.
Past ==
  /\ \A p \in DOMAIN Args : \A t \in Int : \A v : t <= now /\ PublishedSince(p, v, t) => PublishedSince(p, v, t)'
  /\ \A p \in DOMAIN Args : \A t \in Int : \A e : t <= now /\ TakenSince(p, e, t) => TakenSince(p, e, t)'
  /\ \A p \in DOMAIN Args : revoked'[p] = revoked[p] \/ revoked'[p] = now

LEMMA PastKeeps ==
    ASSUME ParkingSettings, ParkingInv, Past, ServiceInv',
           work' = work, cache' = cache, local' = local, now' = now
    PROVE  ParkingInv'
  <1>0. /\ ServiceInv /\ KeptInv /\ LocalsInv /\ RequestsInv /\ now \in Nat
        /\ RedisTimeout \in Nat \ {0} /\ TokenTimeout \in Nat \ {0} /\ Interval \in Nat
    BY DEF ParkingInv, ServiceInv, ParkingSettings
  <1>1. ASSUME NEW k \in Parking!Keys, NEW e, KeptOK(k, e) PROVE KeptOK(k, e)'
    <2>1. k[2] \in DOMAIN Args
      BY DEF Parking!Keys
    <2>2. CASE e.kind = "entry" /\ IsToken(k)
      <3>1. e.left \in Nat \ {0} /\ e.left <= TokenTimeout
        BY <1>1, <2>2 DEF KeptOK
      <3>2. now - (TokenTimeout - e.left) \in Int /\ now - (TokenTimeout - e.left) <= now
        BY <1>0, <3>1
      <3>3. TakenSince(k[2], e.value.v, now - (TokenTimeout - e.left))
        BY <1>1, <2>2 DEF KeptOK
      <3>4. TakenSince(k[2], e.value.v, now - (TokenTimeout - e.left))'
        BY <2>1, <3>2, <3>3 DEF Past, TakenSince
      <3> QED BY <1>1, <2>2, <3>4 DEF KeptOK, IsToken
    <2>3. CASE e.kind = "entry" /\ ~IsToken(k)
      <3>1. e.left \in Nat \ {0} /\ e.left <= RedisTimeout
        BY <1>1, <2>3 DEF KeptOK
      <3>2. now - (RedisTimeout - e.left) \in Int /\ now - (RedisTimeout - e.left) <= now
        BY <1>0, <3>1
      <3>3. PublishedSince(k[2], e.value.v, now - (RedisTimeout - e.left))
        BY <1>1, <2>3 DEF KeptOK
      <3>4. PublishedSince(k[2], e.value.v, now - (RedisTimeout - e.left))'
        BY <2>1, <3>2, <3>3 DEF Past, PublishedSince
      <3> QED BY <1>1, <2>3, <3>4 DEF KeptOK, IsToken
    <2> QED BY <1>1, <2>2, <2>3 DEF KeptOK
  <1>2. KeptInv'
    BY <1>0, <1>1 DEF KeptInv, Parking!Keys
  <1>3. ASSUME NEW p \in DOMAIN Args, NEW l, LocalOK(p, l) PROVE LocalOK(p, l)'
    <2>1. CASE l.data.kind = "data"
      <3>1. l.at \in Int /\ l.at <= now /\ PublishedSince(p, l.data.v, l.at - RedisTimeout)
        BY <1>3, <2>1 DEF LocalOK
      <3>2. l.at - RedisTimeout \in Int /\ l.at - RedisTimeout <= now
        BY <1>0, <3>1
      <3>3. PublishedSince(p, l.data.v, l.at - RedisTimeout)'
        BY <3>1, <3>2 DEF Past, PublishedSince
      <3> QED BY <3>1, <3>3 DEF LocalOK
    <2> QED BY <2>1 DEF LocalOK
  <1>4. LocalsInv'
    BY <1>0, <1>3 DEF LocalsInv
  <1>5. ASSUME NEW x, ShownOK(x) PROVE ShownOK(x)'
    <2>1. CASE x.of # 0
      <3>1. x.by \in DOMAIN Args /\ x.at \in Int /\ x.at <= now /\ PublishedSince(x.by, x.of, x.at - Parking!Stale(x.by))
        BY <1>5, <2>1 DEF ShownOK
      <3>2. PICK s : s = Parking!Stale(x.by) /\ s \in Nat
        BY StaleIsTime
      <3>3. x.at - s \in Int /\ x.at - s <= now
        BY <1>0, <3>1, <3>2
      <3>4. PublishedSince(x.by, x.of, x.at - s)'
        BY <3>1, <3>2, <3>3 DEF Past, PublishedSince
      <3> QED BY <3>1, <3>2, <3>4 DEF ShownOK, Parking!Stale
    <2> QED BY <2>1 DEF ShownOK
  <1>6. ASSUME NEW r, RequestOK(r) PROVE RequestOK(r)'
    <2>1. /\ DOMAIN r = Fields /\ r.pois \in Seq(DOMAIN Pois) /\ r.i \in Nat \ {0} /\ r.b \in Nat \ {0}
          /\ r.pc \in {"block", "poi", "auth", "call", "done"}
          /\ r.pc \in {"poi", "auth", "call"} => r.b <= Len(Blocks)
          /\ r.pc \in {"auth", "call"} => r.by \in DOMAIN Args
          /\ r.pc = "auth" => Parking!Class(r.by) = "cykleo"
      BY <1>6 DEF RequestOK
    <2>2. r.pc = "call" /\ Parking!Class(r.by) = "cykleo" /\ r.token # Parking!Null => TakenSince(r.by, r.token, now - TokenTimeout)'
      <3>1. now - TokenTimeout \in Int /\ now - TokenTimeout <= now
        BY <1>0
      <3>2. r.pc = "call" /\ Parking!Class(r.by) = "cykleo" /\ r.token # Parking!Null => TakenSince(r.by, r.token, now - TokenTimeout)
        BY <1>6 DEF RequestOK
      <3> QED BY <2>1, <3>1, <3>2 DEF Past, TakenSince
    <2>3. r.refusedAt # Parking!Never =>
            /\ r.refusedAt \in Int /\ r.refusedAt <= now'
            /\ \E p \in DOMAIN Args : Parking!Class(p) = "cykleo" /\ revoked'[p] >= r.refusedAt - TokenTimeout
      <3> SUFFICES ASSUME r.refusedAt # Parking!Never
                   PROVE  /\ r.refusedAt \in Int /\ r.refusedAt <= now'
                          /\ \E p \in DOMAIN Args : Parking!Class(p) = "cykleo" /\ revoked'[p] >= r.refusedAt - TokenTimeout
        OBVIOUS
      <3>1. PICK p \in DOMAIN Args : Parking!Class(p) = "cykleo" /\ revoked[p] >= r.refusedAt - TokenTimeout
        BY <1>6 DEF RequestOK
      <3>2. r.refusedAt \in Int /\ r.refusedAt <= now
        BY <1>6 DEF RequestOK
      <3>3. revoked'[p] = revoked[p] \/ revoked'[p] = now
        BY DEF Past
      <3>4. revoked'[p] >= r.refusedAt - TokenTimeout
        BY <1>0, <3>1, <3>2, <3>3
      <3> QED BY <3>1, <3>2, <3>4
    <2>4. \A i \in DOMAIN r.infos : ShownOK(r.infos[i])'
      BY <1>5, <1>6 DEF RequestOK, ShownOK
    <2> QED BY <2>1, <2>2, <2>3, <2>4 DEF RequestOK, Parking!Class, Parking!Null, Parking!Never
  <1>7. RequestsInv'
    BY <1>0, <1>6 DEF RequestsInv, Parking!Idle
  <1> QED BY <1>2, <1>4, <1>7 DEF ParkingInv

LEMMA PublishKeeps ==
    ASSUME ParkingSettings, ParkingInv, NEW q \in DOMAIN Args, Parking!Publish(q)
    PROVE  ParkingInv'
  <1>1. ServiceInv /\ now \in Nat /\ MaxVersion \in Nat \ {0} /\ version \in [DOMAIN Args -> 1 .. MaxVersion]
    BY DEF ParkingInv, ServiceInv, ParkingSettings
  <1>2. /\ version[q] < MaxVersion /\ version' = [version EXCEPT ![q] = version[q] + 1]
        /\ replaced' = [replaced EXCEPT ![q] = [replaced[q] EXCEPT ![version[q]] = now]]
        /\ work' = work /\ cache' = cache /\ local' = local /\ epoch' = epoch /\ revoked' = revoked /\ now' = now
    BY DEF Parking!Publish, ServiceInv, ParkingInv
  <1>3. /\ version' \in [DOMAIN Args -> 1 .. MaxVersion] /\ version'[q] = version[q] + 1
        /\ \A p \in DOMAIN Args : p # q => version'[p] = version[p] /\ replaced'[p] = replaced[p]
    BY <1>1, <1>2 DEF ServiceInv
  <1>4. PICK old : old = replaced[q] /\ old \in [0 .. MaxVersion -> Int]
    BY <1>1 DEF ServiceInv
  <1>5. replaced'[q] = [old EXCEPT ![version[q]] = now]
    BY <1>1, <1>2, <1>4 DEF ServiceInv
  <1>6. /\ replaced'[q] \in [0 .. MaxVersion -> Int] /\ replaced'[q][version[q]] = now
        /\ \A v \in 0 .. MaxVersion : v # version[q] => replaced'[q][v] = old[v]
    BY <1>1, <1>4, <1>5
  <1>7. replaced' \in [DOMAIN Args -> [0 .. MaxVersion -> Int]]
    BY <1>1, <1>2, <1>6 DEF ServiceInv
  <1>8. ServiceInv'
    BY <1>1, <1>2, <1>3, <1>7 DEF ServiceInv, Parking!Keys, Parking!Processes
  <1>9. ASSUME NEW p \in DOMAIN Args, NEW t \in Int, NEW v, t <= now, PublishedSince(p, v, t)
        PROVE  PublishedSince(p, v, t)'
    <2>1. CASE p # q
      BY <1>3, <1>9, <2>1 DEF PublishedSince
    <2>2. CASE p = q
      <3>1. version[q] \in 1 .. MaxVersion /\ v \in 0 .. version[q] /\ (v = 0 \/ v = version[q] \/ old[v] >= t)
        BY <1>1, <1>4, <1>9, <2>2 DEF PublishedSince
      <3>2. v \in 0 .. version'[q]
        BY <1>1, <1>3, <3>1
      <3>3. v = 0 \/ replaced'[q][v] >= t
        <4>1. CASE v = version[q]
          BY <1>1, <1>6, <1>9, <4>1
        <4>2. CASE v # version[q]
          <5>1. v \in 0 .. MaxVersion /\ (v = 0 \/ old[v] >= t)
            BY <1>1, <3>1, <4>2
          <5> QED BY <1>6, <4>2, <5>1
        <4> QED BY <4>1, <4>2
      <3> QED BY <2>2, <3>2, <3>3 DEF PublishedSince
    <2> QED BY <2>1, <2>2
  <1>10. Past
    BY <1>2, <1>9 DEF Past, TakenSince
  <1> QED BY <1>2, <1>8, <1>10, PastKeeps

LEMMA RevokeKeeps ==
    ASSUME ParkingSettings, ParkingInv, NEW q \in DOMAIN Args, Parking!Revoke(q)
    PROVE  ParkingInv'
  <1>1. ServiceInv /\ now \in Nat /\ epoch \in [DOMAIN Args -> Nat] /\ revoked \in [DOMAIN Args -> Int]
    BY DEF ParkingInv, ServiceInv
  <1>2. /\ epoch' = [epoch EXCEPT ![q] = epoch[q] + 1] /\ revoked' = [revoked EXCEPT ![q] = now]
        /\ work' = work /\ cache' = cache /\ local' = local /\ version' = version /\ replaced' = replaced /\ now' = now
    BY DEF Parking!Revoke
  <1>3. /\ epoch' \in [DOMAIN Args -> Nat] /\ revoked' \in [DOMAIN Args -> Int] /\ revoked'[q] = now
        /\ \A p \in DOMAIN Args : p # q => epoch'[p] = epoch[p] /\ revoked'[p] = revoked[p]
    BY <1>1, <1>2
  <1>4. ServiceInv'
    BY <1>1, <1>2, <1>3 DEF ServiceInv, Parking!Keys, Parking!Processes
  <1>5. Past
    BY <1>1, <1>2, <1>3 DEF Past, TakenSince, PublishedSince
  <1> QED BY <1>2, <1>4, <1>5, PastKeeps

\* Time passes while nobody waits for an answer: what is cached is one older, and has one less left.
LEMMA TickKeeps ==
    ASSUME ParkingSettings, ParkingInv, Parking!Tick
    PROVE  ParkingInv'
  <1>0. /\ ServiceInv /\ KeptInv /\ LocalsInv /\ RequestsInv /\ now \in Nat /\ DOMAIN cache = Parking!Keys
        /\ RedisTimeout \in Nat \ {0} /\ TokenTimeout \in Nat \ {0}
    BY DEF ParkingInv, ServiceInv, ParkingSettings
  <1>1. /\ now' = now + 1 /\ cache' = Parking!Aged(cache) /\ work' = work /\ local' = local
        /\ version' = version /\ replaced' = replaced /\ epoch' = epoch /\ revoked' = revoked
        /\ \A w \in Workers : work[w].pc \notin {"auth", "call"}
    BY DEF Parking!Tick
  <1>2. /\ DOMAIN cache' = Parking!Keys
        /\ \A k \in Parking!Keys : cache'[k] = IF cache[k].kind = "absent" \/ cache[k].left = 1 THEN Parking!Absent
                                               ELSE [cache[k] EXCEPT !.left = cache[k].left - 1]
    BY <1>0, <1>1 DEF Parking!Aged
  <1>3. ASSUME NEW k \in Parking!Keys PROVE KeptOK(k, cache[k])'
    <2>1. CASE cache[k].kind = "absent" \/ cache[k].left = 1
      <3>1. cache'[k].kind = "absent"
        BY <1>2, <1>3, <2>1 DEF Parking!Absent
      <3> QED BY <3>1 DEF KeptOK
    <2>2. CASE ~(cache[k].kind = "absent" \/ cache[k].left = 1)
      <3>1. PICK e : e = cache[k]
        OBVIOUS
      <3>2. KeptOK(k, e) /\ e.kind # "absent" /\ e.left # 1
        BY <1>0, <1>3, <2>2, <3>1 DEF KeptInv
      <3>3. e.kind = "entry" /\ e = Parking!Entry(e.value, e.left) /\ e.left \in Nat \ {0} /\ e.value.kind = "data"
        BY <3>2 DEF KeptOK
      <3>4. PICK n : n = cache'[k] /\ n = [e EXCEPT !.left = e.left - 1]
        BY <1>2, <1>3, <2>2, <3>1
      <3>5. e.left - 1 \in Nat \ {0}
        BY <3>2, <3>3
      <3>6. n = Parking!Entry(e.value, e.left - 1) /\ n.kind = "entry" /\ n.value = e.value /\ n.left = e.left - 1
        <4>1. PICK v, l : v = e.value /\ l = e.left
          OBVIOUS
        <4>2. e = Parking!Entry(v, l)
          BY <3>3, <4>1
        <4>3. n = [e EXCEPT !.left = l - 1]
          BY <3>4, <4>1
        <4>4. n = Parking!Entry(v, l - 1)
          BY <4>2, <4>3 DEF Parking!Entry
        <4>5. n.kind = "entry" /\ n.value = v /\ n.left = l - 1
          BY <4>4 DEF Parking!Entry
        <4> QED BY <4>1, <4>4, <4>5
      <3>7. n = Parking!Entry(n.value, n.left)
        BY <3>6, Zenon
      <3>8. IsToken(k) => n.left <= TokenTimeout /\ now' - (TokenTimeout - n.left) = now - (TokenTimeout - e.left)
        <4> SUFFICES ASSUME IsToken(k) PROVE n.left <= TokenTimeout /\ now' - (TokenTimeout - n.left) = now - (TokenTimeout - e.left)
          OBVIOUS
        <4>1. e.left <= TokenTimeout
          BY <3>2, <3>3 DEF KeptOK
        <4> QED BY <1>0, <1>1, <3>3, <3>6, <4>1
      <3>9. ~IsToken(k) => n.left <= RedisTimeout /\ now' - (RedisTimeout - n.left) = now - (RedisTimeout - e.left)
        <4> SUFFICES ASSUME ~IsToken(k) PROVE n.left <= RedisTimeout /\ now' - (RedisTimeout - n.left) = now - (RedisTimeout - e.left)
          OBVIOUS
        <4>1. e.left <= RedisTimeout
          BY <3>2, <3>3 DEF KeptOK
        <4> QED BY <1>0, <1>1, <3>3, <3>6, <4>1
      <3>10. IsToken(k) => TakenSince(k[2], n.value.v, now - (TokenTimeout - n.left))'
        <4>1. IsToken(k) => TakenSince(k[2], e.value.v, now - (TokenTimeout - e.left))
          BY <3>2, <3>3 DEF KeptOK
        <4> QED BY <1>1, <3>6, <3>8, <4>1 DEF TakenSince
      <3>11. ~IsToken(k) => PublishedSince(k[2], n.value.v, now - (RedisTimeout - n.left))'
        <4>1. ~IsToken(k) => PublishedSince(k[2], e.value.v, now - (RedisTimeout - e.left))
          BY <3>2, <3>3 DEF KeptOK
        <4> QED BY <1>1, <3>6, <3>9, <4>1 DEF PublishedSince
      <3>12. KeptOK(k, n)'
        BY <3>3, <3>5, <3>6, <3>7, <3>8, <3>9, <3>10, <3>11 DEF KeptOK, IsToken
      <3> QED BY <3>4, <3>12 DEF KeptOK
    <2> QED BY <2>1, <2>2
  <1>4. KeptInv'
    BY <1>3 DEF KeptInv, Parking!Keys
  <1>5. LocalsInv'
    BY <1>0, <1>1 DEF LocalsInv, LocalOK, PublishedSince
  <1>6. ASSUME NEW r, RequestOK(r), r.pc \notin {"auth", "call"} PROVE RequestOK(r)'
    <2>1. \A i \in DOMAIN r.infos : ShownOK(r.infos[i])'
      BY <1>0, <1>1, <1>6 DEF RequestOK, ShownOK, PublishedSince, Parking!Stale
    <2> QED BY <1>0, <1>1, <1>6, <2>1 DEF RequestOK
  <1>7. RequestsInv'
    BY <1>0, <1>1, <1>6 DEF RequestsInv, Parking!Idle
  <1>8. ServiceInv'
    BY <1>0, <1>1, <1>2 DEF ServiceInv, Parking!Keys, Parking!Processes
  <1> QED BY <1>4, <1>5, <1>7, <1>8 DEF ParkingInv

LEMMA ParkingStarts ==
    ASSUME ParkingSettings, Parking!Init
    PROVE  ParkingInv
  <1>1. ServiceInv
    BY DEF ParkingSettings, Parking!Init, ServiceInv, Parking!Empty, Parking!Never
  <1>2. KeptInv
    BY DEF Parking!Init, KeptInv, KeptOK, Parking!Empty, Parking!Absent
  <1>3. LocalsInv
    BY DEF Parking!Init, LocalsInv, LocalOK, Parking!Nothing
  <1>4. RequestsInv
    BY DEF Parking!Init, RequestsInv
  <1> QED BY <1>1, <1>2, <1>3, <1>4 DEF ParkingInv

LEMMA ParkingSteps ==
    ASSUME ParkingSettings, ParkingInv, [Parking!Next]_Parking!vars
    PROVE  ParkingInv'
  <1>1. CASE UNCHANGED Parking!vars
    BY <1>1 DEF Parking!vars, ParkingInv, ServiceInv, KeptInv, KeptOK, LocalsInv, LocalOK, RequestsInv, RequestOK, ShownOK,
                PublishedSince, TakenSince, Parking!Idle
  <1>2. ASSUME NEW w \in Workers, Parking!Begin(w) \/ Parking!Step(w) PROVE ParkingInv'
    BY <1>2, BeginKeeps, QuietKeeps, VisitKeeps, TokenKeeps, CallKeeps DEF Parking!Step
  <1>3. ASSUME NEW p \in DOMAIN Args, Parking!Publish(p) \/ Parking!Revoke(p) PROVE ParkingInv'
    BY <1>3, PublishKeeps, RevokeKeeps
  <1>4. CASE Parking!Tick
    BY <1>4, TickKeeps
  <1> QED BY <1>1, <1>2, <1>3, <1>4 DEF Parking!Next

LEMMA ParkingInductive ==
    ASSUME ParkingSettings
    PROVE  Parking!Spec => []ParkingInv
  <1>1. Parking!Init => ParkingInv
    BY ParkingStarts
  <1>2. ParkingInv /\ [Parking!Next]_Parking!vars => ParkingInv'
    BY ParkingSteps
  <1> QED BY <1>1, <1>2, PTL DEF Parking!Spec

\* The places shown are at most as old as the caches they went through let
\* them be (memoize of _call_webservice, _update_interval of jcdecaux): for
\* any providers and responses, however many workers and processes fill the
\* shared cache, and whichever calls fail.
THEOREM ShownPlacesAreRecent ==
    ASSUME ParkingSettings
    PROVE  Parking!Spec => []Parking!ShownIsRecent
  <1>1. ParkingInv => Parking!ShownIsRecent
    BY DEF ParkingInv, RequestsInv, RequestOK, ShownOK, PublishedSince, Parking!ShownIsRecent, Parking!Idle
  <1> QED BY <1>1, ParkingInductive, PTL

\* A token of cykleo that its service refuses was revoked at most as long ago
\* as get_access_token is memoized.
THEOREM TokensAreRenewed ==
    ASSUME ParkingSettings
    PROVE  Parking!Spec => []Parking!TokenIsRenewed
  <1>1. ASSUME ParkingInv PROVE Parking!TokenIsRenewed
    <2>1. TokenTimeout \in Nat /\ \A p \in DOMAIN Args : revoked[p] \in Int
      BY <1>1 DEF ParkingSettings, ParkingInv, ServiceInv
    <2> SUFFICES ASSUME NEW w \in Workers, "refusedAt" \in DOMAIN work[w], work[w].refusedAt # Parking!Never
                 PROVE  \E p \in DOMAIN Args : Parking!Class(p) = "cykleo" /\ work[w].refusedAt - revoked[p] <= TokenTimeout
      BY DEF Parking!TokenIsRenewed
    <2>2. RequestOK(work[w])
      BY <1>1 DEF ParkingInv, RequestsInv, Parking!Idle
    <2> QED BY <2>1, <2>2 DEF RequestOK
  <1> QED BY <1>1, ParkingInductive, PTL
=============================================================================
