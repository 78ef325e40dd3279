---------------------------- MODULE MCLiveness -----------------------------
(***************************************************************************)
(* What must happen in the end, for TLC: the jobs of tyr, the managers     *)
(* that follow its tables, and the calls of jormungandr.  A behaviour runs *)
(* one scenario, an instance of one component.                             *)
(***************************************************************************)
EXTENDS Integers, Sequences, TLC

CONSTANT Scenarios   \* the scenarios of the run

VARIABLES
  scenario,   \* the one that this behaviour runs
  \* TyrJobs
  source, backups, jobs, datasets, scan, chains, lock, purge, loaded, nav, served, overran,
  abandoned,
  \* ProviderManagers
  kind, table, assoc, models, due, built, broken, last, legacy, raised,
  \* KrakenClient
  sockets, call, breaker, inst, kraken, ping, now, calls, breaks, downs,
  \* StatManager
  thread, producer, rabbit, published,
  \* RateLimiter
  log, logLeft, block, proc, granted,
  \* RealtimeSchedule
  api, from, phase, task, board, total, cache,
  \* ExternalServices
  req, version, replaced

vars ==
  <<scenario, source, backups, jobs, datasets, scan, chains, lock, purge, loaded, nav, served,
    overran, abandoned, kind, table, assoc, models, due, built, broken, last, legacy, raised,
    sockets, call, breaker, inst, kraken, ping, now, calls, breaks, downs, thread, producer, rabbit,
    published, log, logLeft, block, proc, granted, api, from, phase, task, board, total, cache, req,
    version, replaced>>

\* The variables of the components that a scenario does not run are off.
Off == "off"
NoJobs ==
  /\ source = Off /\ backups = Off /\ jobs = Off /\ datasets = Off /\ scan = Off /\ chains = Off
  /\ purge = Off /\ loaded = Off /\ nav = Off /\ overran = Off /\ abandoned = Off
NoManagers ==
  /\ kind = Off /\ table = Off /\ assoc = Off /\ models = Off /\ due = Off /\ built = Off
  /\ broken = Off /\ last = Off /\ legacy = Off /\ raised = Off
NoClient == sockets = Off /\ call = Off /\ inst = Off /\ kraken = Off /\ ping = Off /\ breaks = Off
NoStatistics == thread = Off /\ producer = Off /\ rabbit = Off /\ published = Off
NoLimiter == log = Off /\ logLeft = Off /\ block = Off /\ proc = Off /\ granted = Off
NoRealtime == api = Off /\ from = Off /\ phase = Off /\ task = Off /\ board = Off /\ total = Off
NoExternal == req = Off /\ version = Off /\ replaced = Off
jobsVars == <<source, backups, jobs, datasets, scan, chains, purge, loaded, nav, overran, abandoned>>
managersVars == <<kind, table, assoc, models, due, built, broken, last, legacy, raised>>
clientVars == <<sockets, call, inst, kraken, ping, breaks>>
statisticsVars == <<thread, producer, rabbit, published>>
limiterVars == <<log, logLeft, block, proc, granted>>
realtimeVars == <<api, from, phase, task, board, total>>
externalVars == <<req, version, replaced>>

OnlyJobs ==
  /\ NoManagers /\ NoClient /\ NoStatistics /\ NoLimiter /\ NoRealtime /\ NoExternal
  /\ breaker = Off /\ now = Off /\ calls = Off /\ downs = Off /\ cache = Off
notJobs ==
  <<scenario, managersVars, clientVars, statisticsVars, limiterVars, realtimeVars, externalVars,
    breaker, now, calls, downs, cache>>
OnlyManagers ==
  /\ NoJobs /\ NoClient /\ NoStatistics /\ NoLimiter /\ NoRealtime /\ NoExternal /\ lock = Off
  /\ served = Off /\ breaker = Off /\ now = Off /\ calls = Off /\ downs = Off /\ cache = Off
notManagers ==
  <<scenario, jobsVars, clientVars, statisticsVars, limiterVars, realtimeVars, externalVars, lock,
    served, breaker, now, calls, downs, cache>>
OnlyClient ==
  /\ NoJobs /\ NoManagers /\ NoStatistics /\ NoLimiter /\ NoRealtime /\ NoExternal /\ lock = Off
  /\ served = Off /\ cache = Off
notClient ==
  <<scenario, jobsVars, managersVars, statisticsVars, limiterVars, realtimeVars, externalVars, lock,
    served, cache>>
OnlyStatistics ==
  /\ NoJobs /\ NoManagers /\ NoClient /\ NoLimiter /\ NoRealtime /\ NoExternal /\ served = Off
  /\ cache = Off
notStatistics ==
  <<scenario, jobsVars, managersVars, clientVars, limiterVars, realtimeVars, externalVars, served,
    cache>>
OnlyLimiter ==
  /\ NoJobs /\ NoManagers /\ NoClient /\ NoStatistics /\ NoRealtime /\ NoExternal /\ served = Off
  /\ breaker = Off /\ now = Off /\ calls = Off /\ downs = Off /\ cache = Off
notLimiter ==
  <<scenario, jobsVars, managersVars, clientVars, statisticsVars, realtimeVars, externalVars,
    served, breaker, now, calls, downs, cache>>
OnlyRealtime ==
  /\ NoJobs /\ NoManagers /\ NoClient /\ NoStatistics /\ NoLimiter /\ NoExternal /\ lock = Off
  /\ now = Off /\ calls = Off /\ downs = Off
notRealtime ==
  <<scenario, jobsVars, managersVars, clientVars, statisticsVars, limiterVars, externalVars, lock,
    now, calls, downs>>
OnlyExternal ==
  /\ NoJobs /\ NoManagers /\ NoClient /\ NoStatistics /\ NoLimiter /\ NoRealtime /\ lock = Off
  /\ calls = Off /\ downs = Off
notExternal ==
  <<scenario, jobsVars, managersVars, clientVars, statisticsVars, limiterVars, realtimeVars, lock,
    calls, downs>>
-----------------------------------------------------------------------------
Answer(code, deps) == [status |-> code, body |-> "data", deps |-> deps]
Departure(rp, t) == [rp |-> rp, time |-> t, rt |-> TRUE, toDest |-> TRUE]
Vehicle(code) ==
  [codes |-> <<[type |-> "source", value |-> code]>>, stop |-> <<>>, pc |-> "waiting", position |-> "", of |-> 0, at |-> 0]
StatCall ==
  [id |-> 1, api |-> "lines", args |-> {}, journeys |-> <<>>, error |-> "", coverages |-> {}, filter |-> <<>>,
   user |-> "u", forwarded |-> <<>>, address |-> "ip", items |-> 1, wellFormed |-> TRUE]

\* Two jobs of tyr, with tasks that fail, outlive their lock or die with their worker.
Imports == INSTANCE TyrJobs WITH
  Files <- {"f1", "f2"}, FileType <- "f1" :> "fusio" @@ "f2" :> "osm", LokiMinio <- FALSE,
  AsgardBucket <- FALSE, AutocompleteVersions <- {}, ImportNtfs <- FALSE, ImportStops <- FALSE,
  Scanners <- {"s1"}, NbToKeep <- 1, MaxRetries <- 1, LockMayExpire <- TRUE, RedisMayFail <- FALSE,
  WorkersMayDie <- TRUE, TasksMayFail <- TRUE, Commands <- {}, MaxJobs <- 2
\* A manager that reads the rows of its instance, through a view that may be old.
Managed == INSTANCE ProviderManagers WITH
  Rows <- <<"r1", "r2">>, Kinds <- {"realtime"}, Config <- {}, Classes <- {"good"}, MaxVersion <- 2
\* The managers that read their table, with classes that raise.
Tables == INSTANCE ProviderManagers WITH
  Rows <- <<"r1", "r2">>, Kinds <- {"bss", "street_network"}, Config <- {},
  Classes <- {"good", "raises"}, MaxVersion <- 2
\* A kraken that stops once, a request and the thread that pings it.
Kraken == INSTANCE KrakenClient WITH
  FailMax <- 2, ResetTimeout <- 2, Greenlets <- {"a"}, Ttl <- 2, Timeout <- 1,
  Apis <- {"metadatas", "other"}, MaxSockets <- 2, MaxVersion <- 1, MaxNow <- 2, MaxCalls <- 1,
  MaxBreaks <- 1, MaxDowns <- 1
\* Two threads that share the lock of the producer, and a broker that stops once.
Broker == INSTANCE StatManager WITH
  FailMax <- 2, ResetTimeout <- 1, Threads <- {"t", "u"}, Calls <- {StatCall}, SaveStat <- TRUE,
  KnownTags <- {"best"}, MaxNow <- 1, MaxCalls <- 3, MaxDowns <- 1
\* A process that waits for its turn.
Alone == INSTANCE RateLimiter WITH
  Conditions <- <<[requests |-> 2, seconds |-> 3]>>, Processes <- {"p"}, Patient <- {"p"},
  Blocks <- {}, LockTimeout <- 2, InTime <- TRUE
\* Three realtime calls through a pool of one.
Boards == INSTANCE RealtimeSchedule WITH
  RoutePoints <- {"a", "b", "c"},
  SystemOf <- "a" :> "siri_lite" @@ "b" :> "siri_lite" @@ "c" :> "synthese",
  LineOf <- "a" :> "l1" @@ "b" :> "l1" @@ "c" :> "l2",
  StopOf <- "a" :> "s1" @@ "b" :> "s1" @@ "c" :> "s2",
  BaseTimes <- "a" :> <<1, 3>> @@ "b" :> <<2>> @@ "c" :> <<2>>,
  CodesOf <- [rp \in {"a", "b", "c"} |-> IF rp = "a" THEN {"stop"} ELSE {"stop", "line", "route"}],
  Responses <- {Answer(200, <<Departure("a", 0), Departure("b", 3)>>), Answer(503, <<>>)},
  PoolSize <- 1, FailMax <- 2, Limited <- {"synthese"}, Count <- 4, ItemsPerSchedule <- 2,
  Froms <- {0, 8}, Duration <- 2, DayEnd <- 8, Step <- 2, MaxRequests <- 1
\* Three positions through a pool of two.
Positions == INSTANCE ExternalServices WITH
  FailMax <- 2, ResetTimeout <- 1, MemoryTimeout <- 1, RedisTimeout <- 1, PoolSize <- 2,
  Providers <- <<>>, Published <- "forseti" :> << "a" :> "x1" @@ "b" :> "y1" >>,
  Faults <- {"timeout"}, MaxVersion <- 1, MaxNow <- 1, MaxRequests <- 2,
  Requests <- {[api |-> "vehicle_positions", items |-> <<Vehicle("a"), Vehicle("b"), Vehicle("c")>>, count |-> 5, given |-> <<>>]}
-----------------------------------------------------------------------------
Init ==
  /\ scenario \in Scenarios
  /\ \/ scenario = "jobs" /\ Imports!Init /\ OnlyJobs
     \/ scenario = "managers" /\ Managed!Init /\ OnlyManagers
     \/ scenario = "direct managers" /\ Tables!Init /\ OnlyManagers
     \/ scenario = "kraken" /\ Kraken!Init /\ OnlyClient
     \/ scenario = "statistics" /\ Broker!Init /\ OnlyStatistics
     \/ scenario = "limiter" /\ Alone!Init /\ OnlyLimiter
     \/ scenario = "realtime" /\ Boards!Init /\ OnlyRealtime
     \/ scenario = "vehicles" /\ Positions!Init /\ OnlyExternal

Next ==
  \/ scenario = "jobs" /\ Imports!Next /\ UNCHANGED notJobs
  \/ scenario = "managers" /\ Managed!Next /\ UNCHANGED notManagers
  \/ scenario = "direct managers" /\ Tables!Next /\ UNCHANGED notManagers
  \/ scenario = "kraken" /\ Kraken!Next /\ UNCHANGED notClient
  \/ scenario = "statistics" /\ Broker!Next /\ UNCHANGED notStatistics
  \/ scenario = "limiter" /\ Alone!Next /\ UNCHANGED notLimiter
  \/ scenario = "realtime" /\ Boards!Next /\ UNCHANGED notRealtime
  \/ scenario = "vehicles" /\ Positions!Next /\ UNCHANGED notExternal

Spec == Init /\ [][Next]_vars
\* Celery delivers every message it has queued, a worker ends every task it has started, and
\* redis forgets a key whose timeout is past.  Posts, commands and crons are not fair.
FairOfJobs(n) ==
  CASE n = 1 -> Imports!Scan("s1")
    [] n \in {2, 3} -> n - 1 \in DOMAIN jobs /\ Imports!Step(n - 1)
    [] n \in {4, 5} -> Imports!PurgeStart(n - 3)
    [] n = 6 -> Imports!PurgeSteps
    [] OTHER -> Imports!LockExpires

\* Greenlets run, time passes, and a kraken that is up answers; a kraken that stopped is started.
FairOfKraken(n) ==
  CASE n = 1 -> Kraken!thread_ping
    [] n = 2 -> Kraken!Answers
    [] n = 3 -> Kraken!Up
    [] n = 4 -> Kraken!Tick
    [] n = 5 -> Kraken!Progress("a")
    [] n = 6 -> Kraken!Progress("ping")
    [] OTHER -> FALSE

\* A greenlet of the pool runs, its call has a timeout, and its result is taken.
FairOfRealtime(n) ==
  CASE n \in {1, 2, 3} -> LET rp == <<"a", "b", "c">>[n] IN Boards!Spawn(rp) \/ Boards!Call(rp) \/ Boards!Merge(rp)
    [] n = 4 -> Boards!Finish
    [] OTHER -> FALSE

\* A step that stays possible is taken.
Weak(n) ==
  \/ scenario = "jobs" /\ FairOfJobs(n) /\ UNCHANGED notJobs
  \/ scenario = "kraken" /\ FairOfKraken(n) /\ UNCHANGED notClient
  \/ scenario = "realtime" /\ FairOfRealtime(n) /\ UNCHANGED notRealtime
  \* a memoized instance expires
  \/ n = 1 /\ scenario = "managers" /\ Managed!IntervalOver /\ UNCHANGED notManagers
  \/ n = 1 /\ scenario = "direct managers" /\ Tables!IntervalOver /\ UNCHANGED notManagers
  \* time passes, a process runs
  \/ n = 1 /\ scenario = "limiter" /\ Alone!Tick /\ UNCHANGED notLimiter
  \/ n = 2 /\ scenario = "limiter" /\ Alone!Step("p") /\ UNCHANGED notLimiter
  \* the other thread of the broker ends what it began
  \/ n = 1 /\ scenario = "statistics" /\ Broker!Step("u") /\ UNCHANGED notStatistics
  \* greenlets run, their calls have a timeout
  \/ n = 1 /\ scenario = "vehicles" /\ Positions!Work /\ UNCHANGED notExternal

\* A step that is possible again and again is taken: requests keep coming and the database
\* answers some of them; a thread that waits for a lock gets it.
Strong ==
  \/ scenario = "managers" /\ Managed!UpdateFresh /\ UNCHANGED notManagers
  \/ scenario = "direct managers" /\ Tables!UpdateFresh /\ UNCHANGED notManagers
  \/ scenario = "statistics" /\ Broker!Step("t") /\ UNCHANGED notStatistics

FairSpec == Spec /\ (\A n \in 1 .. 7 : WF_vars(Weak(n))) /\ SF_vars(Strong)
-----------------------------------------------------------------------------
\* Every job of tyr ends, done or failed, unless its chain was abandoned: its worker killed, out of
\* retries, or broken by an exception outside the try of a task (binarisation.py, tasks.py).
JobsEnd ==
  \A c \in 1 .. 2 :
    (scenario = "jobs" /\ chains[c].st # "none")
      ~> (scenario = "jobs" /\ (c \in abandoned \/ (c \in DOMAIN jobs /\ jobs[c].state # "running")))

\* Once tyr is left alone, a row that can be built is used as the database has it, whatever updates
\* failed before (provider managers); once kraken stays up, the thread that initialises its instance
\* ends (instance.py).
EventuallyCurrent ==
  /\ <>[][FALSE]_<<table, assoc>> =>
       <>[](scenario \in {"managers", "direct managers"} =>
              \A i \in {"r1", "r2"} : Managed!Wanted(i) /\ table[i].class = "good" => Managed!Serves(i))
  /\ <>[](scenario = "kraken" => kraken.up) => <>(scenario = "kraken" => ping = "off")

\* A call that begins comes back: to a kraken that stops, to a broker whose lock two threads want,
\* to a limiter that makes its caller wait, to realtime systems and to forseti through pools smaller
\* than the number of calls.
Begun ==
  \/ scenario = "kraken" /\ call["a"].pc = "call"
  \/ scenario = "statistics" /\ thread["t"].pc = "stat"
  \/ scenario = "limiter" /\ proc["p"].pc = "ping"
  \/ scenario = "realtime" /\ phase = "asking"
  \/ scenario = "vehicles" /\ req.pc = "vehicles"
Back ==
  \/ scenario = "kraken" /\ call["a"].pc = "idle"
  \/ scenario = "statistics" /\ thread["t"].pc = "idle"
  \/ scenario = "limiter" /\ proc["p"].pc = "idle"
  \/ scenario = "realtime" /\ phase = "merged"
  \/ scenario = "vehicles" /\ req.pc = "done"

\* Every call that begins comes back, under the fairness above (transient_socket.py,
\* stat_manager.py, rate limiter, schedule.py, vehicle_position.py).
CallsEnd == Begun ~> Back
=============================================================================
