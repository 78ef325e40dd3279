------------------------------- MODULE MCTyr -------------------------------
(***************************************************************************)
(* The components of tyr, and the managers of jormungandr that read its    *)
(* tables, for TLC.  A behaviour runs one scenario: TyrAccounts with the   *)
(* constants of the configuration, or an instance of one component, whose  *)
(* variables are the ones of the same names declared here.  Components     *)
(* that share a name are never run together.                               *)
(***************************************************************************)
EXTENDS TyrAccounts, Integers, Sequences, TLC

CONSTANT Scenarios   \* the scenarios of the run

VARIABLES
  scenario,   \* the one that this behaviour runs
  \* TyrJobs
  source, backups, jobs, datasets, scan, chains, lock, purge, loaded, nav, served, overran,
  abandoned,
  \* TyrAutocomplete
  params, depots, broker, deleting,
  \* TyrInstance
  row, crowfly, lists, put, answer, begun,
  \* ProviderManagers
  kind, table, assoc, models, due, built, broken, last, legacy, raised

mcVars ==
  <<scenario, source, backups, jobs, datasets, scan, chains, lock, purge, loaded, nav, served,
    overran, abandoned, params, depots, broker, deleting, endPoint, plan, user, keys, authorization,
    snBackend, instance, profile, poiTypes, req, row, crowfly, lists, put, answer, begun, kind,
    table, assoc, models, due, built, broken, last, legacy, raised>>

\* The variables of the components that a scenario does not run are off.
Off == "off"
NoJobs == datasets = Off /\ lock = Off /\ nav = Off /\ served = Off /\ overran = Off /\ abandoned = Off
NoAutocomplete == params = Off /\ depots = Off /\ broker = Off /\ deleting = Off
NoAccounts ==
  /\ endPoint = <<>> /\ plan = <<>> /\ user = <<>> /\ keys = {} /\ authorization = {} /\ snBackend = {}
  /\ instance = <<>> /\ profile = {} /\ poiTypes = {} /\ req = [r \in Requests |-> Idle]
NoInstance == row = Off /\ crowfly = Off /\ lists = Off /\ put = Off /\ answer = Off /\ begun = Off
NoManagers ==
  /\ kind = Off /\ table = Off /\ assoc = Off /\ models = Off /\ due = Off /\ built = Off
  /\ broken = Off /\ last = Off /\ legacy = Off /\ raised = Off
jobsVars == <<datasets, lock, nav, served, overran, abandoned>>
autocompleteVars == <<params, depots, broker, deleting>>
accountsVars == <<endPoint, plan, user, keys, authorization, snBackend, instance, profile, poiTypes, req>>
instanceVars == <<row, crowfly, lists, put, answer, begun>>
managersVars == <<kind, table, assoc, models, due, built, broken, last, legacy, raised>>

OnlyJobs == NoAutocomplete /\ NoAccounts /\ NoInstance /\ NoManagers
notJobs == <<scenario, autocompleteVars, accountsVars, instanceVars, managersVars>>
OnlyAutocomplete == NoJobs /\ NoAccounts /\ NoInstance /\ NoManagers
notAutocomplete == <<scenario, jobsVars, accountsVars, instanceVars, managersVars>>
OnlyAccounts ==
  /\ NoJobs /\ NoAutocomplete /\ NoInstance /\ NoManagers /\ source = Off /\ backups = Off
  /\ jobs = Off /\ scan = Off /\ chains = Off /\ purge = Off /\ loaded = Off
notAccounts ==
  <<scenario, jobsVars, autocompleteVars, instanceVars, managersVars, source, backups, jobs, scan,
    chains, purge, loaded>>
OnlyInstance ==
  /\ NoJobs /\ NoAutocomplete /\ NoAccounts /\ NoManagers /\ source = Off /\ backups = Off
  /\ jobs = Off /\ scan = Off /\ chains = Off /\ purge = Off /\ loaded = Off
notInstance ==
  <<scenario, jobsVars, autocompleteVars, accountsVars, managersVars, source, backups, jobs, scan,
    chains, purge, loaded>>
OnlyManagers ==
  /\ NoJobs /\ NoAutocomplete /\ NoAccounts /\ NoInstance /\ source = Off /\ backups = Off
  /\ jobs = Off /\ scan = Off /\ chains = Off /\ purge = Off /\ loaded = Off
notManagers ==
  <<scenario, jobsVars, autocompleteVars, accountsVars, instanceVars, source, backups, jobs, scan,
    chains, purge, loaded>>
-----------------------------------------------------------------------------


\* Public transport and osm data, with tasks that fail or outlive their lock, and both purges.
Imports == INSTANCE TyrJobs WITH
  Files <- {"f1", "f2"}, FileType <- "f1" :> "fusio" @@ "f2" :> "osm", LokiMinio <- FALSE,
  AsgardBucket <- FALSE, AutocompleteVersions <- {}, ImportNtfs <- FALSE, ImportStops <- FALSE,
  Scanners <- {"s1"}, NbToKeep <- 1, MaxRetries <- 1, LockMayExpire <- TRUE, RedisMayFail <- FALSE,
  WorkersMayDie <- FALSE, TasksMayFail <- TRUE, Commands <- {"purge_datasets", "purge_jobs"},
  MaxJobs <- 2
\* The jobs that an import creates for the autocomplete, with loki and the two versions of
\* mimir, and workers killed.
Mimir == INSTANCE TyrJobs WITH
  Files <- {"f1", "f2"}, FileType <- "f1" :> "fusio" @@ "f2" :> "poi", LokiMinio <- TRUE,
  AsgardBucket <- TRUE, AutocompleteVersions <- {2, 7}, ImportNtfs <- TRUE, ImportStops <- TRUE,
  Scanners <- {"s1"}, NbToKeep <- 1, MaxRetries <- 0, LockMayExpire <- FALSE, RedisMayFail <- FALSE,
  WorkersMayDie <- TRUE, TasksMayFail <- TRUE, Commands <- {}, MaxJobs <- 4
\* Reimports, rebuilds, reloads and deletions by command, with redis down.
Orders == INSTANCE TyrJobs WITH
  Files <- {"f1", "f2"}, FileType <- "f1" :> "poi" @@ "f2" :> "unknown", LokiMinio <- FALSE,
  AsgardBucket <- TRUE, AutocompleteVersions <- {7}, ImportNtfs <- FALSE, ImportStops <- TRUE,
  Scanners <- {"s1"}, NbToKeep <- 1, MaxRetries <- 1, LockMayExpire <- FALSE, RedisMayFail <- TRUE,
  WorkersMayDie <- FALSE, TasksMayFail <- FALSE,
  Commands <- {"import_last_dataset", "build_data", "reload_kraken", "delete_job", "delete_dataset"},
  MaxJobs <- 3
\* Two sets of public transport data and the purge that follows each, nothing failing.
Purge == INSTANCE TyrJobs WITH
  Files <- {"f1", "f2"}, FileType <- "f1" :> "fusio" @@ "f2" :> "gtfs", LokiMinio <- FALSE,
  AsgardBucket <- FALSE, AutocompleteVersions <- {}, ImportNtfs <- FALSE, ImportStops <- FALSE,
  Scanners <- {"s1"}, NbToKeep <- 1, MaxRetries <- 1, LockMayExpire <- FALSE, RedisMayFail <- FALSE,
  WorkersMayDie <- FALSE, TasksMayFail <- FALSE, Commands <- {}, MaxJobs <- 2
\* Admins, addresses and streets of one autocomplete instance, with purges and reimports.
MimirFiles == INSTANCE TyrAutocomplete WITH
  Instances <- {"i1"}, Files <- {"f1", "f2", "f3"}, Owner <- [f \in {"f1", "f2", "f3"} |-> "i1"],
  FileType <- "f1" :> "cosmogony" @@ "f2" :> "bano" @@ "f3" :> "osm", Versions <- {2, 7},
  Address <- "BANO", MaxBackups <- 1, Deletes <- FALSE, MaxJobs <- 3
\* Two autocomplete instances created, deleted and created again.
Depots == INSTANCE TyrAutocomplete WITH
  Instances <- {"i1", "i2"}, Files <- {"f2", "f3"}, Owner <- "f2" :> "i1" @@ "f3" :> "i2",
  FileType <- "f2" :> "oa" @@ "f3" :> "none", Versions <- {7}, Address <- "BANO", MaxBackups <- 1,
  Deletes <- TRUE, MaxJobs <- 2
\* Every creation and deletion of the account tables, in any order.
AllTables == INSTANCE TyrAccounts WITH
  EndPoints <- {"e1", "e2"}, Plans <- {"p1", "p2"}, Users <- {"u1"}, Logins <- {"l1"},
  Types <- {"with_free_instances"}, Tokens <- {"t1"}, Modes <- {}, Instances <- {"i1"},
  Profiles <- {"q1"}, Requests <- {"r1", "r2"}, NoOne <- "no one"
\* Two users who move between end points.
Movers == INSTANCE TyrAccounts WITH
  EndPoints <- {"e1", "e2"}, Plans <- {"p1"}, Users <- {"u1", "u2"}, Logins <- {"l1", "l2"},
  Types <- {"with_free_instances"}, Tokens <- {}, Modes <- {}, Instances <- {}, Profiles <- {},
  Requests <- {"r1", "r2"}, NoOne <- "no one"
\* The street network backends of two users, one request at a time.
Own == INSTANCE TyrAccounts WITH
  EndPoints <- {"e1"}, Plans <- {"p1"}, Users <- {"u1", "u2"}, Logins <- {"l1", "l2"},
  Types <- {"with_free_instances"}, Tokens <- {}, Modes <- {"m1", "m2", "m3"}, Instances <- {},
  Profiles <- {}, Requests <- {"r1", "r2"}, NoOne <- "no one"
\* Three requests, two of them together, that change an instance.
Parameters == INSTANCE TyrInstance WITH
  Puts <- {"p1", "p2"}, Given <- {"priority", "max_nb_journeys"}, GivenModes <- {"car", "bike"},
  GivenLists <- {"external_services"}, Services <- {"s1", "s2"}, Known <- {"s1"}, MaxPuts <- 3
\* Each of the arguments of an instance.
Arguments == INSTANCE TyrInstance WITH
  Puts <- {"p1"}, Given <- Parameters!Declared, GivenModes <- {"car"}, GivenLists <- {},
  Services <- {"s1", "s2"}, Known <- {"s1"}, MaxPuts <- 1
\* The eight managers over a table of two rows, with classes that raise.
Managers == INSTANCE ProviderManagers WITH
  Rows <- <<"r1", "r2">>,
  Kinds <- {"bss", "street_network", "bss_stations", "car_parking", "equipment", "external", "ridesharing", "realtime"},
  Config <- {"r1"}, Classes <- {"good", "raises"}, MaxVersion <- 2
-----------------------------------------------------------------------------
MCInit ==
  /\ scenario \in Scenarios
  /\ \/ scenario = "imports" /\ Imports!Init /\ OnlyJobs
     \/ scenario = "mimir" /\ Mimir!Init /\ OnlyJobs
     \/ scenario = "commands" /\ Orders!Init /\ OnlyJobs
     \/ scenario = "purge" /\ Purge!Init /\ OnlyJobs
     \/ scenario = "mimir files" /\ MimirFiles!Init /\ OnlyAutocomplete
     \/ scenario = "depots" /\ Depots!Init /\ OnlyAutocomplete
     \/ scenario = "tables" /\ AllTables!Init /\ OnlyAccounts
     \/ scenario = "users" /\ Movers!Init /\ OnlyAccounts
     \/ scenario = "puts" /\ Init /\ OnlyAccounts
     \/ scenario = "backends" /\ Own!Init /\ OnlyAccounts
     \/ scenario = "instance" /\ Parameters!Init /\ OnlyInstance
     \/ scenario = "arguments" /\ Arguments!Init /\ OnlyInstance
     \/ scenario = "managers" /\ Managers!Init /\ OnlyManagers

MCNext ==
  \/ scenario = "imports" /\ Imports!Next /\ UNCHANGED notJobs
  \/ scenario = "mimir" /\ Mimir!Next /\ UNCHANGED notJobs
  \/ scenario = "commands" /\ Orders!Next /\ UNCHANGED notJobs
  \/ scenario = "purge" /\ Purge!Next /\ UNCHANGED notJobs
  \/ scenario = "mimir files" /\ MimirFiles!Next /\ UNCHANGED notAutocomplete
  \/ scenario = "depots" /\ Depots!Next /\ UNCHANGED notAutocomplete
  \/ scenario = "tables" /\ (AllTables!Tables \/ AllTables!UsersOfTables) /\ UNCHANGED notAccounts
  \/ /\ scenario = "users" /\ UNCHANGED notAccounts
     /\ \/ \E u \in DOMAIN user : \E g \in Movers!OneField \cup {Echo(user[u])} : Movers!UserPut("r1", u, g)
        \/ Movers!UserPutCommit("r1")
        \/ \E e \in {"e1", "e2"} : Movers!EndPointPost(e) \/ Movers!EndPointDelete(e)
        \/ \E u \in {"u1", "u2"}, l \in {"l1", "l2"}, s \in Shapes :
             Movers!UserPost(u, l, "with_free_instances", "no one", "no one", "none", s)
        \/ \E u \in {"u1", "u2"} : Movers!UserDelete(u)
  \/ /\ scenario = "puts" /\ UNCHANGED notAccounts
     /\ \/ Puts
        \/ \E e \in EndPoints : EndPointPost(e) \/ EndPointDelete(e)
        \/ \E u \in Users, l \in Logins, s \in Shapes :
             UserPost(u, l, "with_free_instances", NoOne, NoOne, "none", s)
        \/ \E u \in Users : UserDelete(u)
  \/ /\ scenario = "backends" /\ UNCHANGED notAccounts
     /\ \/ \E u \in {"u1", "u2"}, m \in {"m1", "m2", "m3"} : Own!SnPost("r1", u, m) \/ Own!SnDelete("r1", u, m)
        \/ Own!SnPostCommit("r1") \/ Own!SnDeleteCommit("r1")
        \/ \E u \in {"u1", "u2"}, l \in {"l1", "l2"} :
             Own!UserPost(u, l, "with_free_instances", "no one", "no one", "none", "null")
        \/ \E u \in {"u1", "u2"} : Own!UserDelete(u)
  \/ scenario = "instance" /\ Parameters!Next /\ UNCHANGED notInstance
  \/ scenario = "arguments" /\ Arguments!Next /\ UNCHANGED notInstance
  \/ scenario = "managers" /\ Managers!Next /\ UNCHANGED notManagers

MCSpec == MCInit /\ [][MCNext]_mcVars
-----------------------------------------------------------------------------
\* The pipeline of jobs (binarisation.py, tasks.py).  Until its timeout the lock is the
\* task's, whatever late releases of tasks that outlived theirs; a job that asked for a reload
\* is done only once kraken was told to load a nav file made after its files were loaded; no
\* file that a scan takes from the source directory is left without a job; the purges remove
\* no file that a chain, known when they queried the running jobs, still has to read; and a
\* file of an autocomplete job is given to mimir after those it depends on.
JobsTellTheTruth ==
  /\ scenario = "imports" => /\ Imports!LockHeld /\ Imports!DoneIsServed
                             /\ Imports!DetectedGetsJob /\ Imports!PurgeSparesKnown
  /\ scenario = "purge" => Purge!LockHeld /\ Purge!DoneIsServed
  /\ scenario = "mimir" => Mimir!LockHeld /\ Mimir!DoneIsServed
  /\ scenario = "commands" => Orders!LockHeld /\ Orders!DoneIsServed
  /\ scenario = "mimir files" => MimirFiles!AdminsFirst
  /\ scenario = "depots" => Depots!AdminsFirst

\* remove_backups... queries the last datasets of done jobs and the running jobs one after the
\* other: "only keeping the data being actually loaded" (command/purge.py).
LoadedFilesKept == scenario = "purge" => Purge!LoadedFilesKept

\* The rows of two tables agree: those that tasks and purges of the autocomplete look their job
\* up by are there, whatever DELETE requests run beside them, and has_sn_backend is in step
\* with the backends when their requests come one by one.
TablesAgree ==
  /\ scenario = "mimir files" => MimirFiles!JobHasInstance
  /\ scenario = "depots" => Depots!JobHasInstance
  /\ scenario = "backends" => Own!FlagFollowsRows

\* The PUT of an instance changes what it was given and nothing that another request
\* committed since it read the row.
ParametersKept ==
  [][/\ scenario = "instance" => Parameters!OnlyGiven /\ Parameters!GivenTaken /\ Parameters!AloneExact
     /\ scenario = "arguments" => Arguments!OnlyGiven /\ Arguments!GivenTaken]_mcVars

\* What a manager built from a row serves until the row changes or the instance leaves it,
\* whatever fails; the manager of bike providers drops it as soon as the row is discarded.
ManagersFollow ==
  [][scenario = "managers" =>
       Managers!NothingLost /\ (kind = "bss" => Managers!NothingDiscarded)]_mcVars
=============================================================================
