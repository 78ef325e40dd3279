------------------------------ MODULE TyrJobs -------------------------------
(***************************************************************************)
(* The jobs of one instance of tyr: files that appear in its source        *)
(* directory are moved to a backup directory of their own and imported by  *)
(* a celery chain under a redis lock; commands and crons reimport, rebuild,*)
(* reload, delete and purge at the same time.                              *)
(*                                                                         *)
(* A file stands for its backup directory too, since every file is moved   *)
(* to a directory of its own.  A job is numbered by its date of creation.  *)
(* Beside the database rows and the disk, the state has what the chains    *)
(* produce: "loaded", the files loaded in ed in that order; "nav", the     *)
(* length of that history when the nav file in place was made; "served",   *)
(* the same for the nav file kraken was last told to load.                 *)
(***************************************************************************)
EXTENDS TyrTasks, FiniteSets

CONSTANTS
    Files,              \* files that may be posted
    FileType,           \* FileType[f]: a member of DataTypes, "corrupted" or "unknown"
    Scanners,           \* executions of update_data that may overlap
    NbToKeep,           \* DATASET_MAX_BACKUPS_TO_KEEP
    MaxRetries,         \* max_retries of a task that does not get the lock
    LockMayExpire,      \* may a task outlive the timeout of its lock?
    RedisMayFail,       \* may redis be unreachable?
    WorkersMayDie,      \* may a celery worker be killed?
    TasksMayFail,       \* may an executable, or what precedes it, fail?
    Commands,           \* the commands and crons that are used
    MaxJobs             \* bound: jobs created

VARIABLES
    source, backups,    \* the files in the source directory, in the backup directory
    jobs, datasets,     \* database rows, deleted ones marked, in order of creation
    scan,               \* the executions of update_data
    chains,             \* chains[j]: the chain started for job j
    lock,               \* redis: the chain that holds tyr.lock|instance, 0 if none
    purge,              \* the purge of backup directories in progress
    loaded, nav, served,
    overran, abandoned  \* ghosts: chains that outlived their lock, that stopped without a word

db   == <<jobs, datasets>>
disk == <<source, backups>>
made == <<loaded, nav, served>>
vars == <<disk, db, scan, chains, lock, purge, made, overran, abandoned>>

-----------------------------------------------------------------------------
(* Rows *)

JobState == {"running", "done", "failed"}
Jobs     == {j \in DOMAIN jobs : jobs[j].live}
Rows     == {d \in DOMAIN datasets : datasets[d].live}

NewJob(reloads) == [state |-> "running", reloads |-> reloads, live |-> TRUE]
NewRow(job, type, family, file) ==
    [job |-> job, type |-> type, family |-> family, name |-> file, state |-> "pending", live |-> TRUE]

RowsOf(j) == {d \in Rows : datasets[d].job = j}

\* find_by_type_and_job_id: any row of that type, for want of an order in the query.
FindByTypeAndJobId(type, j) == {d \in RowsOf(j) : datasets[d].type = type}

Done(family) == {d \in Rows : datasets[d].family = family /\ jobs[datasets[d].job].state = "done"}

\* last_datasets: for each family but mimir's, the nb rows of the last done jobs; which ones,
\* among the rows of one job, is left open.
LastDatasets(nb) ==
    {S \in SUBSET {d \in Rows : datasets[d].family # "mimir" /\ d \in Done(datasets[d].family)} :
        \A family \in {datasets[d].family : d \in Rows} \ {"mimir"} :
            LET kept == {d \in S : datasets[d].family = family}
                all  == Done(family)
            IN  /\ Cardinality(kept) = IF Cardinality(all) < nb THEN Cardinality(all) ELSE nb
                /\ \A d \in kept, e \in all \ kept : datasets[e].job <= datasets[d].job}

RunningDatasets == {d \in Rows : jobs[datasets[d].job].state = "running"}

Names(S) == {datasets[d].name : d \in S}

SetJob(j, state)  == [jobs EXCEPT ![j].state = state]
SetRow(rows, d, state) == IF d = 0 THEN rows ELSE [rows EXCEPT ![d].state = state]

Idle    == [st |-> "none", todo |-> <<>>, retries |-> 0, row |-> 0, snap |-> 0]
Queued(todo) == [Idle EXCEPT !.st = "queued", !.todo = todo]
NoScan  == [pc |-> "idle", todo |-> {}, taken |-> <<>>, job |-> 0]
NoPurge == [pc |-> "idle", by |-> 0, dirs |-> {}, kept |-> {}, since |-> 0]

-----------------------------------------------------------------------------
(* Import of the files of the source directory *)

\* POST /jobs/<instance>: the file appears at once under its name.
JobPost(f) ==
    /\ f \notin source \cup backups
    /\ \A s \in Scanners : f \notin scan[s].todo \cup ToSet(scan[s].taken)
    /\ \A d \in DOMAIN datasets : datasets[d].name # f
    /\ source' = source \cup {f}
    /\ UNCHANGED <<backups, db, scan, chains, lock, purge, made, overran, abandoned>>

\* update_data lists the source directory and calls import_data.
UpdateData(s) ==
    /\ scan[s].pc = "idle" /\ source # {}
    /\ scan' = [scan EXCEPT ![s] = [NoScan EXCEPT !.pc = "files", !.todo = source]]
    /\ UNCHANGED <<disk, db, chains, lock, purge, made, overran, abandoned>>

\* The rows import_data attaches to its job: none for a corrupted file.
Remember(taken, f) == IF FileType[f] = "corrupted" THEN taken ELSE Append(taken, f)

\* import_data looks at the next file: it leaves an unknown one, moves a corrupted one away,
\* moves the others and remembers their rows.  If another execution has taken the file, the
\* move raises and the rows remembered so far are lost.
TakeFile(s, f) ==
    /\ scan[s].pc = "files" /\ f \in scan[s].todo
    /\ \/ /\ f \in source /\ FileType[f] = "unknown"
          /\ scan' = [scan EXCEPT ![s].todo = @ \ {f}]
          /\ UNCHANGED disk
       \/ /\ f \in source /\ FileType[f] # "unknown"
          /\ source' = source \ {f} /\ backups' = backups \cup {f}
          /\ scan' = [scan EXCEPT ![s].todo = @ \ {f},
                        ![s].taken = Remember(@, f)]
       \/ /\ f \notin source
          /\ scan' = [scan EXCEPT ![s] = NoScan]
          /\ UNCHANGED disk
    /\ UNCHANGED <<db, chains, lock, purge, made, overran, abandoned>>

\* process_ed2nav commits the job and its rows...
CommitJob(s) ==
    LET j == Len(jobs) + 1
        rows == [i \in DOMAIN scan[s].taken |->
                    LET f == scan[s].taken[i] IN NewRow(j, FileType[f], family_of_data(FileType[f]), f)]
    IN  /\ scan[s].pc = "files" /\ scan[s].todo = {}
        /\ IF scan[s].taken = <<>>
           THEN scan' = [scan EXCEPT ![s].pc = "idle"] /\ UNCHANGED db
           ELSE /\ j <= MaxJobs
                /\ jobs' = Append(jobs, NewJob(TRUE)) /\ datasets' = datasets \o rows
                /\ scan' = [scan EXCEPT ![s].pc = "committed", ![s].job = j]
        /\ UNCHANGED <<disk, chains, lock, purge, made, overran, abandoned>>

\* ... then, for an import of "files" by job j, the jobs of send_to_mimir, and queues the chain.
\* A mimir job is running from now on, although its tasks come last in the chain of j.
Enqueue(j, files, reload, mimir, rows0, jobs0) ==
    LET sent == IF mimir THEN SelectSeq(files, LAMBDA f : SendsToMimir(FileType[f])) ELSE <<>>
        mjob(i) == Len(jobs0) + i
        mrows(i) == SetToSeq({NewRow(mjob(i), "fusio", family, sent[i]) : family \in MimirFamilies})
    IN  /\ jobs' = jobs0 \o [i \in DOMAIN sent |-> NewJob(FALSE)]
        /\ datasets' = rows0 \o FlattenSeq([i \in DOMAIN sent |-> mrows(i)])
        /\ Len(jobs') <= MaxJobs
        /\ chains' = [chains EXCEPT ![j] = Queued(ImportChain(
                        [i \in DOMAIN files |-> ImportLinks(FileType[files[i]], j, files[i])],
                        [i \in DOMAIN sent |-> MimirLinks(FileType[sent[i]], mjob(i), sent[i])], j, reload))]

EnqueueImport(s) ==
    LET j == scan[s].job
    IN  /\ scan[s].pc = "committed"
        /\ Enqueue(j, scan[s].taken, TRUE, TRUE, datasets, jobs)
        /\ scan' = [scan EXCEPT ![s] = NoScan]
        /\ UNCHANGED <<disk, lock, purge, made, overran, abandoned>>

\* The worker that runs update_data is killed.
UpdateDataDies(s) ==
    /\ WorkersMayDie /\ scan[s].pc # "idle"
    /\ scan' = [scan EXCEPT ![s] = NoScan]
    /\ UNCHANGED <<disk, db, chains, lock, purge, made, overran, abandoned>>

-----------------------------------------------------------------------------
(* Commands *)

\* import_last_dataset --background: the last files are imported again from where they are.
ImportLastDataset(reload, mimir) ==
    LET j == Len(jobs) + 1
    IN  /\ "import_last_dataset" \in Commands /\ j <= MaxJobs
        /\ \E last \in LastDatasets(1) :
            LET files == SetToSeq(Names(last) \cap Files)
                rows  == [i \in DOMAIN files |->
                            NewRow(j, FileType[files[i]], family_of_data(FileType[files[i]]), files[i])]
            IN  /\ files # <<>>
                /\ Enqueue(j, files, reload, mimir, datasets \o rows, Append(jobs, NewJob(reload)))
        /\ UNCHANGED <<disk, scan, lock, purge, made, overran, abandoned>>

\* A job without rows and its chain.
StartJob(task) ==
    LET j == Len(jobs) + 1
    IN  /\ j <= MaxJobs
        /\ jobs' = Append(jobs, NewJob(FALSE))
        /\ chains' = [chains EXCEPT ![j] = Queued(<<Link(task, j, "none"), Link(finish_job, j, "none")>>)]
        /\ UNCHANGED <<disk, datasets, scan, lock, purge, made, overran, abandoned>>

BuildData    == "build_data" \in Commands /\ StartJob(ed2nav)
ReloadKraken == "reload_kraken" \in Commands /\ StartJob(reload_data)

\* DELETE /jobs/<id>, whatever the state of the job; rows follow by cascade.
DeleteJob(j) ==
    /\ "delete_job" \in Commands /\ j \in Jobs
    /\ jobs' = [jobs EXCEPT ![j].live = FALSE]
    /\ datasets' = [d \in DOMAIN datasets |->
                        [datasets[d] EXCEPT !.live = @ /\ datasets[d].job # j]]
    /\ UNCHANGED <<disk, scan, chains, lock, purge, made, overran, abandoned>>

\* DELETE delete_dataset/<type>: the rows of that type, and the jobs left without rows.
DeleteDataset(type) ==
    LET gone == {d \in Rows : datasets[d].type = type}
        left == {j \in Jobs : RowsOf(j) # {} /\ RowsOf(j) \subseteq gone}
    IN  /\ "delete_dataset" \in Commands /\ gone # {}
        /\ datasets' = [d \in DOMAIN datasets |-> [datasets[d] EXCEPT !.live = @ /\ d \notin gone]]
        /\ jobs' = [j \in DOMAIN jobs |-> [jobs[j] EXCEPT !.live = @ /\ j \notin left]]
        /\ UNCHANGED <<disk, scan, chains, lock, purge, made, overran, abandoned>>

-----------------------------------------------------------------------------
(* Execution of a chain by the celery workers *)

Current(c) == Head(chains[c].todo)
Live(c)    == chains[c].st \in {"queued", "running", "purging"}
InLock(c)  == chains[c].st = "running" /\ Current(c).task.lock

\* The rest of the chain after a task that returned.
Next1(ch) == [ch EXCEPT !.todo = Tail(@), !.retries = 0, !.row = 0,
                        !.st = IF Len(ch.todo) = 1 THEN "ended" ELSE "queued"]

Break(c) == [chains EXCEPT ![c].st = "dead", ![c].row = 0]

\* lock_release in the finally clause: redis refuses to release what is not held any more.
Release(c) == IF Current(c).task.lock /\ lock = c THEN 0 ELSE lock

\* The wrapper of Lock: acquire(blocking=False) when redis answers.
Acquire(c) ==
    /\ chains[c].st = "queued" /\ Current(c).task.lock /\ Current(c).job \in Jobs
    /\ lock = 0
    /\ lock' = c

\* Start of a task, its lock held if it needs one: the row it tracks becomes running.
StartTask(c) ==
    LET task == Current(c).task
        j    == Current(c).job
    IN  /\ chains[c].st = "queued" /\ j \in Jobs
        /\ task.target \notin {"job", "backups"}
        /\ \/ task.lock /\ Acquire(c)
           \/ ~task.lock /\ UNCHANGED lock
        /\ \E d \in IF task.tracks = "none" THEN {0} ELSE FindByTypeAndJobId(task.tracks, j) :
              /\ datasets' = SetRow(datasets, d, "running")
              /\ chains' = [chains EXCEPT ![c].st = "running", ![c].row = d, ![c].snap = Len(loaded)]
        /\ UNCHANGED <<disk, jobs, scan, purge, made, overran, abandoned>>

\* Lock not acquired, or redis unreachable: task.retry.
RetryTask(c) ==
    /\ chains[c].st = "queued" /\ Current(c).task.lock /\ Current(c).job \in Jobs
    /\ lock # 0 \/ RedisMayFail
    /\ IF chains[c].retries < MaxRetries
       THEN chains' = [chains EXCEPT ![c].retries = @ + 1] /\ UNCHANGED abandoned
       ELSE chains' = Break(c) /\ abandoned' = abandoned \cup {c}    \* MaxRetriesExceededError
    /\ UNCHANGED <<disk, db, scan, lock, purge, made, overran>>

\* The job or the row the task needs was deleted: an exception before the try.
TaskWithoutRow(c) ==
    LET task == Current(c).task
        j    == Current(c).job
    IN  /\ chains[c].st = "queued"
        /\ task.lock => lock = 0
        /\ task.target # "backups"
        /\ j \notin Jobs \/ (task.tracks # "none" /\ FindByTypeAndJobId(task.tracks, j) = {})
        /\ chains' = Break(c) /\ abandoned' = abandoned \cup {c}
        /\ UNCHANGED <<disk, db, scan, lock, purge, made, overran>>

\* The task returns.
TaskSucceeds(c) ==
    LET task == Current(c).task
        f    == Current(c).file
    IN  /\ chains[c].st = "running"
        /\ task.target \in {"ed", "mimir", "s3"} => f \in backups
        /\ chains' = [chains EXCEPT ![c] = Next1(@)]
        /\ lock' = Release(c)
        /\ datasets' = IF task.completes THEN SetRow(datasets, chains[c].row, "done") ELSE datasets
        /\ loaded' = IF task.target = "ed" THEN Append(loaded, f) ELSE loaded
        /\ nav' = IF task.target = "nav" THEN chains[c].snap ELSE nav
        /\ served' = IF task.target = "kraken" THEN nav ELSE served
        /\ UNCHANGED <<disk, jobs, scan, purge, overran, abandoned>>

\* Mutant of OnError: the exception is only logged.
OnErrorLogged(c) == jobs

\* job.state = 'failed' in the except clause.
OnError(c) == SetJob(Current(c).job, "failed")

\* The executable fails or raises within the try: the job and the row are failed, and the
\* exception breaks the chain, unless the task only looks at the exit code of the executable.
TaskFails(c) ==
    LET task == Current(c).task
    IN  /\ chains[c].st = "running"
        /\ TasksMayFail \/ (task.target \in {"ed", "mimir", "s3"} /\ Current(c).file \notin backups)
        /\ jobs' = OnError(c)
        /\ datasets' = SetRow(datasets, chains[c].row, "failed")
        /\ lock' = Release(c)
        /\ \/ chains' = Break(c)
           \/ ~task.blocking /\ chains' = [chains EXCEPT ![c] = Next1(@)]
        /\ UNCHANGED <<disk, scan, purge, made, overran, abandoned>>

\* What a task does before its try raises.
TaskRaisesEarly(c) ==
    /\ chains[c].st = "running" /\ Current(c).task.unguarded /\ TasksMayFail
    /\ lock' = Release(c)
    /\ chains' = Break(c) /\ abandoned' = abandoned \cup {c}
    /\ UNCHANGED <<disk, db, scan, purge, made, overran>>

\* finish_job
FinishJob(c) ==
    LET j == Current(c).job
    IN  /\ chains[c].st = "queued" /\ Current(c).task = finish_job /\ j \in Jobs
        /\ jobs' = IF jobs[j].state # "failed" THEN SetJob(j, "done") ELSE jobs
        /\ chains' = [chains EXCEPT ![c] = Next1(@)]
        /\ UNCHANGED <<disk, datasets, scan, lock, purge, made, overran, abandoned>>

\* The key of the lock reaches its timeout, in the hands of a task that is still running or
\* of a worker that died.
LockExpires ==
    /\ lock # 0
    /\ InLock(lock) => LockMayExpire
    /\ overran' = IF InLock(lock) THEN overran \cup {lock} ELSE overran
    /\ lock' = 0
    /\ UNCHANGED <<disk, db, scan, chains, purge, made, abandoned>>

\* A worker is killed: its task was acknowledged when received, so the chain is lost.
WorkerDies(c) ==
    /\ WorkersMayDie /\ chains[c].st = "running"
    /\ chains' = Break(c) /\ abandoned' = abandoned \cup {c}
    /\ UNCHANGED <<disk, db, scan, lock, purge, made, overran>>

-----------------------------------------------------------------------------
(* Purges.  One at a time; its queries see what was committed in between. *)

\* purge_instance, by a chain (c) or by purge_datasets (c = 0), lists the backup directories...
PurgeStart(c) ==
    /\ purge.pc = "idle"
    /\ IF c = 0 THEN "purge_datasets" \in Commands /\ UNCHANGED chains
       ELSE /\ chains[c].st = "queued" /\ Current(c).task = purge_instance
            /\ chains' = [chains EXCEPT ![c].st = "purging"]
    /\ purge' = [pc |-> "listed", by |-> c, dirs |-> backups, kept |-> {}, since |-> 0]
    /\ UNCHANGED <<disk, db, scan, lock, made, overran, abandoned>>

\* ... queries the last datasets...
PurgeQueryLoaded ==
    /\ purge.pc = "listed"
    /\ \E last \in LastDatasets(NbToKeep) :
            purge' = [purge EXCEPT !.pc = "loaded", !.kept = Names(last)]
    /\ UNCHANGED <<disk, db, scan, chains, lock, made, overran, abandoned>>

PurgeEnds == IF purge.by = 0 THEN chains ELSE [chains EXCEPT ![purge.by] = Next1(@)]

\* ... then the running ones; it gives up if a directory it should keep is missing...
PurgeQueryRunning ==
    /\ purge.pc = "loaded"
    /\ IF purge.kept \subseteq purge.dirs
       THEN /\ purge' = [purge EXCEPT !.pc = "remove", !.since = Len(jobs),
                                      !.dirs = @ \ (purge.kept \cup Names(RunningDatasets))]
            /\ UNCHANGED chains
       ELSE purge' = NoPurge /\ chains' = PurgeEnds
    /\ UNCHANGED <<disk, db, scan, lock, made, overran, abandoned>>

\* ... and removes the rest.
PurgeRemove ==
    /\ purge.pc = "remove"
    /\ backups' = backups \ purge.dirs
    /\ purge' = NoPurge /\ chains' = PurgeEnds
    /\ UNCHANGED <<source, db, scan, lock, made, overran, abandoned>>

\* purge_jobs: delete_old_jobs_and_list_datasets for the jobs older than limit, then the
\* directories of their rows, by PurgeRemove.
PurgeJobs(limit) ==
    /\ "purge_jobs" \in Commands /\ purge.pc = "idle"
    /\ \E last \in LastDatasets(1) :
        LET keep == {datasets[d].job : d \in last}
            gone == {j \in Jobs : j <= limit /\ jobs[j].state # "running"} \ keep
            rows == {d \in Rows : datasets[d].job \in gone}
        IN  /\ gone # {}
            /\ jobs' = [j \in DOMAIN jobs |-> [jobs[j] EXCEPT !.live = @ /\ j \notin gone]]
            /\ datasets' = [d \in DOMAIN datasets |-> [datasets[d] EXCEPT !.live = @ /\ d \notin rows]]
            /\ purge' = [NoPurge EXCEPT !.pc = "remove", !.since = Len(jobs),
                                       !.dirs = Names(rows) \ Names(last)]
    /\ UNCHANGED <<disk, scan, chains, lock, made, overran, abandoned>>

-----------------------------------------------------------------------------
Init ==
    /\ source = {} /\ backups = {}
    /\ jobs = <<>> /\ datasets = <<>>
    /\ scan = [s \in Scanners |-> NoScan]
    /\ chains = [j \in 1 .. MaxJobs |-> Idle]
    /\ lock = 0
    /\ purge = NoPurge
    /\ loaded = <<>> /\ nav = 0 /\ served = 0
    /\ overran = {} /\ abandoned = {}

Scan(s) == UpdateData(s) \/ (\E f \in Files : TakeFile(s, f)) \/ CommitJob(s) \/ EnqueueImport(s)

Step(c) ==
    \/ StartTask(c) \/ RetryTask(c) \/ TaskWithoutRow(c) \/ TaskSucceeds(c) \/ TaskFails(c)
    \/ TaskRaisesEarly(c) \/ FinishJob(c)

PurgeSteps == PurgeQueryLoaded \/ PurgeQueryRunning \/ PurgeRemove

Next ==
    \/ \E f \in Files : JobPost(f)
    \/ \E s \in Scanners : Scan(s) \/ UpdateDataDies(s)
    \/ \E reload, mimir \in BOOLEAN : ImportLastDataset(reload, mimir)
    \/ BuildData \/ ReloadKraken
    \/ \E j \in DOMAIN jobs : DeleteJob(j)
    \/ \E type \in DataTypes : DeleteDataset(type)
    \/ \E c \in DOMAIN jobs : Step(c)
    \/ LockExpires
    \/ \E c \in DOMAIN jobs : WorkerDies(c)
    \/ \E c \in 0 .. MaxJobs : PurgeStart(c)
    \/ PurgeSteps
    \/ \E limit \in DOMAIN jobs : PurgeJobs(limit)

Spec == Init /\ [][Next]_vars

-----------------------------------------------------------------------------
(* Properties *)

TypeOK ==
    /\ source \subseteq Files /\ backups \subseteq Files
    /\ \A j \in DOMAIN jobs : jobs[j] \in [state : JobState, reloads : BOOLEAN, live : BOOLEAN]
    /\ \A d \in DOMAIN datasets :
        /\ datasets[d].job \in DOMAIN jobs /\ datasets[d].name \in Files
        /\ datasets[d].state \in JobState \cup {"pending"}
    /\ lock \in 0 .. MaxJobs
    /\ \A c \in 1 .. MaxJobs : chains[c].st \in {"none", "queued", "running", "purging", "ended", "dead"}
    /\ nav \in 0 .. Len(loaded) /\ served \in 0 .. Len(loaded)

\* Until its timeout, the lock is the task's: a task that is still running in @Lock and has
\* not outlived a lock holds it, so that no other locked task runs beside it, whatever
\* late releases of tasks that did outlive theirs.
LockHeld == \A c \in 1 .. MaxJobs : InLock(c) /\ c \notin overran => lock = c

\* The files a chain still has to read.
Needs(c) == {chains[c].todo[i].file : i \in {i \in DOMAIN chains[c].todo :
                chains[c].todo[i].task.target \in {"ed", "s3", "mimir"}}}

\* A job that asked for a reload is done only once kraken was told to load a nav file made
\* after every file of the job was loaded in ed.  (A task that outlives its lock can put an
\* older nav file in place.)
DoneIsServed ==
    overran = {} =>
        \A d \in DOMAIN datasets :
            LET j == datasets[d].job
            IN  jobs[j].state = "done" /\ jobs[j].reloads =>
                    \E k \in 1 .. served : loaded[k] = datasets[d].name

\* No file is taken from the source directory without a job to import it: a file in the
\* backup directory has a row, unless it is corrupted or still in the hands of import_data.
DetectedGetsJob ==
    \A f \in backups :
        \/ FileType[f] = "corrupted"
        \/ \E d \in DOMAIN datasets : datasets[d].name = f
        \/ \E s \in Scanners : f \in ToSet(scan[s].taken)

\* A purge removes no file that a chain, known when it queried the running jobs, still needs.
PurgeSparesKnown ==
    purge.pc = "remove" =>
        \A c \in 1 .. purge.since :
            Live(c) => Needs(c) \cap Names(RowsOf(c)) \cap purge.dirs = {}

\* For each family, the file that is actually loaded in ed is still in the backup directory
\* (two files of a family in one job are left aside: which of them is the last is undefined).
LoadedFilesKept ==
    LET family(f) == family_of_data(FileType[f])
        jobsOf(f) == {datasets[d].job : d \in {d \in DOMAIN datasets : datasets[d].name = f}}
    IN  \A k \in DOMAIN loaded :
            (\A l \in DOMAIN loaded \ {k} : family(loaded[l]) = family(loaded[k]) =>
                l < k /\ jobsOf(loaded[l]) \cap jobsOf(loaded[k]) = {})
            => loaded[k] \in backups

=============================================================================
