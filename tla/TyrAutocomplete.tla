--------------------------- MODULE TyrAutocomplete ---------------------------
(***************************************************************************)
(* The autocomplete instances of tyr: rows created and deleted by the API, *)
(* depots (directories) created and removed by celery tasks the API only   *)
(* queues, files imported in mimir by a chain per job, and the daily purge *)
(* of the backups.                                                         *)
(*                                                                         *)
(* A file stands for its backup directory too.  A set of messages is       *)
(* enough for the broker: creating or removing a depot twice is once.      *)
(***************************************************************************)
EXTENDS Integers, Sequences, SequencesExt, FiniteSets

CONSTANTS
    Instances,      \* autocomplete instances
    Files,
    Owner,          \* Owner[f]: the instance whose source directory f is dropped in
    FileType,       \* FileType[f]: a member of ImportOrder, or "none" if not recognised
    Versions,       \* active versions of mimir, among 2 and 7
    Address,        \* AutocompleteParameter.address: "BANO" or "OA"
    MaxBackups,     \* AUOTOCOMPLETE_MAX_BACKUPS_TO_KEEP
    Deletes,        \* are instances deleted?
    MaxJobs         \* bound: jobs created

ImportOrder == <<"cosmogony", "bano", "oa", "osm">>

VARIABLES
    params,             \* instances with a row
    depots,             \* instances with directories
    source, backups,    \* files in the source and in the backup directories
    jobs,               \* jobs[j]: instance, files in the order of import, state
    chains,             \* chains[j]: tasks to come
    broker,             \* depot tasks queued
    deleting,           \* DELETE requests between the queued task and the commit
    scan, purge,        \* instances update_autocomplete, purge_autocomplete have to visit
    loaded              \* loaded[j]: files given to mimir by job j, in that order

disk == <<depots, source, backups>>
vars == <<params, disk, jobs, chains, broker, deleting, scan, purge, loaded>>

-----------------------------------------------------------------------------
(* Rows and depots *)

\* POST and PUT: commit, then queue the creation of the directories.
PutAutocomplete(i) ==
    /\ params' = params \cup {i}
    /\ broker' = broker \cup {<<"create", i>>}
    /\ UNCHANGED <<disk, jobs, chains, deleting, scan, purge, loaded>>

\* DELETE queues the removal of the directories...
DeleteAutocomplete(i) ==
    /\ Deletes /\ i \in params \ deleting
    /\ broker' = broker \cup {<<"remove", i>>}
    /\ deleting' = deleting \cup {i}
    /\ UNCHANGED <<params, disk, jobs, chains, scan, purge, loaded>>

\* Mutant of CommitDelete: the row goes although jobs refer to it.
CommitDeleteAnyway(i) ==
    /\ i \in deleting
    /\ deleting' = deleting \ {i}
    /\ params' = params \ {i}
    /\ UNCHANGED <<disk, jobs, chains, broker, scan, purge, loaded>>

\* ... then commits, which the foreign key of a job refuses.
CommitDelete(i) ==
    /\ i \in deleting
    /\ deleting' = deleting \ {i}
    /\ params' = IF \E j \in DOMAIN jobs : jobs[j].instance = i THEN params ELSE params \ {i}
    /\ UNCHANGED <<disk, jobs, chains, broker, scan, purge, loaded>>

\* first_or_404, then makedirs.
create_autocomplete_depot(i) ==
    /\ <<"create", i>> \in broker
    /\ broker' = broker \ {<<"create", i>>}
    /\ depots' = IF i \in params THEN depots \cup {i} ELSE depots
    /\ UNCHANGED <<params, source, backups, jobs, chains, deleting, scan, purge, loaded>>

\* first_or_404, then rmtree of the main directory.
remove_autocomplete_depot(i) ==
    /\ <<"remove", i>> \in broker
    /\ broker' = broker \ {<<"remove", i>>}
    /\ IF i \in params
       THEN /\ depots' = depots \ {i}
            /\ source' = {f \in source : Owner[f] # i}
            /\ backups' = {f \in backups : Owner[f] # i}
       ELSE UNCHANGED disk
    /\ UNCHANGED <<params, jobs, chains, deleting, scan, purge, loaded>>

-----------------------------------------------------------------------------
(* Imports *)

FileArrives(f) ==
    /\ Owner[f] \in depots
    /\ f \notin source \cup backups /\ \A j \in DOMAIN jobs : f \notin ToSet(jobs[j].files)
    /\ source' = source \cup {f}
    /\ UNCHANGED <<params, depots, backups, jobs, chains, broker, deleting, scan, purge, loaded>>

update_autocomplete ==
    /\ scan = {} /\ source # {}
    /\ scan' = params
    /\ UNCHANGED <<params, disk, jobs, chains, broker, deleting, purge, loaded>>

Rank(f) == CHOOSE k \in DOMAIN ImportOrder : ImportOrder[k] = FileType[f]

\* The files sorted by import_order; files of one type stay in the order of glob.
Sorted(S) == {s \in SetToSeqs(S) : \A k, l \in DOMAIN s : k < l => Rank(s[k]) <= Rank(s[l])}

\* One task per file and active version.
ChainOf(s) == [k \in 1 .. Len(s) * Cardinality(Versions) |-> s[(k - 1) \div Cardinality(Versions) + 1]]

NewJob(i, s) ==
    /\ Len(jobs) < MaxJobs
    /\ jobs' = Append(jobs, [instance |-> i, files |-> s, state |-> "running"])
    /\ chains' = Append(chains, ChainOf(s))
    /\ loaded' = Append(loaded, <<>>)

\* import_autocomplete for the files of one instance.  Sorting by import_order.index raises for
\* a file whose type is not recognised, which ends update_autocomplete: nothing was moved.  So
\* does an instance deleted in the meantime, when its row is read again or when the job that
\* refers to it is committed, after the moves.
import_autocomplete(i) ==
    LET mine == {f \in source : Owner[f] = i}
    IN  /\ i \in scan
        /\ \/ /\ mine = {} /\ scan' = scan \ {i}
              /\ UNCHANGED <<source, backups, jobs, chains, loaded>>
           \/ /\ \E f \in mine : FileType[f] = "none"
              /\ scan' = {} /\ UNCHANGED <<source, backups, jobs, chains, loaded>>
           \/ /\ mine # {} /\ i \notin params
              /\ scan' = {} /\ UNCHANGED <<jobs, chains, loaded>>
              /\ \/ UNCHANGED <<source, backups>>
                 \/ source' = source \ mine /\ backups' = backups \cup mine
           \/ /\ mine # {} /\ i \in params /\ \A f \in mine : FileType[f] # "none"
              /\ scan' = scan \ {i}
              /\ source' = source \ mine /\ backups' = backups \cup mine
              /\ IF Versions = {} THEN UNCHANGED <<jobs, chains, loaded>>
                 ELSE \E s \in Sorted(mine) : NewJob(i, s)
        /\ UNCHANGED <<params, depots, broker, deleting, purge>>

\* last_datasets: for each type, the files of the nb last done jobs of the instance.
LastDatasets(i, nb) ==
    LET done(t) == {j \in DOMAIN jobs : jobs[j].instance = i /\ jobs[j].state = "done"
                                        /\ \E f \in ToSet(jobs[j].files) : FileType[f] = t}
        last(t) == {j \in done(t) : Cardinality({k \in done(t) : k > j}) < nb}
    IN  {f \in Files : FileType[f] # "none" /\ \E j \in last(FileType[f]) : f \in ToSet(jobs[j].files)}

\* The files of the last datasets are imported again, in place.
import_last_autocomplete_dataset(i) ==
    /\ i \in params /\ Versions # {}
    /\ LastDatasets(i, 1) # {}
    /\ \E s \in Sorted(LastDatasets(i, 1)) : NewJob(i, s)
    /\ UNCHANGED <<params, disk, broker, deleting, scan, purge>>

Running(j) == jobs[j].state = "running"

\* A *2mimir task: unless the addresses come from elsewhere, it unzips its file and runs the
\* executable, which may fail.  Outside the try, a missing file leaves the job running.
ToMimir(j) ==
    LET f == Head(chains[j])
        skipped == \/ FileType[f] = "bano" /\ Address # "BANO"
                   \/ FileType[f] = "oa" /\ Address # "OA"
    IN  /\ chains[j] # <<>>
        /\ \/ /\ skipped
              /\ chains' = [chains EXCEPT ![j] = Tail(@)] /\ UNCHANGED <<jobs, loaded>>
           \/ /\ ~skipped /\ f \notin backups
              /\ chains' = [chains EXCEPT ![j] = <<>>]
              /\ jobs' = [jobs EXCEPT ![j].state = "stuck"] /\ UNCHANGED loaded
           \/ /\ ~skipped /\ f \in backups
              /\ chains' = [chains EXCEPT ![j] = Tail(@)]
              /\ loaded' = [loaded EXCEPT ![j] = Append(@, f)] /\ UNCHANGED jobs
           \/ /\ ~skipped /\ f \in backups
              /\ chains' = [chains EXCEPT ![j] = <<>>]
              /\ jobs' = [jobs EXCEPT ![j].state = "failed"] /\ UNCHANGED loaded
        /\ UNCHANGED <<params, disk, broker, deleting, scan, purge>>

finish_job(j) ==
    /\ Running(j) /\ chains[j] = <<>>
    /\ jobs' = [jobs EXCEPT ![j].state = "done"]
    /\ UNCHANGED <<params, disk, chains, broker, deleting, scan, purge, loaded>>

-----------------------------------------------------------------------------
(* Purge *)

purge_autocomplete ==
    /\ purge = {}
    /\ purge' = params
    /\ UNCHANGED <<params, disk, jobs, chains, broker, deleting, scan, loaded>>

Kept(i) == LastDatasets(i, MaxBackups)

\* One instance: what is not kept is removed, the files of running jobs included.  listdir raises
\* if the depot is not there, which ends the task.
PurgeInstance(i) ==
    /\ i \in purge
    /\ IF i \in depots
       THEN /\ backups' = {f \in backups : Owner[f] = i => f \in Kept(i)}
            /\ purge' = purge \ {i}
       ELSE purge' = {} /\ UNCHANGED backups
    /\ UNCHANGED <<params, depots, source, jobs, chains, broker, deleting, scan, loaded>>

-----------------------------------------------------------------------------
Init ==
    /\ params = {} /\ depots = {} /\ source = {} /\ backups = {}
    /\ jobs = <<>> /\ chains = <<>> /\ loaded = <<>>
    /\ broker = {} /\ deleting = {} /\ scan = {} /\ purge = {}

Next ==
    \/ \E i \in Instances : \/ PutAutocomplete(i) \/ DeleteAutocomplete(i) \/ CommitDelete(i)
                            \/ create_autocomplete_depot(i) \/ remove_autocomplete_depot(i)
                            \/ import_autocomplete(i) \/ import_last_autocomplete_dataset(i)
                            \/ PurgeInstance(i)
    \/ \E f \in Files : FileArrives(f)
    \/ update_autocomplete \/ purge_autocomplete
    \/ \E j \in DOMAIN jobs : ToMimir(j) \/ finish_job(j)

Spec == Init /\ [][Next]_vars

-----------------------------------------------------------------------------
(* Properties *)

TypeOK ==
    /\ params \subseteq Instances /\ depots \subseteq Instances /\ deleting \subseteq Instances
    /\ source \subseteq Files /\ backups \subseteq Files
    /\ \A j \in DOMAIN jobs : jobs[j].state \in {"running", "stuck", "done", "failed"}
    /\ DOMAIN chains = DOMAIN jobs /\ DOMAIN loaded = DOMAIN jobs

\* "it's important for the admin to be loaded first, then addresses, then street, then poi":
\* what a job gives to mimir follows the order of import, whatever was skipped.
AdminsFirst ==
    \A j \in DOMAIN loaded : \A k, l \in DOMAIN loaded[j] : k < l => Rank(loaded[j][k]) <= Rank(loaded[j][l])

\* A job belongs to an instance that has a row: the imports find their parameters, and the
\* purge the datasets to keep, by that row.
JobHasInstance == \A j \in DOMAIN jobs : jobs[j].instance \in params

=============================================================================
