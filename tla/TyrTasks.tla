------------------------------ MODULE TyrTasks ------------------------------
(***************************************************************************)
(* The celery tasks of tyr (binarisation.py, tasks.py), each reduced to    *)
(* what the jobs can tell apart: whether it takes the redis lock of its    *)
(* instance, which dataset row it tracks, what a failure does to the job   *)
(* and to the rest of the chain, and what a success writes.  And the       *)
(* chains import_data and send_to_mimir put together.                      *)
(***************************************************************************)
EXTENDS Integers, Sequences, SequencesExt

CONSTANTS
    LokiMinio,              \* pt_planners_configurations.loki.data_source = minio
    AsgardBucket,           \* MINIO_ASGARD_BUCKET_NAME is set, and the zip has the two files
    AutocompleteVersions,   \* the active versions of the autocomplete, among 2 and 7
    ImportNtfs, ImportStops \* instance.import_ntfs_in_mimir, instance.import_stops_in_mimir

-----------------------------------------------------------------------------
(* Profiles of tasks.                                                      *)
(*   lock       wrapped in @Lock                                           *)
(*   tracks     the type given to _retrieve_dataset_and_set_state, or none *)
(*   completes  dataset.state = done on success                            *)
(*   unguarded  does work before its try: an exception there breaks the    *)
(*              chain and leaves job.state as it is                        *)
(*   blocking   an executable that fails raises, which breaks the chain    *)
(*   target     what a success writes                                      *)

\* A task that loads a file of the given type in the ed database.
LoadsEd(type) == [lock |-> TRUE, tracks |-> type, completes |-> TRUE, unguarded |-> FALSE,
                  blocking |-> TRUE, target |-> "ed"]

fusio2ed   == LoadsEd("fusio")
gtfs2ed    == LoadsEd("gtfs")
\* the archive is opened before the try
osm2ed     == [LoadsEd("osm") EXCEPT !.unguarded = TRUE]
geopal2ed  == LoadsEd("geopal")
poi2ed     == LoadsEd("poi")
synonym2ed == LoadsEd("synonym")
shape2ed   == LoadsEd("shape")
\* the dataset row of a fare file is never touched
fare2ed    == [LoadsEd("fare") EXCEPT !.tracks = "none", !.completes = FALSE]

ed2nav      == [lock |-> TRUE, tracks |-> "none", completes |-> FALSE, unguarded |-> FALSE,
                blocking |-> TRUE, target |-> "nav"]
reload_data == [ed2nav EXCEPT !.lock = FALSE, !.target = "kraken"]

\* Non blocking imports in the autocomplete: a non zero exit marks the job and goes on.
ToMimir     == [ed2nav EXCEPT !.lock = FALSE, !.blocking = FALSE, !.target = "mimir"]
stops2mimir == ToMimir
ntfs2mimir  == [ToMimir EXCEPT !.unguarded = TRUE]      \* unzips before the try
poi2mimir   == ToMimir

\* Uploads for loki and asgard, outside the lock, on the row of the dataset that is
\* loaded in ed by a later task of the same chain.
ToS3(type) == [LoadsEd(type) EXCEPT !.lock = FALSE, !.target = "s3"]
fusio2s3   == [ToS3("fusio") EXCEPT !.unguarded = TRUE] \* creates for_loki before any try
gtfs2s3    == ToS3("gtfs")
\* excluded_zones is emptied before the try; the row is left running for poi2ed
poi2asgard == [ToS3("poi") EXCEPT !.unguarded = TRUE, !.completes = FALSE]

finish_job     == [ed2nav EXCEPT !.lock = FALSE, !.target = "job"]
purge_instance == [ed2nav EXCEPT !.lock = FALSE, !.target = "backups"]

-----------------------------------------------------------------------------
(* Types *)

\* the table "task" of import_data
Task == [gtfs |-> gtfs2ed, fusio |-> fusio2ed, osm |-> osm2ed, geopal |-> geopal2ed,
         fare |-> fare2ed, poi |-> poi2ed, synonym |-> synonym2ed, shape |-> shape2ed]

DataTypes == DOMAIN Task

family_of_data(type) ==
    CASE type \in {"osm", "geopal"} -> "streetnetwork"
      [] type \in {"fusio", "gtfs"} -> "pt"
      [] OTHER -> type

-----------------------------------------------------------------------------
(* Chains.  A link is a task with the job it reports to and its file. *)

Link(task, job, file) == [task |-> task, job |-> job, file |-> file]

\* What import_data appends for one file: uploads first, then the import in ed.
ImportLinks(type, job, file) ==
    LET s3     == IF type = "fusio" THEN fusio2s3 ELSE gtfs2s3
        loki   == IF LokiMinio /\ type \in {"fusio", "gtfs"} THEN <<Link(s3, job, file)>> ELSE <<>>
        asgard == IF AsgardBucket /\ type = "poi" THEN <<Link(poi2asgard, job, file)>> ELSE <<>>
    IN  loki \o asgard \o <<Link(Task[type], job, file)>>

\* send_to_mimir bails out, without creating a job, unless this holds.
SendsToMimir(type) ==
    /\ AutocompleteVersions # {}
    /\ family_of_data(type) \in {"pt", "poi"}
    /\ ImportNtfs \/ ImportStops

\* The actions of send_to_mimir for one dataset; "mjob" is the job it has just created.
MimirLinks(type, mjob, file) ==
    LET task == IF family_of_data(type) = "poi" THEN poi2mimir
                ELSE IF ImportNtfs THEN ntfs2mimir ELSE stops2mimir
        of(v) == IF v \in AutocompleteVersions THEN <<Link(task, mjob, file)>> ELSE <<>>
    IN  of(2) \o of(7) \o <<Link(finish_job, mjob, file)>>

\* The families of the datasets send_to_mimir attaches to its job.
MimirFamilies == {IF v = 7 THEN "mimir7" ELSE "mimir" : v \in AutocompleteVersions}

\* Mutant of ImportChain: the kraken is told to reload before the binarisation.
ImportChainReloadFirst(imports, mimir, job, reload) ==
    FlattenSeq(imports)
    \o (IF reload THEN <<Link(reload_data, job, "none")>> ELSE <<>>)
    \o <<Link(ed2nav, job, "none")>>
    \o FlattenSeq(mimir)
    \o <<Link(finish_job, job, "none"), Link(purge_instance, job, "none")>>

\* process_ed2nav: imports, binarisation, reload, autocomplete, end of the job, purge.
ImportChain(imports, mimir, job, reload) ==
    FlattenSeq(imports)
    \o <<Link(ed2nav, job, "none")>>
    \o (IF reload THEN <<Link(reload_data, job, "none")>> ELSE <<>>)
    \o FlattenSeq(mimir)
    \o <<Link(finish_job, job, "none"), Link(purge_instance, job, "none")>>

=============================================================================
