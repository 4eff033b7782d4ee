---------------------------- MODULE ModelRunIngest ----------------------------
(***************************************************************************)
(* The numerical weather model cron jobs of Environment Canada (GDPS, RDPS *)
(* and HRDPS): jobs/env_canada.py, jobs/common_model_fetchers.py and the   *)
(* tables of db/models/weather_models.py they write.                       *)
(*                                                                         *)
(* One job downloads the files of the most recent run of every run hour,   *)
(* commits a value per station, flags each file, marks a run complete once *)
(* all its files are flagged, interpolates the complete runs, and rebuilds *)
(* the materialized view Morecast reads.  Every commit is a step of its    *)
(* own: the job may be killed between any two of them (the cron job's      *)
(* concurrencyPolicy is "Replace").                                        *)
(*                                                                         *)
(* Time is a count of hours.  A run is identified by the hour it starts.   *)
(***************************************************************************)
EXTENDS Integers, Sequences

CONSTANTS
  HoursPerDay, \* 24
  RunHours,    \* the run hours of the model, in the order the job takes them
  NFiles,      \* files of one run; file f holds the predictions of hour run + f
  Stations,    \* weather stations
  Retention,   \* hours prediction rows are kept (365 days)
  ViewWindow,  \* hours of predictions the materialized view covers (21 days)
  FirstHour,   \* the hour the system starts at
  LastHour,    \* bound: the clock stops here, the jobs go on
  MaxKills     \* bound: jobs that die before they end

ASSUME ParametersAssumption ==
  /\ HoursPerDay \in Nat \ {0}
  /\ RunHours \in Seq(0 .. HoursPerDay - 1) /\ RunHours # <<>>
  /\ NFiles \in Nat \ {0}
  /\ Retention \in Nat /\ ViewWindow \in 0 .. Retention
  /\ FirstHour \in Int /\ LastHour \in Int /\ MaxKills \in Nat

VARIABLES
  clock,        \* the current hour
  runRows,      \* rows of prediction_model_run_timestamps
  complete,     \* ... with complete = TRUE
  interpolated, \* ... with interpolated = TRUE
  processed,    \* processed_model_run_urls: <<run, file>>
  stored,       \* model_run_predictions: <<run, file, station>>
  predictions,  \* weather_station_model_predictions: <<run, file, station>>
  view,         \* morecast_2_materialized_view: <<run, file, station>>
  pc,           \* what the job does next
  jobNow,       \* EnvCanada.now, taken once when the job starts
  slot,         \* position in RunHours
  file,         \* position in the list of urls
  todo,         \* stations whose value of the open file is not stored yet
  failed,       \* exception_count > 0
  queue,        \* runs the job has still to interpolate
  touched,      \* model_processed
  kills         \* jobs killed so far

tables == <<runRows, complete, interpolated, processed, stored, predictions, view>>
job == <<pc, jobNow, slot, file, todo, failed, queue, touched>>
vars == <<clock, tables, job, kills>>

Files == 1 .. NFiles
PredictionHour(r, f) == r + f
Expired(row, age) == PredictionHour(row[1], row[2]) < clock - age
Unexpired(rows, age) == {row \in rows : ~Expired(row, age)}

-----------------------------------------------------------------------------
(* Which run a job asks for.                                               *)

\* A job that starts before the run hour of the day wants yesterday's run.
adjust_model_day(now, hour) ==
  IF now % HoursPerDay < hour THEN now - HoursPerDay ELSE now

RunAt(now, hour) ==
  LET day == adjust_model_day(now, hour) IN day - (day % HoursPerDay) + hour

run == RunAt(jobNow, RunHours[slot])

\* Regression: one flagged file is taken for all of them.
SomeFileIsFlagged(r) == \E f \in Files : <<r, f>> \in processed

check_if_model_run_complete(r) == \A f \in Files : <<r, f>> \in processed

-----------------------------------------------------------------------------
Init ==
  /\ clock = FirstHour
  /\ runRows = {} /\ complete = {} /\ interpolated = {} /\ processed = {}
  /\ stored = {} /\ predictions = {} /\ view = {}
  /\ pc = "idle" /\ jobNow = FirstHour /\ slot = 1 /\ file = 1
  /\ todo = {} /\ failed = FALSE /\ queue = {} /\ touched = FALSE
  /\ kills = 0

\* The process is gone, and all it remembered with it.
JobGone ==
  /\ pc' = "idle" /\ slot' = 1 /\ file' = 1 /\ todo' = {}
  /\ failed' = FALSE /\ queue' = {} /\ touched' = FALSE

(***************************************************************************)
(* The cron schedule starts a job every hour; "Replace" kills the one that *)
(* still runs.  Past LastHour time stands still and jobs keep coming.      *)
(***************************************************************************)
CronFire ==
  /\ pc = "idle" \/ kills < MaxKills
  /\ kills' = IF pc = "idle" THEN kills ELSE kills + 1
  /\ clock' = IF clock < LastHour THEN clock + 1 ELSE clock
  /\ jobNow' = clock'
  /\ pc' = "files" /\ slot' = 1 /\ file' = 1 /\ todo' = {}
  /\ failed' = FALSE /\ queue' = {} /\ touched' = FALSE
  /\ UNCHANGED tables

(***************************************************************************)
(* The job ends without another commit: the pod dies, or the database      *)
(* refuses a statement.  No rollback follows such a refusal until the      *)
(* session scope ends, so every later statement of the session fails too.  *)
(***************************************************************************)
JobDies ==
  /\ pc # "idle" /\ kills < MaxKills
  /\ kills' = kills + 1
  /\ JobGone
  /\ UNCHANGED <<clock, tables, jobNow>>

-----------------------------------------------------------------------------
(* process_model_run_urls, one url at a time.                              *)

NextFile == file' = file + 1 /\ pc' = "files"

SkipFile ==
  /\ pc = "files" /\ file \in Files
  /\ <<run, file>> \in processed
  /\ NextFile
  /\ UNCHANGED <<clock, tables, jobNow, slot, todo, failed, queue, touched, kills>>

\* A 404 is expected and passed over; anything else is counted as an exception.
FetchFails ==
  /\ pc = "files" /\ file \in Files
  /\ <<run, file>> \notin processed
  /\ \E is404 \in BOOLEAN : failed' = (failed \/ ~is404)
  /\ NextFile
  /\ UNCHANGED <<clock, tables, jobNow, slot, todo, queue, touched, kills>>

\* The file is downloaded and process_grib_file gets or creates the run's row.
OpenFile ==
  /\ pc = "files" /\ file \in Files
  /\ <<run, file>> \notin processed
  /\ runRows' = runRows \union {run}
  /\ todo' = Stations
  /\ pc' = "store"
  /\ UNCHANGED <<clock, complete, interpolated, processed, stored, predictions, view,
                 jobNow, slot, file, failed, queue, touched, kills>>

\* store_prediction_value commits the value of one station.
StoreValue(s) ==
  /\ pc = "store" /\ s \in todo
  /\ stored' = stored \union {<<run, file, s>>}
  /\ todo' = todo \ {s}
  /\ UNCHANGED <<clock, runRows, complete, interpolated, processed, predictions, view,
                 pc, jobNow, slot, file, failed, queue, touched, kills>>

\* The grib cannot be read further: the url is given up, the job goes on.
StoreFails ==
  /\ pc = "store" /\ todo # {}
  /\ failed' = TRUE /\ todo' = {}
  /\ NextFile
  /\ UNCHANGED <<clock, tables, jobNow, slot, queue, touched, kills>>

flag_file_as_processed ==
  /\ pc = "store" /\ todo = {}
  /\ processed' = processed \union {<<run, file>>}
  /\ NextFile
  /\ UNCHANGED <<clock, runRows, complete, interpolated, stored, predictions, view,
                 jobNow, slot, todo, failed, queue, touched, kills>>

-----------------------------------------------------------------------------
(* process_model_run after its urls, and the loop of process.              *)

\* Regression: the loop over the run hours goes one too far.
OneRunHourTooMany ==
  IF slot <= Len(RunHours)
    THEN slot' = slot + 1 /\ file' = 1 /\ UNCHANGED pc
    ELSE pc' = "query" /\ UNCHANGED <<slot, file>>

NextRunHour ==
  IF slot < Len(RunHours)
    THEN slot' = slot + 1 /\ file' = 1 /\ UNCHANGED pc
    ELSE pc' = "query" /\ UNCHANGED <<slot, file>>

\* A run without a row makes mark_prediction_model_run_processed raise.
mark_prediction_model_run_processed ==
  /\ pc = "files" /\ file \notin Files
  /\ IF check_if_model_run_complete(run)
       THEN IF run \in runRows
              THEN complete' = complete \union {run} /\ UNCHANGED failed
              ELSE failed' = TRUE /\ UNCHANGED complete
       ELSE UNCHANGED <<complete, failed>>
  /\ NextRunHour
  /\ UNCHANGED <<clock, runRows, interpolated, processed, stored, predictions, view,
                 jobNow, todo, queue, touched, kills>>

-----------------------------------------------------------------------------
(* ModelValueProcessor.process.                                            *)

\* Regressions: incomplete runs are taken too; only this job's run is taken.
IncompleteRunsToo == runRows \ interpolated
OnlyThisJobsRun == {r \in complete \ interpolated : r = run}

\* get_prediction_model_run_timestamp_records(complete=True, interpolated=False)
RunsToInterpolate == complete \ interpolated

QueryRuns ==
  /\ pc = "query"
  /\ queue' = RunsToInterpolate
  /\ touched' = (queue' # {})
  /\ pc' = "interpolate"
  /\ UNCHANGED <<clock, tables, jobNow, slot, file, todo, failed, kills>>

Earliest(r) == r \in queue /\ \A q \in queue : r <= q

\* Regression: a commit for each station.
CommitPerStation(r) ==
  LET Of(s) == {row \in stored : row[1] = r /\ row[3] = s}
  IN  /\ pc = "interpolate" /\ Earliest(r)
      /\ \E s \in Stations : predictions' = predictions \union Of(s)
      /\ pc' = IF \A s \in Stations : Of(s) \subseteq predictions' THEN "mark" ELSE pc
      /\ UNCHANGED <<clock, runRows, complete, interpolated, processed, stored, view,
                     jobNow, slot, file, todo, failed, queue, touched, kills>>

\* All stations of the oldest run, in one commit.
process_model_run(r) ==
  /\ pc = "interpolate" /\ Earliest(r)
  /\ predictions' = predictions \union {row \in stored : row[1] = r}
  /\ pc' = "mark"
  /\ UNCHANGED <<clock, runRows, complete, interpolated, processed, stored, view,
                 jobNow, slot, file, todo, failed, queue, touched, kills>>

\* Regression: the first commit flags every run of the queue.
MarkWholeQueue(r) ==
  /\ pc = "mark" /\ Earliest(r)
  /\ interpolated' = interpolated \union queue
  /\ queue' = {}
  /\ pc' = "interpolate"
  /\ UNCHANGED <<clock, runRows, complete, processed, stored, predictions, view,
                 jobNow, slot, file, todo, failed, touched, kills>>

mark_model_run_interpolated(r) ==
  /\ pc = "mark" /\ Earliest(r)
  /\ interpolated' = interpolated \union {r}
  /\ queue' = queue \ {r}
  /\ pc' = "interpolate"
  /\ UNCHANGED <<clock, runRows, complete, processed, stored, predictions, view,
                 jobNow, slot, file, todo, failed, touched, kills>>

\* The view is rebuilt only by a job that interpolated something; a job that
\* counted an exception ends here, before the retention policy.
refresh_morecast2_materialized_view ==
  /\ pc = "interpolate" /\ queue = {}
  /\ view' = IF touched THEN Unexpired(predictions, ViewWindow) ELSE view
  /\ IF failed
       THEN JobGone
       ELSE pc' = "retain" /\ UNCHANGED <<slot, file, todo, failed, queue, touched>>
  /\ UNCHANGED <<clock, runRows, complete, interpolated, processed, stored, predictions,
                 jobNow, kills>>

apply_data_retention_policy ==
  /\ pc = "retain"
  /\ predictions' = Unexpired(predictions, Retention)
  /\ stored' = Unexpired(stored, Retention)
  /\ JobGone
  /\ UNCHANGED <<clock, runRows, complete, interpolated, processed, view, jobNow, kills>>

-----------------------------------------------------------------------------
(***************************************************************************)
(* The jobs of the other models (jobs/noaa.py, and env_canada.py with      *)
(* another argument) run beside this one.  Of its tables they change two:  *)
(* they rebuild the view, which joins the predictions of all models and    *)
(* asks for no flag of their runs, and they apply the retention policy.    *)
(***************************************************************************)
OtherJobRefreshes ==
  /\ view' = Unexpired(predictions, ViewWindow)
  /\ UNCHANGED <<clock, runRows, complete, interpolated, processed, stored, predictions,
                 job, kills>>

OtherJobRetains ==
  /\ predictions' = Unexpired(predictions, Retention)
  /\ stored' = Unexpired(stored, Retention)
  /\ UNCHANGED <<clock, runRows, complete, interpolated, processed, view, job, kills>>

-----------------------------------------------------------------------------
JobStep ==
  \/ SkipFile
  \/ FetchFails
  \/ OpenFile
  \/ \E s \in Stations : StoreValue(s)
  \/ StoreFails
  \/ flag_file_as_processed
  \/ mark_prediction_model_run_processed
  \/ QueryRuns
  \/ \E r \in queue : process_model_run(r)
  \/ \E r \in queue : mark_model_run_interpolated(r)
  \/ refresh_morecast2_materialized_view
  \/ apply_data_retention_policy

Next ==
  \/ CronFire \/ JobDies \/ JobStep
  \/ OtherJobRefreshes \/ OtherJobRetains

Spec == Init /\ [][Next]_vars

\* Cron keeps firing and a job that is not killed runs to its end.
Fairness == WF_vars(CronFire) /\ WF_vars(JobStep)
FairSpec == Spec /\ Fairness

-----------------------------------------------------------------------------
Rows == Int \X Files \X Stations

TablesOK ==
  /\ clock \in Int /\ jobNow \in Int /\ kills \in Nat
  /\ runRows \in SUBSET Int /\ complete \in SUBSET Int
  /\ interpolated \in SUBSET Int /\ queue \in SUBSET Int
  /\ processed \in SUBSET (Int \X Files)
  /\ stored \in SUBSET Rows /\ predictions \in SUBSET Rows /\ view \in SUBSET Rows
  /\ pc \in {"idle", "files", "store", "query", "interpolate", "mark", "retain"}
  /\ slot \in 1 .. Len(RunHours)
  /\ file \in 1 .. NFiles + 1 /\ (pc = "store" => file \in Files)
  /\ todo \in SUBSET Stations

FlagsOK == failed \in BOOLEAN /\ touched \in BOOLEAN

(* Types of the tables and of the job's variables.                         *)
TypeOK == TablesOK /\ FlagsOK

\* Every row of run r is in the table, but for the rows too old to be there.
AllIn(r, rows, age) ==
  \A f \in Files, s \in Stations : <<r, f, s>> \in rows \/ Expired(<<r, f, s>>, age)

(* A run marked complete has every url flagged and every station's value   *)
(* of every file stored, however many jobs were killed on the way: "Mark a *)
(* prediction model run as processed (complete)" never lies.               *)
CompleteRunsAreStored ==
  \A r \in complete :
    check_if_model_run_complete(r) /\ AllIn(r, stored, Retention)

(* A run marked interpolated is complete and has a prediction for every    *)
(* file and station: the flag, set by a commit of its own, never runs      *)
(* ahead of the data although a job may die between the two commits.       *)
InterpolatedRunsArePredicted ==
  /\ interpolated \subseteq complete
  /\ \A r \in interpolated : AllIn(r, predictions, Retention)

(* What Morecast reads is never part of a run: a run with a row in the     *)
(* materialized view is complete and has all its other rows there too,     *)
(* although any model's job may rebuild the view at any moment, also       *)
(* between the commits of this run, and nobody looks at the flags then.    *)
ViewShowsWholeRuns ==
  \A row \in view :
    /\ row[1] \in complete
    /\ AllIn(row[1], view, ViewWindow)

(* A rebuild of the view publishes every interpolated run, the ones whose  *)
(* own job was killed before its refresh included.                         *)
RefreshCatchesUp ==
  [][view' # view => \A r \in interpolated : AllIn(r, view', ViewWindow)]_vars

(* A complete run is interpolated in the end, even if every job that tried *)
(* was killed, as long as jobs are not killed forever.                     *)
CompleteRunsGetInterpolated ==
  \A r \in FirstHour - HoursPerDay .. LastHour : r \in complete ~> r \in interpolated

(* The stages of a run as the tables show them, and the promise that each  *)
(* run goes through them in order and is read only once it is predicted:   *)
(* implemented by the job with all its commits, kills and failures, beside *)
(* the jobs of the other models.                                           *)
RunsIn(rows) == {row[1] : row \in rows}

Promise == INSTANCE ModelRunPromise WITH
  downloaded <- {r \in RunsIn(processed) : check_if_model_run_complete(r)},
  predicted <- RunsIn(predictions),
  past <- {r \in complete : AllIn(r, {}, Retention)},
  visible <- RunsIn(view)

KeepsPromise == Promise!Spec
=============================================================================
