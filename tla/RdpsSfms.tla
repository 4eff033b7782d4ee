------------------------------- MODULE RdpsSfms -------------------------------
(***************************************************************************)
(* RDPS rasters for SFMS: jobs/rdps_sfms.py.  Every hour a job downloads   *)
(* the files of the last two model runs it has no row of, puts each in the *)
(* object store under a key made of the date of the job, adds its row,     *)
(* deletes what is older than Retain and then computes the precipitation   *)
(* of 24 hours for the next day and a half (weather_models/                *)
(* precip_rdps_model.py) from the runs of the day before.                  *)
(*                                                                         *)
(* A day has 2 * Half hours; only the precipitation layer is followed, the *)
(* other three have files of the same names.                               *)
(***************************************************************************)
EXTENDS Integers, Sequences, FiniteSets, SequencesExt

CONSTANTS
  Half,        \* hours from a model run to the next: 12
  Retain,      \* hours objects are kept: DAYS_TO_RETAIN
  FirstHour,   \* bound: the hours of the model
  LastHour,    \* bound
  MaxFaults    \* bound: files that are not downloaded and jobs that end in the middle

Day == 2 * Half
MAX_MODEL_RUN_HOUR == 3 * Half

VARIABLES
  hour,
  published,     \* model runs the datamart has
  objects,       \* keys of the gribs in the object store
  computed,      \* of each hour with a computed raster: the two gribs it is made of
  saved,         \* rows of saved_model_run_for_sfms_urls
  modelRuns,     \* rows of model_run_for_sfms
  pc, now,       \* of the job: its step, self.now
  run_hour, queue, \* the run hour it is at, the urls left of that run
  downloaded,    \* files_downloaded > 0
  deleting,      \* rows whose deletion is not committed yet
  forecast,      \* hour of compute_and_store_precip_rasters
  lastJob, faults

jobVars == <<now, run_hour, queue, downloaded, deleting, forecast>>
bounds == <<lastJob, faults>>
vars == <<hour, published, objects, computed, saved, modelRuns, pc, jobVars, bounds>>

date(t) == t \div Day
HourOf(t) == t % Day

\* Regression: the run at midnight for every hour.
OnlyMidnight(h) == 0

model_run_for_hour(h) == IF h < Half THEN 0 ELSE Half
adjust_forecast_hour(run, h) == h - model_run_for_hour(run)

\* A model run is the hour it starts at, a grib one forecast hour of it.
Grib(run, h) == [run |-> run, forecast |-> h]
Key(day, run, grib) == [date |-> day, run |-> run, grib |-> grib]

adjust_model_day(t, run) == IF HourOf(t) < run THEN t - Day ELSE t

get_regional_model_run_download_urls(t, run) ==
  LET start == Day * date(adjust_model_day(t, run)) + run
  IN  [h \in 1 .. MAX_MODEL_RUN_HOUR |-> Grib(start, h)]

\* _generate_s3_key: the date is that of the job, whatever the run's.
generate_s3_key(grib) == Key(date(now), run_hour, grib)

-----------------------------------------------------------------------------
(* The keys a computed raster is made of.                                  *)

compose_precip_rdps_key(day, start, run, h) ==
  Key(day, model_run_for_hour(run),
      Grib(Day * date(start) + model_run_for_hour(run), adjust_forecast_hour(run, h)))

NoKey == Key(0, 0, Grib(0, 0))

get_raster_keys_to_diff(t) ==
  LET target == t - Day
      At(h) == compose_precip_rdps_key(date(target), target, HourOf(target), h)
  IN  [earlier |-> IF HourOf(target) \in {0, Half} THEN NoKey ELSE At(HourOf(target)),
       later |-> At(HourOf(target) + Day)]

\* generate_24_hour_accumulating_precip_raster: FALSE where it raises.
CanGenerate(t) ==
  LET keys == get_raster_keys_to_diff(t)
  IN  keys.later \in objects /\ (keys.earlier = NoKey \/ keys.earlier \in objects)

-----------------------------------------------------------------------------
Init ==
  /\ hour = FirstHour /\ published = {}
  /\ objects = {} /\ computed = <<>> /\ saved = {} /\ modelRuns = {}
  /\ pc = "idle" /\ now = 0 /\ run_hour = 0 /\ queue = <<>>
  /\ downloaded = FALSE /\ deleting = {} /\ forecast = 0
  /\ lastJob = 0 /\ faults = 0

Tick ==
  /\ hour < LastHour /\ pc = "idle" /\ lastJob = hour
  /\ hour' = hour + 1
  /\ UNCHANGED <<published, objects, computed, saved, modelRuns, pc, jobVars, bounds>>

\* The datamart has the files of a run, an hour after it started or later.  (Of runs
\* more than a day old no job asks for a url; of runs that are published while a job
\* is at work the job misses what it has asked for, like after DownloadFails.)
Publish(r) ==
  /\ pc = "idle" /\ r % Half = 0 /\ r < hour /\ hour - Day < r /\ r \notin published
  /\ published' = published \union {r}
  /\ UNCHANGED <<hour, objects, computed, saved, modelRuns, pc, jobVars, bounds>>

JobStarts ==
  /\ pc = "idle" /\ lastJob < hour
  /\ lastJob' = hour /\ now' = hour
  /\ pc' = "download" /\ run_hour' = 0
  /\ queue' = get_regional_model_run_download_urls(hour, 0)
  /\ downloaded' = FALSE /\ deleting' = {} /\ forecast' = 0
  /\ UNCHANGED <<hour, published, objects, computed, saved, modelRuns, faults>>

IsSaved(grib) == \E row \in saved : row.grib = grib

\* The row is there, or the datamart answers 404.
SkipUrl ==
  /\ pc = "download" /\ queue # <<>>
  /\ IsSaved(Head(queue)) \/ Head(queue).run \notin published
  /\ queue' = Tail(queue)
  /\ UNCHANGED <<hour, published, objects, computed, saved, modelRuns, pc, now, run_hour,
                 downloaded, deleting, forecast, bounds>>

\* Any error is caught, and the next url tried.
DownloadFails ==
  /\ pc = "download" /\ queue # <<>> /\ faults < MaxFaults
  /\ ~ IsSaved(Head(queue)) /\ Head(queue).run \in published
  /\ faults' = faults + 1 /\ queue' = Tail(queue)
  /\ UNCHANGED <<hour, published, objects, computed, saved, modelRuns, pc, now, run_hour,
                 downloaded, deleting, forecast, lastJob>>

PutObject ==
  /\ pc = "download" /\ queue # <<>>
  /\ ~ IsSaved(Head(queue)) /\ Head(queue).run \in published
  /\ downloaded' = TRUE
  /\ objects' = objects \union {generate_s3_key(Head(queue))}
  /\ pc' = "row"
  /\ UNCHANGED <<hour, published, computed, saved, modelRuns, now, run_hour, queue,
                 deleting, forecast, bounds>>

create_saved_model_run_for_sfms_url ==
  /\ pc = "row"
  /\ saved' = saved \union {[grib |-> Head(queue), key |-> generate_s3_key(Head(queue)),
                             created |-> hour]}
  /\ queue' = Tail(queue) /\ pc' = "download"
  /\ UNCHANGED <<hour, published, objects, computed, modelRuns, now, run_hour,
                 downloaded, deleting, forecast, bounds>>

\* process: after the urls of a run, whether or not any of them was downloaded.
create_model_run_for_sfms ==
  /\ pc = "download" /\ queue = <<>>
  /\ modelRuns' = IF downloaded THEN modelRuns \union {Day * date(now) + run_hour}
                  ELSE modelRuns
  /\ IF run_hour = 0
     THEN /\ run_hour' = Half /\ pc' = pc
          /\ queue' = get_regional_model_run_download_urls(now, Half)
     ELSE pc' = "retain" /\ UNCHANGED <<run_hour, queue>>
  /\ UNCHANGED <<hour, published, objects, computed, saved, now, downloaded, deleting,
                 forecast, bounds>>

\* Regression: the days to retain taken for hours.
DaysAsHours == {row \in saved : row.created < now - Retain \div Day}

get_rdps_sfms_urls_for_deletion == {row \in saved : row.created < now - Retain}

\* Objects are deleted now, their rows when the session is committed.
apply_retention_policy ==
  /\ pc = "retain"
  /\ objects' = objects \ {row.key : row \in get_rdps_sfms_urls_for_deletion}
  /\ deleting' = get_rdps_sfms_urls_for_deletion
  /\ pc' = "compute"
  /\ UNCHANGED <<hour, published, computed, saved, modelRuns, now, run_hour, queue,
                 downloaded, forecast, bounds>>

AccumulationTime == Day * date(now) + model_run_for_hour(HourOf(now)) + forecast

Compute ==
  /\ pc = "compute" /\ forecast < 3 * Half /\ CanGenerate(AccumulationTime)
  /\ computed' = IF AccumulationTime \in DOMAIN computed THEN computed
                 ELSE [t \in DOMAIN computed \union {AccumulationTime} |->
                         IF t = AccumulationTime THEN get_raster_keys_to_diff(t)
                         ELSE computed[t]]
  /\ forecast' = forecast + 1
  /\ UNCHANGED <<hour, published, objects, saved, modelRuns, pc, now, run_hour, queue,
                 downloaded, deleting, bounds>>

\* A raster is missing: the exception leaves the session, which rolls back.
ComputeRaises ==
  /\ pc = "compute" /\ forecast < 3 * Half /\ ~ CanGenerate(AccumulationTime)
  /\ pc' = "idle"
  /\ UNCHANGED <<hour, published, objects, computed, saved, modelRuns, jobVars, bounds>>

Commit ==
  /\ pc = "compute" /\ forecast = 3 * Half
  /\ saved' = saved \ deleting
  /\ pc' = "idle"
  /\ UNCHANGED <<hour, published, objects, computed, modelRuns, jobVars, bounds>>

JobDies ==
  /\ pc # "idle" /\ faults < MaxFaults
  /\ faults' = faults + 1 /\ pc' = "idle"
  /\ UNCHANGED <<hour, published, objects, computed, saved, modelRuns, jobVars, lastJob>>

Next ==
  \/ Tick
  \/ \E r \in 0 .. LastHour : Publish(r)
  \/ JobStarts
  \/ SkipUrl \/ DownloadFails \/ PutObject \/ create_saved_model_run_for_sfms_url
  \/ create_model_run_for_sfms
  \/ apply_retention_policy
  \/ Compute \/ ComputeRaises \/ Commit
  \/ JobDies

Spec == Init /\ [][Next]_vars

-----------------------------------------------------------------------------
Gribs == [run : -Day .. LastHour, forecast : Nat]
Keys == [date : Nat, run : {0, Half}, grib : Gribs]
Rows == [grib : Gribs, key : Keys, created : 0 .. hour]

TypeOK ==
  /\ hour \in FirstHour .. LastHour /\ lastJob \in 0 .. hour /\ now \in 0 .. hour
  /\ published \subseteq 0 .. hour /\ modelRuns \subseteq 0 .. hour + Half
  /\ objects \subseteq Keys
  /\ \A t \in DOMAIN computed : computed[t] \in [earlier : Keys, later : Keys]
  /\ saved \subseteq Rows /\ deleting \subseteq Rows
  /\ pc \in {"idle", "download", "row", "retain", "compute"}
  /\ run_hour \in {0, Half} /\ queue \in Seq(Gribs) /\ downloaded \in BOOLEAN
  /\ forecast \in 0 .. 3 * Half /\ faults \in 0 .. MaxFaults

(* A computed raster is the precipitation of the 24 hours to its hour, by  *)
(* one model run, although its keys are put together from dates and hours. *)
ComputedCoversOneDay ==
  \A t \in DOMAIN computed :
    LET later == computed[t].later.grib
        earlier == computed[t].earlier.grib
        from == IF computed[t].earlier = NoKey THEN later.run
                ELSE earlier.run + earlier.forecast
    IN  /\ later.run + later.forecast = t /\ from = t - Day
        /\ computed[t].earlier # NoKey => earlier.run = later.run

(* A url that jobs still ask for and that has a row has its object: the    *)
(* row keeps it from being downloaded again.                               *)
SkippedUrlsAreStored ==
  \A row \in saved :
    row.grib.run > hour - Day => row.key \in objects

(* Readers look for a run under its own date.  The files of the first run  *)
(* of a day are there; those of the second one are, unless a job fetched   *)
(* them after midnight.                                                    *)
StoredUnderItsOwnDate ==
  \A row \in saved :
    \/ row.key.date = date(row.grib.run)
    \/ row.grib.run % Day = Half /\ row.created >= Day * (date(row.grib.run) + 1)

=============================================================================
