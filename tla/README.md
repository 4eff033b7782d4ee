# Verification of the Wildfire Predictive Services

TLA+ models of the python services of this repository: the jobs that bring weather in, the SFMS
advisory pipeline, the HFI calculator and its administration, MoreCast 2, and the calculations
behind the API. TLC checks them on small instances; TLAPS proves the invariants of every component
that keeps state for every value of the constants.

All paths below are relative to `src/`, and python paths to `src/api/app/` unless they start
with another directory.

## 1. The system

WPS is a FastAPI application (`api/app/main.py`, several gunicorn workers in each of several
replicas), a set of cron jobs (`jobs/`, `c_haines/worker.py`), consumers of a NATS JetStream queue
(`auto_spatial_advisory/nats_consumer.py`, three replicas in `openshift/templates/nats.yaml`),
a postgres database, an S3 object store, a redis cache and a React client (`web/`). External
services are WF1 (weather stations, dailies, forecasts), Environment Canada, NOAA, NSIDC and SFMS,
whose uploader (`sfms/`) posts rasters.

### Components, their state and their hazards

| Component | State | Operations | What makes it correct | Hard because |
|---|---|---|---|---|
| Weather model ingest, Environment Canada (`jobs/env_canada.py`, `jobs/common_model_fetchers.py`, `weather_models/process_grib.py`) | run timestamps with two flags, urls, values per grid point, predictions per station, a materialized view | download and store a file, flag it, mark a run complete, interpolate, mark, retain, refresh | a flag is never ahead of the data it speaks of; readers see whole runs | every commit is separate, a job may be replaced at any time, and the job of every model rebuilds the one view |
| Weather model ingest, NOAA (`jobs/noaa.py`) | the same tables | the same, with GFS and NAM urls | the run marked is the run downloaded; precipitation adds up | urls by US/Eastern, runs by UTC; sums written back in place |
| RDPS rasters for SFMS (`jobs/rdps_sfms.py`, `weather_models/precip_rdps_model.py`) | S3 objects, rows of urls, model runs | download, record, retain, compute 24 hours of precipitation | a row names an object; only values of one run are subtracted | keys by the date of the job; one transaction for rows, none for objects |
| Hourly actuals, noon forecasts, grass curing (`jobs/`) | one table each | a job inserts what WF1 or CWFIS reports | nothing is lost, nothing counts twice, the newest is shown | missed and killed jobs, late and corrected readings |
| SFMS uploads and advisories (`routers/sfms.py`, `nats_publish.py`, `auto_spatial_advisory/`) | rasters in S3, the stream, five tables | upload, publish, five stages per message | each run's tables are filled once, in order, from its own rasters | acknowledgement before work, replicas, shared keys, local and UTC dates |
| Raster processing and critical hours (`auto_spatial_advisory/`) | none | classify, mask by snow, areas, hours of a zone | the stages agree on the same pixels | each stage reads the rasters again; errors of one station |
| Advisory queries (`routers/fba.py`, `db/crud/auto_spatial_advisory.py`) | none | views of a run | what is shown is of the run, the zone and the fuel type | joins over five tables |
| HFI calculator requests (`routers/hfi_calc.py`, `db/crud/hfi_calc.py`) | requests, ready records | set a station, fuel type, fire starts; toggle ready | a change survives other users' changes | an await between load and store; several processes |
| HFI results and PDF (`hfi/hfi_calc.py`, `hfi/pdf_data_formatter.py`) | none | prep levels of a period, sheets of a day and of a station | a level is of all stations of the area; the sheet of a day has its dailies | missing dailies |
| HFI station administration (`hfi/hfi_admin.py`) | planning stations with an order per area | remove, add, reorder | removals remove what they name; orders stay consecutive | pages out of date; independent filters |
| Fire centre cache (`hfi/fire_centre_cache.py`) | the list of fire centres in redis | get, put, clear, expire | the list becomes that of the database | an await between reading and storing |
| VIIRS snow (`jobs/viirs_snow.py`) | rasters and pmtiles in S3, `processed_snow` | the dates after the last one | recorded dates are stored; nothing is passed over | late imagery; kills between stores |
| C-Haines (`c_haines/`, `routers/c_haines.py`) | KML and GeoJSON in S3 | generate, list, stream | the predictions of a run are there from the first on | jobs of several environments check, then put |
| MoreCast 2 (`routers/morecast_v2.py`, `morecast_v2/`) | WF1's forecasts, cached pages, `morecast_forecast` | submit, read | the three agree after a submission | partial failure, lost answers, refilled cache |
| WF1 client (`wildfire_one/`) | cached pages and tokens | paged fetch, mappers | every list made of an answer says the same | four list builders, missing values |
| Fire behaviour (`fire_behaviour/`, `routers/fba_calc.py`) | none | predictions of a station and day | a prediction is whole or missing | formulas that need different inputs and fail in different ways |
| Predictions and bias adjustment (`weather_models/`) | none | historic, latest and daily views, regressions | of a time the newest run, once | order of rows, missing values, windows of hours |
| Percentile calculator, REDapp, authentication, web client, uploader, deployment | | | | not modelled, see section 6 |

The components meet in these places: the ingest jobs write what MoreCast and the views of
predictions read; NAM precipitation completes its last 24 hours from hourly actuals, which bias
adjustment learns from too; the SFMS stage `process_hfi` masks rasters with the last date the VIIRS
job recorded; the HFI calculator and MoreCast share WF1's dailies and the formulas of
`fire_behaviour`; HFI requests and station administration share the planning stations and the
cache of fire centres; uploads and consumers share S3 keys and the stream.

`PROJECT.json` lists every component with its sources, and under `hazards` each place where one of
these difficulties bites, with the property that covers it or the reason there is none.

## 2. Modules

| Module | Models | Composes with |
|---|---|---|
| `ModelRunIngest` | `jobs/env_canada.py`, `jobs/common_model_fetchers.py` | implements `ModelRunPromise` |
| `ModelRunPromise` | what readers of a model run rely on | abstract specification |
| `NoaaIngest` | dates and marks of `jobs/noaa.py` | leaves a file's steps to `ModelRunIngest` |
| `NamPrecipitation` | `accumulate_nam_precipitation` and the derived amounts | the step from predictions to the flag, of one run |
| `RdpsSfms` | `jobs/rdps_sfms.py`, `weather_models/precip_rdps_model.py` | |
| `StationReadings` | the jobs of hourly actuals, noon forecasts and grass curing, `hourlies.py` | |
| `SfmsAdvisory` | `routers/sfms.py`, `nats_publish.py`, `nats_consumer.py`, the five stages | |
| `AdvisoryRasters`, `AdvisoryQueries` | what the stages compute of the pixels of a zone and store, and the queries of `routers/fba.py` | the queries extend the stages and read their rows |
| `FireBehaviour` | `fire_behaviour/` and `routers/fba_calc.py` | extended by the next two |
| `CriticalHours` | the hours of `fire_behaviour/prediction.py` and the zones of `critical_hours.py` | extends `FireBehaviour` |
| `HfiResults` | `hfi/hfi_calc.py` and the PDF of the HFI calculator | extends `FireBehaviour` |
| `HfiRequests` | handlers of `routers/hfi_calc.py` that store requests and ready states, on several worker processes | |
| `HfiStationAdmin` | `admin_update_stations` with `hfi/hfi_admin.py` | the detail of the admin's update in `HfiRequests` |
| `FireCentreCache` | `hfi/fire_centre_cache.py` and who uses it | |
| `ViirsSnow` | `jobs/viirs_snow.py` | |
| `CHaines` | the jobs and the API of C-Haines over one bucket | |
| `CHainesIndex` | the index, its severities and the KML | |
| `MoreCast` | `save_forecasts` with WF1, redis and the database | |
| `Wf1Dailies`, `Determinates` | the lists made of WF1's stations and dailies; `/morecast-v2/determinates` | the second extends the first |
| `Predictions` | the views and summaries of the predictions of a model | |
| `Lists` | lists by their positions: what they keep, and their values in a stable order | used by `CHainesIndex`, `HfiResults`, `Wf1Dailies`, `Determinates` |
| `BiasAdjustment` | what regressions learn from, `weather_models/machine_learning.py` | |
| `ModelRunIngestProofs`, `SfmsAdvisoryProofs`, `HfiStationAdminProofs`, `MoreCastProofs` | proofs about the module of that name | |
| `WeatherJobsProofs`, `CalculationsProofs`, `StoresProofs`, `ServicesProofs` | proofs about the parts of `MCWeatherJobs`, `MCCalculations`, `MCStores` and `MCServices`, and about these compositions | the last cites the theorems of the others, and shows that the questions asked of the calculations meet their hypotheses |
| `MCCalculations` | asks the calculations every question of a bounded set | instances of the modules without state of their own |
| `MCWeatherJobs` | NOAA, NAM, RDPS and the readings side by side | instances of the four |
| `MCServices` | the API and these jobs | extends both and `HfiRequests`, instances of the administration and MoreCast |
| `MCStores` | snow, C-Haines and the fire centres | extends `ViirsSnow`, instances of the other two |
| other `MC...` | constants, symmetry and deployments for TLC | |

Components that share no state would only multiply each other's states: in `MCServices` and
`MCStores` a behaviour is one of a single component, which its `topic` or `component` names.
Their constants are those of the components, given in the configurations, so that a theorem about a
composition holds for every instance of it. `MCServices` takes `HfiStationAdmin` and `MoreCast` by an
`INSTANCE` of the module of their proofs: that brings the theorems with the definitions, under the
same substitution.

Definitions marked `Regression` are plausible errors of the code next to them. No specification
uses them; each run's properties are tried against them.

### ModelRunIngest

A run is the hour it starts; a file holds the predictions of one hour for every station. The
tables are sets: `runRows`, `complete` and `interpolated` are the rows of
`prediction_model_run_timestamps` and its flags, `processed` is `processed_model_run_urls`, `stored` is
`model_run_predictions`, `predictions` is `weather_station_model_predictions`, and `view` is
`morecast_2_materialized_view`. The job's local state (`jobNow`, position in the run hours, in the
urls and in the stations, `queue`, `touched`) is a record of variables that `JobGone` clears.

| Action | Code |
|---|---|
| `CronFire` | the schedule starts a job; with `Replace` a running one is killed first |
| `SkipFile`, `FetchFails`, `OpenFile` | `process_model_run_urls`: flagged already, 404 or an exception, downloaded |
| `StoreValue`, `StoreFails`, `flag_file_as_processed` | `process_grib.py` (one commit per station) and the flag |
| `mark_prediction_model_run_processed` | after the urls of a run hour: complete if all are flagged |
| `QueryRuns`, `process_model_run`, `mark_model_run_interpolated` | `ModelValueProcessor.process` |
| `apply_data_retention_policy` | deletes what is older than `Retention` |
| `JobDies` | the end of the pod or an error outside every handler |
| `refresh_morecast2_materialized_view` | after the queue, if it was not empty; a job that counted a failure ends here |
| `OtherJobRefreshes`, `OtherJobRetains` | the jobs of the other models, at any moment: they rebuild the same view and apply the same retention |

The view (`alembic/versions/025a81a4b7bd`) joins the predictions of all models without a look at the
flags of their runs. So it may be rebuilt between any two commits of this job, by the job of another
model, and shows a run as soon as its predictions are committed. A job that dies after flagging its
last run leaves its refresh to any of these. `ModelRunPromise` has the stages of a run as readers may
rely on them: downloaded, complete, predicted, interpolated, in this order; visible only when predicted;
forgotten only when past the retention.

### NoaaIngest and NamPrecipitation

`NoaaIngest` keeps both clocks: `UrlsOf` is the run the urls of a run hour name, by the date in
US/Eastern, and `RunToMark` the run `mark_prediction_model_run_processed` looks up, by the time in
UTC. The downloads of one run hour are one step, since their interruption is covered above.

`NamPrecipitation` takes one run of one station. `NamAmount` is what a file holds: the amount since
the last accumulation hour of the cycle. `ProcessPrediction` is one turn of the loop, with the
write-back into the row, the interpolated prediction at noon, `delta_precip` and the last 24 hours;
`Commit` and `mark_model_run_interpolated` are the two commits a kill can separate.

### RdpsSfms and StationReadings

A key of `RdpsSfms` has the date it was stored under, the run hour and the grib (run and forecast
hour) of the file, so that it says when an object is not where its run belongs. `PutObject` and the
row are separate: objects are there at once, rows (`queue`, `saved`) at `Commit`, deletions of
objects at once and of their rows (`deleting`) at `Commit` again. `Compute` is one hour of
`compute_and_store_precip_rasters`; `ComputeRaises` is a raster that is missing, which rolls
everything back.

In `StationReadings` a behaviour has the jobs of one `kind`. A reading of WF1 has a quality per
field; `parse_hourly_actual` turns it into a row with its flags. Each row is an insertion of its
own that a unique constraint may refuse, except for grass curing, which is one transaction.
`onTime` and `done` are ghosts: the readings that were there when their job was due, and the hours
whose job ended well.

### SfmsAdvisory, AdvisoryRasters, AdvisoryQueries

`upload` stores a raster under its key and leaves a background task (`publishing`), which `publish`
turns into a message of `stream`. A consumer fetches, acknowledges, and goes through the stages:
`Check` (rows there already: next stage), `Read`, `PutMaskedRaster` for the first stage, `Write` (one
transaction), or `WriteNone`: a stage whose query finds nothing to store (no pixel under advisory, snow on
all of them, no station with critical hours) commits no row and goes on, and is done again when the
message comes again. The first stage always has its row of `run_parameters`. The history variable
`done` has the stages that were gone through, with rows or without. The value of a raster is the run it comes from, so that the rows of a stage say which
raster they were computed from. `UploadKey` is the key of a run by its local date of upload, `StatsKey`
the one it is looked for by the stages, by its date in UTC: in the instance the first of three runs is one of an
evening, for which the two differ. `Redeliver` is JetStream's redelivery of what was not acknowledged;
`StageRaises` and `StageFails` are the exception handler of `nats_consumer.py`, after which nothing
publishes the message again.

`AdvisoryRasters` is what a stage computes. Since every raster is warped to one grid, a pixel is a
record of all of them, a zone a sequence of pixels and an area a number of pixels.
`AdvisoryQueries` has the tables as a record of sets of rows, and the queries with their joins,
`DISTINCT ON` included: an arbitrary row of those that tie.

### HfiRequests, HfiStationAdmin, HfiResults, FireCentreCache

`HfiRequests` has one fire centre and one prep period. A setting handler is four steps: `Load` (the
most recent request, changed), the awaited calculation, `StoreBegins` and `StoreInserts` (the
queries of `store_hfi_request`), `StoreCommits`. `ToggleReads` and `ToggleCommits`, and `AdminSaves`
and `AdminUnreadies` are the others. A handler is on one of several workers, and `Free` says when a worker
process can run another one: only during an await; the commits of two workers need not
follow the order of their time stamps. Ghost variables remember what users were told (`lastSet`, `answered`,
`changed`) and where handlers met: `since` and `overwritten` are the areas whose setting a store of what was
loaded before it replaced, `crossed` those whose ready state was written between another store's copy
and its commit, `uncleared` those whose own update was rolled back because the cache could not be cleared.
The properties except these areas and no others.

`HfiStationAdmin` has the page too: `ShowPage` is `hydrate_fire_centres` and what the page sends for
the stations an admin picks, `ReadStations` the queries, `Save` the removal, the new order and the
additions with the unique constraints. Handlers of several workers get in between the two; the ghost
`outdated` has the areas that one has changed by rows of this area another had changed since it read them.

`HfiResults` follows the dailies of a period through intensity groups, areas and the sheets of the days; a
daily carries, instead of weather, what its prediction depends on. `FireCentreCache` counts the
changes of the administrators: a list is the number of the state it was read from.

### FireBehaviour and CriticalHours

The formulas are those of an R package. What matters here is which of them is called with what, so
a value is a number, `None`, an exception object that was returned, or the error that ended the
call: of cffdrs, of its input, or any other; each handler of the code catches some of these.
`CriticalHours` adds the diurnal tables of FFMC (`MCCalculations` has four rows of them) and finds
the first and the last hour as the code does, hour by hour from the middle of the day.

### ViirsSnow, CHaines, CHainesIndex

`JobStarts` takes the date after the last recorded one and today's; `download_and_clip`,
`create_pmtiles_layer` and `save_processed_snow` are the three stores of a date; `Unavailable` is the
501 that lets the loop go on; `Publish` is the NSIDC, in any order.

A job of `CHaines` is at a position in the runs and their predictions. `Skip` passes over a
prediction whose two objects exist, `Download` collects its files, `Save` stores one of the two
objects, in either order; `NoneOfTheRest` is the break at a file that is missing.
`_get_most_recent_model_run` orders the folders by name, as the object store does.
`CHainesIndex` keeps temperatures in whole degrees and the index in twelfths.

### MoreCast, Wf1Dailies, Determinates

A handler of `MoreCast` is at one of its awaits: `query`, `fill`, `post`, `clear`. `Hit`, `Miss`, `Fill` and
`NotFilled` are `_fetch_cached_response`; `Forms` is the id of the daily a forecast is posted under;
`Post`, `PostRefused` and `AnswerLost` are the outcomes of the post, `Clear` the deletion of the pages
that name a station, `Save` the rows. `raced` is a ghost: the stations for which two submissions
overlapped, a page was cached after a clearing it had been fetched before, or a submission failed
half way. `Wf1Dailies` carries the weather of a daily instead of reading it; a moisture code is the
chain of weathers it is calculated from, so that a gap in the chain shows.

### Predictions and BiasAdjustment

The rows of `weather_station_model_predictions` and the loops over them. A fitted regression is
the set of its samples, and what it makes of a prediction the pair of both.

`get_latest_station_prediction_mat_view` selects without an order, and only the stored rows of the view
have one, so `Predictions` answers with every order of the rows: which run Morecast shows of a day is left
open, but the model and its bias adjusted twin are of the same row. `BiasAdjustment` makes up a noon as the loop
of `_collect_data` does; that its condition is never met is what the run `noon_gaps` shows.

## 3. Runs

| Run | Question | Instance |
|---|---|---|
| `ingest` | can a flag or the view be ahead of the data, can a complete run be forgotten, do the jobs keep `ModelRunPromise` | days of 2 hours, 2 files, 2 stations, retention 1, 3 hours, 1 kill, and the jobs of other models at any moment; 918450 states |
| `sfms_deployments` | are rows single and the elevation from the run's own raster with one consumer; what do several still guarantee, and do redelivered messages finish | 3 runs, one of them of an evening and two that share a key, one or both of 2 consumers deployed, 3 uploads (2 with both), 2 failures, stages with and without rows; 1246671 states |
| `services` | do the rows, caches and answers of the API and the weather jobs agree with what they stand for | below; 1241588 states |
| `stores` | is what must be in a store there in the end, whole and current | below; 218647 states |
| `sfms_requeue` | does a failed message come back: violated | 1 run, 2 consumers, 2 uploads, 1 failure |
| `noaa_midnight` | is every run with all its files marked: violated for the run of 00 hours | jobs every 4 hours, 40 hours |
| `stations_cross_product` | does a request remove only what it names: violated | 1 admin, stations shared by 2 areas |
| `viirs_skipped` | is a date passed over: violated | 5 days, no kill |
| `advisory_hours` | are the hours shown with a zone its own: violated | 2 runs, 3 zones of 2 pixels |
| `chaines_newest` | is the newest stored run served: violated | the run hours of RDPS and HRDPS, the morning of one day |
| `noon_gaps` | is a noon made up where the model has none: violated | readings and predictions of 5 hours |
| `learning_window` | are only days learned that are over: violated | readings and predictions of 5 hours |

The properties of `services` by component, with its instance:

| Component | Properties | Instance |
|---|---|---|
| `HfiRequests` | `NothingIsLost`, `ClearedAreasAreNotReady` | 2 users, 2 workers, 2 areas, 2 settings, 2 toggles, 1 change by an admin, 1 failure of the cache |
| `HfiStationAdmin` | `OrdersAreConsecutive`, `RemovalsAreExact` | 2 admins, 2 workers, 2 requests with 2 removals and 1 addition each, 3 stations and 3 more to add, one of which is in two areas then |
| `MoreCast` | `CachedDailiesAreCurrent`, `DatabaseAgreesWithWf1` | 2 forecasters, 1 reader, 2 stations, 2 submissions, 1 read, 1 fault |
| `NoaaIngest` | `CompletedRunsAreMarked` | GFS, 2 files, 40 hours, jobs every 4 hours, files 4 hours late |
| `NamPrecipitation` | `PrecipitationAddsUp` | all four cycles, rain in any one hour from a day before the run to its end, 2 kills, runs interpolated 5 hours after their start |
| `RdpsSfms` | `ComputedCoversOneDay`, `RowsNameTheirObjects` | days of 4 hours, 6 hours, retention of a day, 1 fault |
| `StationReadings` | `ReadingsAreKept` | 2 stations, 5 hours, 2 reports, 2 versions of a noon forecast |
| Calculations | `BehaviourIsWhole`, `HoursAreCritical`, `PrepResultIsWhole`, `DeterminatesAgree`, `ChartIsWhole`, `AdvisoriesAgree`, `PredictionViewsAgree`, `LearnedOnce` | every question of `Questions` in `MCCalculations` |
| all | `TypesOK` | |

The properties of `stores`: `RecordedDatesAreStored`, `UnrecordedRastersAreRedone` and
`AvailableDatesAreRecorded` of `ViirsSnow` (7 days, the first job goes back 2, 2 kills);
`PredictionsHaveNoGaps` and `LastRunsAreStored` of `CHaines` (2 environments, 2 runs of 2
predictions a day, from noon of one day to midnight, 1 fault); `StaleListsExpire` of
`FireCentreCache` (2 readers, 3 changes); `StoreTypesOK` of all.

### Why the bounds are enough

* `ingest`: two files make a run that is partly downloaded; two stations a file that is partly stored;
  with days of two hours three hours reach the next day's run and, with a retention of one hour,
  rows that expire while a run is interpolated. One kill can fall between any two commits.
* `sfms`: two runs that share a key are what overwriting needs, a third whose two keys differ what the dates
  need, two consumers what a lost check needs, and two failures leave each prefix of the stages done.
* NOAA: 40 hours contain the difference of the two dates twice; the runs of all four cycles occur.
* NAM: everything computed is linear in the rain, so that single wet hours determine
  all amounts, except for the absolute difference, which the sums that only grow make linear too.
* RDPS: the hours cross a midnight with a run of noon, the retention deletes objects and rows, a fault
  falls between the two, and the computation takes both cases, with one grib and with two.
* Readings: the clock reaches two missed runs of the job and the hour after them; a reading can be late
  or corrected, and forecasts have a first and a second version.
* HFI requests: a lost change needs two handlers, on one worker or on two; a third could only repeat
  what the second does.
  Settings are two values of two areas, so that a lost change differs from one overwritten
  deliberately.
* Stations: with two removals and one addition in a request, and a list of two stations, every case of
  the reordering (first, last, all removed, re-added) occurs; two requests on two workers overlap in every
  way, and the second may find a station in two areas.
* MoreCast: pages of one and of both stations, two submissions that overlap or follow each other, and
  a reader that caches in between; any one of the calls fails.
* VIIRS: two missing dates, a kill after each store and the first job's days fit in seven days.
* C-Haines: two jobs at the same prediction, one of which dies between its two objects, and a run
  that is published while they go on. The hours of the instance go from day 9 to day 10, and no property of
  `stores` depends on the order of names; the one that does is that of `chaines_newest`.
* `chaines_newest`: the runs of 6 and 12 hours of one day, each of one prediction, are the least that two
  folders can be ordered wrongly by.
* Calculations: every combination of values that are there and missing, at and beside each threshold.

The runs in which the system may come to rest (bounded uploads, requests, days, questions) do not
check for deadlock; `ingest` does, since its jobs go on for ever.

### Fairness

* `ModelRunIngest`: weak fairness of `CronFire` (the schedule is hourly or faster than a run's life) and
  of the job's steps (a pod that is not killed goes on; `requests.get` has a timeout). Not of `JobDies`,
  whose number is bounded: a system whose every job dies makes no progress.
* `SfmsAdvisory`: weak fairness of background tasks and of each consumer's steps. None of uploads,
  of `Redeliver` or of failures.
* `ViirsSnow`: weak fairness of `JobStarts` (daily schedule) and of the job's steps. None of `Publish`.
* `CHaines`: weak fairness of time, of the datamart (what it does not publish nobody can store; only a
  last run that is published is promised) and of the work of each environment's jobs, which the
  schedule starts again. Faults are bounded.
* `FireCentreCache`: weak fairness of `Put` (calls to WF1 and redis return) and of `Expire` (redis
  expires every key). None of readers or administrators.

The other modules state safety only, and need no fairness.

## 4. What the runs show

Holds: no flag is ahead of its data in `ModelRunIngest` wherever a job is killed, since each flag
is committed after what it speaks of and the next job repeats what is not flagged; the view shows
whole runs whichever model's job rebuilds it and whenever, not because of a flag but because the predictions of a
run are one commit, of a run that is complete, and because its window is no longer than the
retention; every rebuild publishes also what a killed job left. A table of an advisory has rows only
after every earlier stage has stored what it found, for any number of consumers; the polygons and the
fuel statistics of a run are never made of an older raster. The HFI calculator loses a ready state or a
setting only in a store that crosses with it, whatever else its workers do side by side, and an area
whose stations changed stays not ready unless its own update is rolled back or crossed. Orders of stations stay
consecutive under admins who work from stale pages, until two handlers change one area by rows
they both read before. Recorded snow dates have their rasters, and
C-Haines predictions have no gap, since each is tried in order and the first that is missing ends
the run. WF1, the cache and the database agree about every station two handlers did not race for.
Precipitation rasters subtract gribs of one run although their keys are made of dates; two missed
runs of the hourly job lose nothing.

Does not hold, each a run with a counterexample of a few steps:

* `FailedMessagesComeBack`: "adding back to queue" is only logged.
* `NoRunIsLeftBehind`: between 00:00 and 04:00 UTC the NOAA job completes yesterday's 00 cycle and looks
  up today's; the run is never marked or interpolated.
* `OnlyRequestedStationsAreRemoved`: a request for station 1 in one area and 2 in another also removes 2
  from the first and 1 from the second.
* `NoDateIsSkipped`: "try again later" does not happen for a date whose successor is recorded.
* `HoursAreOfTheZone`: critical hours are joined on the run alone, and those of any zone are shown.
* `NewestRunIsServed`: folders are ordered by name and not padded, so of RDPS and HRDPS the run of 06 hours is
  served in place of those of 12 and 18 hours, every day; and of every model the last run of day 9 in
  place of those of day 10.
* `NoonGapsAreFilled`: the query keeps no reading without a prediction of the model, so the one before 21:00
  is of 18:00, never of 20:00, and no noon is ever made up.
* `OnlyPastDaysAreLearned`: "yesterday" is computed by subtracting minus one day.

### Known counterexamples outside the runs

The passing runs check the part that holds; this is the part that does not. Each definition, or the
definition without the exception named, is violated by TLC with these constants.

| Definition | Violated with | Because |
|---|---|---|
| `SfmsAdvisory!RowsAreWrittenOnce` | 1 run, 2 consumers, 2 uploads, no failure | check and insert in two transactions, no unique constraint on polygons (`process_hfi.py:91`) |
| `SfmsAdvisory!RasterStatsAreNotStale` for `Tpi` | 2 runs of one key, 2 consumers | the runs of a day share the key of the masked raster (`elevation.py:49`) |
| `SfmsAdvisory!RasterStatsAreNotStale` without `FindsItsRaster` | a run of an evening and one of the next day | written by local date, read by UTC date (`elevation.py:49`, `process_fuel_type_area.py:235`) |
| `NamPrecipitation!PredictionsAreCumulative` | `Cycles = {12}`, 1 kill | a sum is added up again (`common_model_fetchers.py:431`) |
| `HfiRequests!NoSettingIsLost` without `overwritten` | 1 worker, 2 users, 2 settings | the whole request is stored after an await (`routers/hfi_calc.py:217`) |
| `HfiRequests!ReadyIsAsAnswered` without `crossed` | 2 workers, 2 settings, 1 toggle | ready records are copied across a commit (`db/crud/hfi_calc.py:105`) |
| `HfiRequests!ClearedAreasAreNotReady` without `uncleared` | 1 failure of the cache | only the ready states are rolled back (`routers/hfi_calc.py:451`) |
| `HfiStationAdmin!OrdersAreConsecutive` without `outdated` | 2 workers, a removal and an addition | both read the same rows, and no constraint refuses the gap (`hfi/hfi_admin.py:78`) |
| `HfiStationAdmin!RemovalsAreExact` without `Alone` | a station of two areas, with other orders | it is shown with one order for both (`hfi/hfi_calc.py:187`) |
| `FireCentreCache`, a list that is always current | 1 reader, 1 change | a list read before a change is stored after it, until it expires (`fire_centre_cache.py:36`) |

Four more are read off definitions that follow the code:

* `StationReadings!Flags` has the validity flags of wind speed and wind direction exchanged, as
  `get_valid_flags` and its callers have (`schema_parsers.py:293`): a speed that is out of range is shown as
  valid when the direction is in range. Every property of the readings holds with it, since none tells
  fields apart.
* The sheet of a station (`hfi/pdf_data_formatter.py:172`) puts its dailies into the columns of the days by
  their position in a list with gaps, so that after a missing daily the later ones stand under the day before.
  `HfiResults` has the sheets of the days, and `SheetsShowTheirDays` of them.
* Files of yesterday's run of 12 hours that come after midnight UTC are stored under the date of the
  job (`rdps_sfms.py:59`; the second case of `RdpsSfms!StoredUnderItsOwnDate`), where the computation does not
  look; and a raster that is missing ends the computation for the later hours too (`ComputeRaises`).
* A fuel type code without a fuel type ends the critical hours of all zones (`critical_hours.py:246`,
  an error in `CriticalHours`); and where the search finds 0 as the critical FFMC, so that all hours are critical,
  the answer is 13:00 to 07:00, which `HoursAreCritical` excepts.

## 5. Proofs

The theorems hold for every value of the constants that satisfies the assumptions of the module, or
the `Parameters` a theorem names: any number of users, stations, runs, jobs, kills and failures. TLC has
evaluated these hypotheses for the constants of every run: the instances satisfy them. Each module
proves an inductive invariant, of which the properties are conjuncts or consequences.

`ModelRunIngestProofs`: `TypeCorrect`, `CompletenessNeverLies`, `InterpolationNeverLies`,
`ReadersSeeWholeRuns`, `RefreshIsComplete` and `Refinement` (the jobs, beside those of the other models,
implement `ModelRunPromise`). The safety properties are not inductive: that a complete run is stored depends on
the flags of its files, and these on the values stored before them. The invariant adds `FlaggedFilesAreStored`,
`CompleteRunsAreFlagged`, `PredictionsAreWholeRuns` and `JobAgrees`, which ties the job's local state
to the tables: the stations it has finished are stored, its queue and the interpolated runs are the
complete ones. Since any model's job may rebuild the view between two commits, that readers see whole runs
rests on `PredictionsAreWholeRuns`, which says at every commit that what is predicted is of complete runs, and all
of them but what has expired; no flag plays a part. Two lemmas carry the argument about time: what has
expired stays expired, and retention deletes nothing else. The assumption `ViewWindow <= Retention` is
used where it matters, in `ReadersSeeWholeRuns`.

`SfmsAdvisoryProofs`: `TypeCorrect`, `OrderOfStages` and `FuelStatsOnce`, from an invariant that says that a
consumer in a stage has gone through every earlier stage of its run, or found that another had
(`EarlierStagesAreThere`), and that nobody goes on without the row of run parameters, nor writes critical
hours without their fuel types (`RunsAreThere`). `RasterStatsComeOfTheirRun`, for any number of consumers, adds what the
stages rely on in the store: nobody hears of a run before its raster, or a newer one of its key, is there
(`HeardRunsArePosted`), a key never goes back to an older run (`StoreGrows`), and what was read or stored
lies between the run and the newest of its key (`RowsComeOf`, `DataComesOf`). `AloneRowsAreSafe` is what one
deployed consumer adds: what it found missing is still missing when it writes (`OnceInv`), and every raster
it holds or has masked is not older than its run (`MaskedInv`, `OwnInv`), which makes the elevation its own too. None
of them assumes that the two keys of a run agree: a run whose raster is looked for elsewhere is named in the
property (`FindsItsRaster`), and what the properties say of the other runs holds beside it.

`ServicesProofs`, on `HfiRequests`: `TypeCorrect`, `LostOnlyToCrossingStores` and
`ChangedAreasLoseReadiness`, for any number of users and of workers and any failures. The invariant says that time
stamps are taken once, so that the query for the most recent request finds the one row that has the
largest (`StampsAreTaken`; commits need not follow the order of the stamps); that wherever a ready state
is on its way (the most recent row, the records a store is about to copy, the row it is about to commit)
it is the one last answered, but in areas that a store has crossed (`ReadyIsCarried`); that
what a handler is about to store differs from what was set only in areas others have set since it loaded the
request (`SettingsAreCarried`); and that an area whose stations changed was answered to be not ready, or is
about to be (`ChangesAreAnswered`).

`HfiStationAdminProofs`: `NumbersHaveNoGap` and, as an action property, `RowsNameTheirStations`, for any
number of admins and workers, any requests, and stations that several areas share. `Parameters` says only
that the rows at first are numbered. Two handlers that read the same rows do leave a gap that no constraint
refuses; the ghost `outdated` has the areas of which this is so, and the theorem says that all others stay
numbered, whatever is going on in these. The heart is the lemma that one save of the rows it has
read keeps the numbers of an area consecutive when these rows are still the area's (`SameRows`, `SavedRows`):
the stations that stay are numbered by their rank, a bijection onto
`1 .. n` (found by the pigeonhole principle of `FiniteSetTheorems`), the added ones follow, and
removed ones have none. The orders of a page are then the places in the list, so that the three
independent filters of `get_stations_for_removal` pick what the page named, where the page shows
the area as it is and without a station that is in another area too; in any case they pick nothing outside the
cross product of the request. The run `stations_cross_product` has the counterexample to more.

`MoreCastProofs`: `TypeCorrect`, `CacheIsCurrent` and `DatabaseAgrees`, for any number of forecasters,
readers, stations and faults. The invariant follows a submission of a station nobody raced for:
pages in flight are as good as cached ones until they are cleared (`PagesAreCurrent`), WF1 has one
forecast of the station (`OneForecast`) and the form holds its id or none (`FormsFit`), so that the
post leaves exactly the new forecast (`CarriedOut`); between the post and the commit WF1 is ahead of
the database by this submission (`ValuesAgree`), whose time stamp is later than every stored one
(`StampsGrow`). That a greatest time stamp exists is a conjunct of the invariant.

`WeatherJobsProofs` has the four weather jobs.

* RDPS: `RdpsTypeCorrect`, `RastersCoverOneDay`, `RowsKeepTheirObjects`, `MidnightOnly`, for days of any
  even number of hours and a retention of a day or more. The lemmas are the arithmetic of dates:
  that the two keys of a raster name hours one day apart of one run (`KeysCoverOneDay`).
* NOAA: `NoaaTypeCorrect`, `CompletenessNeverLies` and `LaterRunsAreMarked`, for an offset of the East
  of one to six hours. The lemma `RunsOfAnHour` says when the two clocks name the same run: always, but for
  a run that starts at midnight or is yet to come.
* NAM: `NamAddsUp`, for rain in any set of hours (the run takes one hour at a time) and any number of
  kills. Where several attempts have added to the stored amounts, a prediction
  keeps its difference from the one before it (`DeltaIsRight`), which is what `DeltasAddUp` sums;
  a first attempt also has the right totals (`FirstAttempt`).
* Readings: `ReadingsKept`. The invariant says what a running job of each kind still has to write
  (`JobIsSound`): a reading that was in time and has no row is among it.

`CalculationsProofs` has seven of the calculations. Fire behaviour: `PredictionsAreWhole` and `StationsAreAnswered`, for every
fuel type, any known or missing inputs, and any number of stations. An answer is the first error of
its calls, or their result (`NoError`, `FirstError`, `NoneFailed`), so it is enough to say of each call what it
comes to when the inputs it needs are there. The hypothesis `Apart` tells what stands for no number and for
an error from the numbers and records of an answer; crown base height and crown fuel load are known
(`FuelInputs`), since the HFI calculator takes them from the defaults of the fuel type.

Bias adjustment: `LearningIsOnce`, for any rows that meet the unique constraints of their tables
(`Keyed`: one reading of an hour, one prediction of a model, run and hour). The query has an order
to be in (`QueryIsInOrder`, from `InOrderExists`: a finite set can be listed in any strict order), in which the first row of a
reading is that of the newest run (`FirstIsNewest`); the loop over it is a fold, so the states it
goes through exist (`CollectedInTurn`), and by induction it has learned the known ones among the
first rows so far (`CollectsFirst`). The reading and the prediction that the loop keeps are then always of the same hour, so
the condition of `machine_learning.py:129`, a reading of 20:00 kept with a prediction of 18:00, never
holds: the query leaves out a reading without a prediction of the model, and the
interpolated noon of line 137 is never learned (the run `noon_gaps`). `BiasApart` tells None from a row and from a pair.

Advisories: `StagesAlwaysAgree`, for a zone of any pixels, any age of the snow and any fuel types. Each
area is the cardinality of a set of pixels: the polygons of a threshold are one set (`PolygonsHaveTheirArea`),
and the fuel types of a threshold part another among them, so that their areas add up to it
(`AreasAddUp`, by induction over the number of rows, and `FuelsHaveTheirArea`). A pixel has one
class, and the snow decides whether both sets have it (`ClassesOfPixels`). `ViewsAlwaysAgree`, for any
tables with unique shapes in which the rows of one run are what the stages store of any zones,
and those of other runs are anything: that a zone with TPI is in the list of areas comes from the stages
(`CountedHasArea`). `RunsAreAlwaysListed`, for any rows under the unique constraint of the run parameters.
`AdvisoryApart` tells None from the ids and the rows of the tables.

Critical hours: `HoursAreAlwaysCritical`, for any tables as `TablesAreWhole` says (an assumption that the runs
evaluate for their tables), any FFMC, any known or missing humidities of the morning, and intensities
that rise with the FFMC (`Rises`), which is what the search for the critical FFMC relies on. Each end has
a lemma (`StartIsCritical`, `EndIsCritical`): a loop that stops at the first hour that is not critical is the
largest or the least element of the set of hours at which it may stop, and `EndsExist` says that there is one.
`CurveIsCritical` joins the two along the diurnal curve. The loops find the column of 18:00 at 17:00, while
the curve has the daily FFMC there; the end is right all the same because no row of
`afternoon_overnight.csv` has a lower FFMC at 18:00 than at 16:00, which is why `TablesAreWhole` asks for that.
`ZonesHaveTheirHours`, for any zones whose stations have hours of the clock: the order that the percentile
sorts by exists (`SortedExists`), a percentile lies between two of the times (`PercentileIsBetween`), and rounding
it down for the start and up for the end stays between them (`TimesAreOfStations`).

C-Haines charts: `ChartsAreWhole`, for a row of any number of cells and any temperatures. The polygons
of a row are its runs of equal severity, each of which stands for all of its cells; sorted
by severity they are listed by their ranks, so that the polygons of one severity follow each other
in the order of the GeoJSON, and a placemark is such a stretch of the list. That the index grows
with the instability and that the time spans of a run follow each other are lemmas of all temperatures
and hours.

HFI results: `ResultsAreWhole`, for any planning areas, stations, number of days and dailies of WF1, one of a
station and day. The loop over the dates and the stations groups the dailies of a date, whatever their
order; a mean of groups or of levels lies between the least and the greatest (an induction over their number),
and rounding it (groups up
from three quarters on, a half of a level to the even one) stays there. The mean prep level of an area exists exactly when
each selected station has an intensity group on each day, which is counted: the groups of a day are as
many as the stations iff no station is without one. The sheets of the days show the dailies of their day by the same
argument. `IsLookup` is what the table of prep levels is, `Apart` as above. `PeriodsAreWhole` has the dates,
for all integers and missing ends.

Determinates: `Wf1ListsAgree`, for any stations, groups, station codes, dailies and any page size, and
`DeterminatesAreWhole`. The latter assumes of WF1 (`OneDailyEach`) that of the dailies the code maps
there is one of a station and day, and that it lists the forecasts of a station in the order of their days; and of the
table (`StampedOnce`) that no two forecasts of a station and day have one time stamp. Dailies of other types may
be anything. The list of all is that of the actuals with that of the forecasts after it, so a
forecast has the value of the day before in front of it, which is the order the loop over
`add_forecast_moisture_codes` needs: its states exist (`TurnsExist`), and a turn changes one value, from a value that is final already.
Replacing a forecast by ours changes neither its station nor its day.

`StoresProofs` has the stores.

* Snow: `TypeCorrect`, `StoredBeforeRecorded`, `OncePerDate` and `LeftoversAreRedone`.
  `RecordedInOrder` and `UnrecordedRastersAreRedone` say nothing of a running
  job, so they are not inductive: the invariant adds that everything recorded is before the date the
  job works on (`JobDates`), what it has stored of that date (`StoredSoFar`), and that it leaves no
  date with a raster behind it (`NothingLeftBehind`: what it passes over had no imagery). The lemma
  `QueryFindsLatest` turns the query's maximum into the last row.
* C-Haines: `RunsAreWhole`, for any number of environments. The invariant says that a job at a prediction has found or stored
  both objects of every earlier one of the run, and that whoever stores an object has stored, or
  found, all before it. Nothing is assumed of the run
  hours, and nothing is proved of the run that is served when none is asked for: `chaines_newest` violates it.
* `StoresTypeCorrect`: the three together, the fire centres included.

The compositions: a property of `services` is a property of `ServicesSpec`, whose constants and variables
are those of seven components. For each there is a lemma that `ServicesSpec` implements its
specification (`RequestsImplement`, `AdminImplements`, `MorecastImplements` and so on: the initial states are
its initial states, and a step of another topic leaves its variables alone). The theorems
`NoAnswerIsLost`, `ClearedAreasStayNotReady`, `OrdersHaveNoGap`, `RequestedStationsAreRemoved`,
`DailiesAreCurrent`, `ForecastsAgree`, `RunsAreMarked`, `PrecipitationIsWhole`,
`ComputedRastersCoverOneDay`, `RowsStandForObjects`, `ReadingsStay`, `BehaviourStaysWhole`, `LearnedOnceAlways`,
`AdvisoriesAlwaysAgree`, `HoursStayCritical`, `ChartsStayWhole`, `PrepResultsStayWhole`, `DeterminatesStayAgreed` and
`ServicesTypeCorrect` follow from the theorem of the component, cited where it is proved. For the calculations a
lemma says that each question that `MCCalculations` asks meets the hypotheses of the theorem
(`BehaviourOfQuestions`, `PrepOfQuestions`, `DeterminatesOfQuestions` and so on), so none of these is empty.

Induction over data is out of the prover's reach as a theorem about operators, since the induction
theorems take one. Two arguments avoid it where a definition is not recursive: that a nonempty set
of natural numbers has a least element (from `WFMin`, with a set for the order) stands for an induction
in the sums of NAM, the latest accumulation and the first error of a calculation, and cardinalities
of bijections for one in the ranks of stations. `AllNumbers` is the first of them as a principle, for sets of numbers, and
`FoldExists` says that a fold over the numbers up to n exists, which the bias adjustment uses.
Definitions that sort or filter sequences (`SortSeq`, `SelectSeq`) are opaque to the prover: `Lists` defines both by
the positions that are kept or the ranks of the values, which has the same value in TLC and can be reasoned about.

Only model-checked: the liveness properties (`CompleteRunsGetInterpolated`,
`ResumedMessagesAreFinished`, `AvailableDatesAreRecorded`, `LastRunsAreStored`, `StaleListsExpire`),
which are out of the prover's reach, and `PredictionViewsAgree`: the views of the predictions sort rows with
equal keys and fold them into tables of tables, so the proof would have to follow several nested loops
with no simpler definition to compare them to. The run asks them every question of a bounded set.
Every other property of the passing runs is stated by a theorem.

## 6. Not modelled

* Numeric results: the formulas of cffdrs, regressions, interpolation, percentiles, the warping and
  polygonizing of rasters. They are functions of a library or of floating point numbers; what the
  code decides around them is modelled.
* Parsing and formatting of WF1's answers, files of models, KML and PDF beyond the decisions named above.
* Percentile calculator and the lists of stations of `stations.py`: lookups in files.
* REDapp (`utils/redapp.py`): calls of an external library.
* Authentication, configuration, health: no state of their own.
* The web client: presentation of what the API answers. Its slices take answers in the order they
  arrive, and drafts live in local storage; neither touches the state of the server.
* HFI requests of several prep periods and fire centres, which do not meet; prep days outside of their
  period, which the pages do not offer (one before its start is a negative index, which Python takes from the
  end of the list, `routers/hfi_calc.py:294`).
* The redis cache of downloaded model files, which only saves a download; alembic migrations; the
  deployment beyond schedules, replicas and policies.

`PROJECT.json` gives the reason for each component. What could be added next: the settings of stations
an administrator added after a request was stored, a list of WF1 that changes between two of its
pages, and proofs about the views of the predictions.
