----------------------------- MODULE MCWeatherJobs -----------------------------
(***************************************************************************)
(* The jobs that bring weather in, beside that of Environment Canada: NOAA *)
(* and the precipitation of NAM, the rasters of RDPS, and the readings and *)
(* noon forecasts of WF1.  Each has its own variables, and its bounds here.*)
(***************************************************************************)
EXTENDS Integers, Sequences, FiniteSets

CONSTANTS
  EasternOffset, NFiles, Delay, Period, NoaaHours,   \* NoaaIngest
  Age, MaxKills,                                     \* NamPrecipitation
  Half, Retain, RdpsStarts, RdpsEnds, MaxFaults,     \* RdpsSfms
  NoReading, Stations, MaxClock, MaxReports, MaxVersions \* StationReadings

VARIABLES
  \* NoaaIngest
  noaaClock, processed, runRows, complete, noaaNow, slot, noaaPc,
  \* NamPrecipitation
  cycle, wet, amount, predictions, interpolated, namPc, done, cumulative, sAmount, sPredictions, kills,
  \* RdpsSfms
  hour, published, objects, computed, saved, modelRuns, rdpsPc, now, run_hour, queue, downloaded, deleting,
  forecast, lastJob, rdpsFaults,
  \* StationReadings
  kind, readingsClock, reported, noon, actuals, noons, curing, job, ran, reports, onTime, endedWell

noaaVars == <<noaaClock, processed, runRows, complete, noaaNow, slot, noaaPc>>
namVars == <<cycle, wet, amount, predictions, interpolated, namPc, done, cumulative, sAmount, sPredictions, kills>>
rdpsVars == <<hour, published, objects, computed, saved, modelRuns, rdpsPc, now, run_hour, queue, downloaded,
              deleting, forecast, lastJob, rdpsFaults>>
readingsVars == <<kind, readingsClock, reported, noon, actuals, noons, curing, job, ran, reports, onTime, endedWell>>
jobsVars == <<noaaVars, namVars, rdpsVars, readingsVars>>

\* get_gfs_and_nam_model_run_hours
GfsAndNamRunHours == <<0, 6, 12, 18>>

Noaa == INSTANCE NoaaIngest WITH
  RunHours <- GfsAndNamRunHours, FirstHour <- 0, LastHour <- NoaaHours,
  clock <- noaaClock, now <- noaaNow, pc <- noaaPc

Nam == INSTANCE NamPrecipitation WITH
  Cycles <- {GfsAndNamRunHours[i] : i \in 1 .. 4}, pc <- namPc

\* A day has twice Half hours, with a run every Half of them: four and two in
\* Services.cfg.
Rdps == INSTANCE RdpsSfms WITH
  FirstHour <- RdpsStarts, LastHour <- RdpsEnds, pc <- rdpsPc, faults <- rdpsFaults

\* A good reading, one with an impossible wind speed, and one with no values.
Good == [f \in {"temp", "rh", "wspeed", "wdir", "precip"} |-> "ok"]
ReportedReadings == {Good, [Good EXCEPT !["wspeed"] = "bad"], [f \in DOMAIN Good |-> "null"]}

Actuals == INSTANCE StationReadings WITH
  None <- NoReading, Raws <- ReportedReadings, clock <- readingsClock, wf1 <- reported, done <- endedWell

WeatherJobs == {"noaa", "nam", "rdps", "readings"}

\* What a component could start with matters only where it is the topic.
JobsInit(topic) ==
  /\ Noaa!Init /\ Nam!Init /\ Rdps!Init /\ Actuals!Init
  /\ topic = "nam" \/ (cycle = 0 /\ wet = {1})
  /\ topic = "readings" \/ kind = "hourly"

-----------------------------------------------------------------------------
\* Types of what the jobs keep.
JobTypesOK == Noaa!TypeOK /\ Nam!TypeOK /\ Rdps!TypeOK /\ Actuals!TypeOK

\* A run that NOAA jobs mark complete has all its files, and a run with all its files
\* is marked by the time no job asks for it any more, unless it starts at midnight.
CompletedRunsAreMarked == Noaa!CompleteRunsAreProcessed /\ Noaa!NoLaterRunIsLeftBehind

\* Precipitation of a NAM run adds up: each difference is to the prediction before,
\* and unless a job was killed the sums are those since the start of the run and the
\* last 24 hours are measured.
PrecipitationAddsUp ==
  Nam!DeltasAddUp /\ Nam!FirstAttemptIsCumulative /\ Nam!FirstAttemptMeasuresPastDay

\* A raster of computed precipitation is that of the 24 hours to its hour.
ComputedCoversOneDay == Rdps!ComputedCoversOneDay

\* A row that keeps an RDPS file from being downloaded has its object, under the
\* date of its run unless it was fetched after midnight.
RowsNameTheirObjects == Rdps!SkippedUrlsAreStored /\ Rdps!StoredUnderItsOwnDate

\* Two missed runs of the hourly job lose no reading, no hour of rain counts twice,
\* the last noon forecast is the one that is shown, and a day has the grass curing of
\* every station or of none.
ReadingsAreKept ==
  /\ Actuals!MissedRunsLoseNothing /\ Actuals!RainIsCountedOnce
  /\ Actuals!LastNoonIsShown /\ Actuals!GrassCuringIsWhole
=============================================================================
