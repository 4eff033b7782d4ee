---------------------------- MODULE StationReadings ----------------------------
(***************************************************************************)
(* The jobs that copy readings of weather stations into the database:      *)
(* hourly actuals (jobs/hourly_actuals.py), noon forecasts                 *)
(* (jobs/noon_forecasts.py) and percent grass curing                       *)
(* (jobs/grass_curing.py), and which noon forecast is shown (stations.py). *)
(* OpenShift replaces a job that still runs when the next of its kind is   *)
(* due.  The kinds share nothing, so a behaviour of the model has the jobs *)
(* of one kind.                                                            *)
(*                                                                         *)
(* A raw reading gives each field as "ok", "bad" (a number out of range),  *)
(* "null", or "missing", which is stored as NaN.                           *)
(***************************************************************************)
EXTENDS Integers, FiniteSets, FiniteSetsExt

CONSTANTS
  Stations, None,
  Raws,      \* what WF1 may report for a station and hour
  MaxClock, MaxReports, MaxVersions  \* bounds

Fields == {"temp", "rh", "wspeed", "wdir", "precip"}
Cells == {"ok", "bad", "null", "missing"}

HoursPerDay == 3  \* a day of the model; grass curing has one date for each
Today(t) == t \div HoursPerDay

VARIABLES
  kind,    \* the kind of job that this behaviour is about
  clock,
  wf1,     \* what WF1 has for each station and hour: a raw reading, or none
  noon,    \* the updateDate of each station's coming noon forecast, 0 for none
  actuals, \* rows of hourly_actuals
  noons,   \* rows of noon_forecasts
  curing,  \* rows of percent_grass_curing
  job,     \* the rows that a running job has yet to write, or none
  ran,     \* the last hour for which an hourly or noon job was started
  reports, \* number of reports so far
  onTime,  \* ghost: readings WF1 had when their hour's job was due
  done     \* ghost: hours whose hourly job ended well

vars == <<kind, clock, wf1, noon, actuals, noons, curing, job, ran, reports, onTime, done>>

Hours == 0 .. MaxClock
Kinds == {"hourly", "noon", "curing"}

-----------------------------------------------------------------------------
(* Readings *)

\* validate_metric: a number in the field's range.
validate_metric(cell) == cell = "ok"

\* get_valid_flags returns the flag of wind speed before that of direction.
get_valid_flags(raw) ==
  <<raw["temp"] # "null", validate_metric(raw["rh"]), validate_metric(raw["wspeed"]),
    validate_metric(raw["wdir"]), validate_metric(raw["precip"])>>

\* Its callers take the direction's before that of the speed.
Flags(raw) ==
  LET flags == get_valid_flags(raw)
  IN [temp |-> flags[1], rh |-> flags[2], wdir |-> flags[3], wspeed |-> flags[4],
      precip |-> flags[5]]

\* parse_hourly_actual: nothing when no flag is set.
parse_hourly_actual(s, h, raw) ==
  IF \A f \in Fields : ~Flags(raw)[f] THEN None
  ELSE [station |-> s, hour |-> h, raw |-> raw, valid |-> Flags(raw)]

\* get_accumulated_precipitation for a station after one hour, up to another, an
\* hour of rain being 1; a row without a number makes it NaN, here None.
get_accumulated_precipitation(s, after, upto) ==
  LET its == {r \in actuals : r.station = s /\ after < r.hour /\ r.hour <= upto}
  IN IF \E r \in its : r.raw["precip"] \notin {"ok", "bad"} THEN None ELSE Cardinality(its)

\* The noon forecasts that get_noon_forecast_observation_union shows of a station:
\* those of the last job that stored one.
NoonShown(s) ==
  LET its == {r \in noons : r.station = s}
  IN {r.update : r \in {x \in its : \A y \in its : y.created <= x.created}}

-----------------------------------------------------------------------------
(* What the jobs fetch *)

\* Regression: from one hour back, as the comment on _get_start_date begins.
OneHourAgo(t) == t - 1

\* _get_start_date: three hours back.
_get_start_date(t) == t - 3

\* get_hourly_actuals_all_stations, later than the start and up to now.
HourlyRows ==
  LET due == {x \in Stations \X Hours :
                _get_start_date(clock) < x[2] /\ x[2] <= clock /\ wf1[x] # None}
  IN {parse_hourly_actual(x[1], x[2], wf1[x]) : x \in due} \ {None}

\* get_noon_forecasts_all_stations, of the noons to come.
NoonRows == {[station |-> s, update |-> noon[s], created |-> clock] : s \in {x \in Stations : noon[x] > 0}}

\* _process_grass_curing: the value of the raster at every station.
CuringRows == {[station |-> s, day |-> Today(clock)] : s \in Stations}

-----------------------------------------------------------------------------
Init ==
  /\ clock = 0 /\ ran = -1 /\ reports = 0
  /\ wf1 = [x \in Stations \X Hours |-> None]
  /\ noon = [s \in Stations |-> 0]
  /\ actuals = {} /\ noons = {} /\ curing = {} /\ job = None /\ kind \in Kinds
  /\ onTime = {} /\ done = {}

\* A station reports an hour, on time, late, or once more with other values.
Report(s, h, raw) ==
  /\ kind = "hourly" /\ h <= clock /\ reports < MaxReports
  /\ wf1' = [wf1 EXCEPT ![<<s, h>>] = raw]
  /\ reports' = reports + 1
  /\ onTime' = IF h = clock /\ ran < clock /\ wf1[<<s, h>>] = None
                  /\ parse_hourly_actual(s, h, raw) # None
               THEN onTime \union {<<s, h>>} ELSE onTime \ {<<s, h>>}
  /\ UNCHANGED <<kind, clock, noon, actuals, noons, curing, job, ran, done>>

\* Forecasters update the coming noon forecast of a station.
UpdateNoon(s) ==
  /\ kind = "noon" /\ noon[s] < MaxVersions
  /\ noon' = [noon EXCEPT ![s] = @ + 1]
  /\ UNCHANGED <<kind, clock, wf1, actuals, noons, curing, job, ran, reports, onTime, done>>

\* The next hour; a job that still runs is replaced.
Tick ==
  /\ clock < MaxClock
  /\ clock' = clock + 1 /\ job' = None
  /\ UNCHANGED <<kind, wf1, noon, actuals, noons, curing, ran, reports, onTime, done>>

\* The hourly job of this hour, if OpenShift starts it, fetches its readings.
HourlyStarts ==
  /\ kind = "hourly" /\ job = None /\ ran < clock
  /\ ran' = clock
  /\ job' = HourlyRows
  /\ UNCHANGED <<kind, clock, wf1, noon, actuals, noons, curing, reports, onTime, done>>

\* Its rows are created at the time at which the job started.
NoonStarts ==
  /\ kind = "noon" /\ job = None /\ ran < clock
  /\ ran' = clock
  /\ job' = NoonRows
  /\ UNCHANGED <<kind, clock, wf1, noon, actuals, noons, curing, reports, onTime, done>>

\* _run_grass_curing does nothing on a day that has rows already.
CuringStarts ==
  /\ kind = "curing" /\ job = None
  /\ Max({-1} \union {r.day : r \in curing}) < Today(clock)
  /\ job' = CuringRows
  /\ UNCHANGED <<kind, clock, wf1, noon, actuals, noons, curing, ran, reports, onTime, done>>

\* save_hourly_actual commits row by row; the constraint on weather_date and
\* station_code keeps the first, and the job goes on after the rollback.
save_hourly_actual(row) ==
  /\ kind = "hourly" /\ row \in job
  /\ actuals' = IF \E r \in actuals : <<r.station, r.hour>> = <<row.station, row.hour>>
                THEN actuals ELSE actuals \union {row}
  /\ job' = job \ {row}
  /\ UNCHANGED <<kind, clock, wf1, noon, noons, curing, ran, reports, onTime, done>>

\* save_noon_forecast, with a constraint that includes the updateDate.
save_noon_forecast(row) ==
  /\ kind = "noon" /\ row \in job
  /\ noons' = IF \E r \in noons : <<r.station, r.update>> = <<row.station, row.update>>
              THEN noons ELSE noons \union {row}
  /\ job' = job \ {row}
  /\ UNCHANGED <<kind, clock, wf1, noon, actuals, curing, ran, reports, onTime, done>>

\* The session of the job commits all rows of grass curing at its end.
CommitCuring ==
  /\ kind = "curing" /\ job # None
  /\ curing' = curing \union job /\ job' = None
  /\ UNCHANGED <<kind, clock, wf1, noon, actuals, noons, ran, reports, onTime, done>>

JobEnds ==
  /\ kind \in {"hourly", "noon"} /\ job = {}
  /\ done' = IF kind = "hourly" THEN done \union {clock} ELSE done
  /\ job' = None
  /\ UNCHANGED <<kind, clock, wf1, noon, actuals, noons, curing, ran, reports, onTime>>

\* A job dies: WF1, the WCS of the CWFIS or the database fails it.
JobDies ==
  /\ job # None
  /\ job' = None
  /\ UNCHANGED <<kind, clock, wf1, noon, actuals, noons, curing, ran, reports, onTime, done>>

Next ==
  \/ \E s \in Stations, h \in Hours, raw \in Raws : Report(s, h, raw)
  \/ \E s \in Stations : UpdateNoon(s)
  \/ Tick \/ HourlyStarts \/ NoonStarts \/ CuringStarts
  \/ job # None /\ \E row \in job : (save_hourly_actual(row) \/ save_noon_forecast(row))
  \/ CommitCuring \/ JobEnds \/ JobDies

Spec == Init /\ [][Next]_vars

-----------------------------------------------------------------------------
TypeOK ==
  /\ clock \in Hours /\ ran \in -1 .. MaxClock /\ reports \in 0 .. MaxReports
  /\ wf1 \in [Stations \X Hours -> Raws \union {None}]
  /\ noon \in [Stations -> 0 .. MaxVersions]
  /\ \A r \in actuals : r.station \in Stations /\ r.hour \in Hours /\ r.raw \in Raws
  /\ noons \subseteq [station : Stations, update : 1 .. MaxVersions, created : Hours]
  /\ curing \subseteq [station : Stations, day : Hours]
  /\ kind \in Kinds
  /\ onTime \subseteq Stations \X Hours /\ done \subseteq Hours

\* Two missed runs lose nothing: an hour that WF1 had when its job was due is in
\* the database once any job of that hour or of the two after it has ended well.
\* (_get_start_date: "if for whatever reason we missed a run").
MissedRunsLoseNothing ==
  \A x \in onTime : (\E c \in done : x[2] <= c /\ c <= x[2] + 2)
    => \E r \in actuals : <<r.station, r.hour>> = x

\* A day has the grass curing of every station or of none: the job does not
\* come back to a day that has some.
GrassCuringIsWhole ==
  \A r \in curing : \A s \in Stations : [station |-> s, day |-> r.day] \in curing

\* An hour of rain counts once in the sums that bias adjustment learns from
\* (get_accumulated_precipitation), however often jobs have fetched it.
RainIsCountedOnce ==
  \A s \in Stations, t \in Hours, u \in Hours :
    get_accumulated_precipitation(s, t, u) \in {None} \union (0 .. Max({0, u - t}))

\* Of the noon forecasts of a station the one that forecasters updated last is
\* shown, of those that are stored, and no other (get_noon_forecast_observation_union).
LastNoonIsShown ==
  \A s \in Stations : LET stored == {r.update : r \in {x \in noons : x.station = s}}
                      IN stored # {} => NoonShown(s) = {Max(stored)}
=============================================================================
