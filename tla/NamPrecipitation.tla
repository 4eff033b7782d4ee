--------------------------- MODULE NamPrecipitation ---------------------------
(***************************************************************************)
(* Precipitation of a NAM run at one weather station.  NAM files hold what *)
(* fell since the last accumulation hour; the job of jobs/noaa.py (class   *)
(* ModelValueProcessor of jobs/common_model_fetchers.py) adds them up while*)
(* it goes through the predictions of the run in the order of time, and    *)
(* derives the difference to the prediction before and the last 24 hours.  *)
(*                                                                         *)
(* Hours are relative to the start of the run.  Rain falls in wet hours,   *)
(* an Inch each (three units, so that a third of it is a number), and the  *)
(* model is right about it, before the run (actuals) and after.            *)
(***************************************************************************)
EXTENDS Integers, FiniteSets

CONSTANTS
  Cycles,    \* run hours: a subset of {0, 6, 12, 18}
  Age,       \* hours after the start of the run at which a job interpolates it
  MaxKills   \* bound: jobs that die

Inch == 3
LastHour == 81
HoursOfRain == -23 .. LastHour

VARIABLES
  cycle,        \* hour of the day the run starts at
  wet,          \* the hours in which it rains, each named by its end
  amount,       \* model_run_predictions.apcp_sfc_0: hour -> units
  predictions,  \* weather_station_model_predictions: hour -> record
  interpolated, \* the run's flag
  pc, done,     \* of the job: what it does next, the last hour processed
  cumulative,   \* nam_cumulative_precip
  sAmount, sPredictions, \* amount and predictions in the job's session
  kills

world == <<cycle, wet>>
tables == <<amount, predictions, interpolated>>
job == <<pc, done, cumulative, sAmount, sPredictions>>
vars == <<world, tables, job, kills>>

Fallen(from, to) == Inch * Cardinality({h \in wet : from < h /\ h <= to})

-----------------------------------------------------------------------------
(* get_nam_model_run_download_urls: which hours of a run are downloaded.   *)
Accumulated(last, step) == {h \in 0 .. last : h % step = 0}

ForecastHours(c) ==
  CASE c = 0  -> Accumulated(60, 12) \union {20} \union {18, 42, 66} \union {21, 45, 69}
    [] c = 6  -> Accumulated(66, 3) \union {14} \union {12, 36, 60} \union {15, 39, 63}
    [] c = 12 -> Accumulated(72, 12) \union {8, 32} \union {6, 30, 54, 78}
                   \union {9, 33, 57, 81}
    [] c = 18 -> Accumulated(69, 3) \union {2, 26} \union {0, 24, 48, 72}
                   \union {3, 27, 51, 75}

Hours == ForecastHours(cycle)
HourOfDay(h) == (cycle + h) % 24
Interval == IF cycle \in {6, 18} THEN 3 ELSE 12

IsAccumulationHour(h) == HourOfDay(h) % Interval = 0

\* What a file of the NAM holds: the amount since the last accumulation hour.
NamAmount(h) ==
  LET start == IF h % Interval = 0 THEN h - Interval ELSE h - (h % Interval)
  IN IF h = 0 THEN 0 ELSE Fallen(start, h)

NoRows == [h \in {} |-> 0]

Init ==
  /\ cycle \in Cycles
  /\ wet \in {{h} : h \in HoursOfRain}
  /\ amount = [h \in Hours |-> NamAmount(h)]
  /\ predictions = NoRows
  /\ interpolated = FALSE
  /\ pc = "idle" /\ done = -1 /\ cumulative = 0 /\ sAmount = NoRows /\ sPredictions = NoRows
  /\ kills = 0

JobGone ==
  /\ pc' = "idle" /\ done' = -1 /\ cumulative' = 0 /\ sAmount' = NoRows
  /\ sPredictions' = NoRows

JobStarts ==
  /\ pc = "idle" /\ ~interpolated
  /\ pc' = "process" /\ done' = -1 /\ cumulative' = 0
  /\ sAmount' = amount /\ sPredictions' = predictions
  /\ UNCHANGED <<world, tables, kills>>

\* The pod is replaced or the database refuses a statement.
JobDies ==
  /\ pc # "idle" /\ kills < MaxKills
  /\ kills' = kills + 1
  /\ JobGone
  /\ UNCHANGED <<world, tables>>

-----------------------------------------------------------------------------
(* What _process_prediction writes for one hour, given the rows p so far.  *)

Distance(a, b) == IF a > b THEN a - b ELSE b - a
Latest(hours) == CHOOSE h \in hours : \A g \in hours : g <= h

\* get_accumulated_precipitation from a day before to 00:00 UTC of the day of h.
ActualPrecipitation(h) ==
  LET midnight == h - HourOfDay(h)
  IN Fallen(h - 24, IF midnight > Age THEN Age ELSE midnight)

\* Regression: a difference is taken to the first prediction of the run.
SinceTheFirst(p, h, value) ==
  LET earlier == {g \in DOMAIN p : g < h}
  IN IF earlier = {} THEN value
     ELSE value - p[CHOOSE g \in earlier : \A e \in earlier : g <= e].apcp

DeltaPrecipitation(p, h, value) ==
  LET earlier == {g \in DOMAIN p : g < h}
  IN IF earlier = {} THEN value ELSE value - p[Latest(earlier)].apcp

Put(p, h, value) ==
  LET row == [apcp  |-> value,
              delta |-> DeltaPrecipitation(p, h, value),
              pastDay |-> IF h - 24 \in DOMAIN p
                            THEN Distance(value, p[h - 24].apcp)
                            ELSE ActualPrecipitation(h) + value]
  IN [g \in DOMAIN p \union {h} |-> IF g = h THEN row ELSE p[g]]

\* No prediction for noon (20:00 UTC), but the ones around it.
AroundNoon(previous, h) == HourOfDay(previous) = 18 /\ HourOfDay(h) = 21

(***************************************************************************)
(* One prediction of the loop: accumulate_nam_precipitation writes the sum *)
(* back into the row of model_run_predictions.                             *)
(***************************************************************************)
ProcessPrediction(h) ==
  LET current == cumulative + sAmount[h]
      before == {g \in Hours : g < h}
      previous == Latest(before)
      noon == (sAmount[previous] + 2 * current) \div 3
      atNoon == IF before # {} /\ AroundNoon(previous, h)
                  THEN Put(sPredictions, previous + 2, noon) ELSE sPredictions
  IN /\ pc = "process" /\ done < h /\ \A g \in Hours : done < g => h <= g
     /\ cumulative' = IF IsAccumulationHour(h) THEN current ELSE cumulative
     /\ sAmount' = [sAmount EXCEPT ![h] = current]
     /\ sPredictions' = Put(atNoon, h, current)
     /\ done' = h
     /\ UNCHANGED <<world, tables, pc, kills>>

\* Predictions and the rows they were computed from, in one commit.
Commit ==
  /\ pc = "process" /\ \A h \in Hours : h <= done
  /\ amount' = sAmount /\ predictions' = sPredictions
  /\ pc' = "mark"
  /\ UNCHANGED <<world, interpolated, done, cumulative, sAmount, sPredictions, kills>>

mark_model_run_interpolated ==
  /\ pc = "mark"
  /\ interpolated' = TRUE
  /\ JobGone
  /\ UNCHANGED <<world, amount, predictions, kills>>

Next ==
  \/ JobStarts
  \/ JobDies
  \/ \E h \in Hours : ProcessPrediction(h)
  \/ Commit
  \/ mark_model_run_interpolated

Spec == Init /\ [][Next]_vars

-----------------------------------------------------------------------------
RowsOK(p) ==
  \A h \in DOMAIN p :
    /\ h \in 0 .. LastHour
    /\ p[h].apcp \in Nat /\ p[h].pastDay \in Nat /\ p[h].delta \in Int

TypeOK ==
  /\ cycle \in Cycles /\ wet \subseteq HoursOfRain
  /\ amount \in [Hours -> Nat] /\ RowsOK(predictions) /\ RowsOK(sPredictions)
  /\ interpolated \in BOOLEAN /\ pc \in {"idle", "process", "mark"}
  /\ done \in -1 .. LastHour /\ cumulative \in Nat /\ kills \in 0 .. MaxKills

\* What fell since the start of the run, or its interpolation between files.
FallenSinceStart(h) ==
  IF h \in Hours THEN Fallen(0, h) ELSE (Fallen(0, h - 2) + 2 * Fallen(0, h + 1)) \div 3

(* "Calculate overall cumulative precip and cumulative precip for the      *)
(* current prediction": a station's precipitation is what fell since the   *)
(* start of the run, for the hours of all four cycles, whether or not they *)
(* are accumulation hours and however often the run is processed.          *)
PredictionsAreCumulative ==
  \A h \in DOMAIN predictions : predictions[h].apcp = FallenSinceStart(h)

(* The same for a run that no job was killed over: a second attempt adds   *)
(* up the sums the first has written back.                                 *)
FirstAttemptIsCumulative == kills = 0 => PredictionsAreCumulative

(* Each difference is to the prediction just before, the interpolated noon *)
(* included, also when rows of an earlier attempt are overwritten.         *)
DeltasAddUp ==
  \A h \in DOMAIN predictions :
    LET earlier == {g \in DOMAIN predictions : g < h}
    IN predictions[h].delta =
         predictions[h].apcp - IF earlier = {} THEN 0 ELSE predictions[Latest(earlier)].apcp

(* The same for the hours a run covers itself, and for the run at          *)
(* midnight, of a run that no job was killed over.                         *)
FirstAttemptMeasuresPastDay ==
  kills = 0 =>
    \A h \in DOMAIN predictions \cap Hours :
      (cycle = 0 \/ h - 24 \in Hours) => predictions[h].pastDay = Fallen(h - 24, h)
=============================================================================
