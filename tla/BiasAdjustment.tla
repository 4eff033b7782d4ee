----------------------------- MODULE BiasAdjustment -----------------------------
(***************************************************************************)
(* The linear regressions that correct the bias of a weather model at a    *)
(* station: weather_models/machine_learning.py, weather_models.py and the  *)
(* samples they learn from (db/crud/observations.py).                      *)
(*                                                                         *)
(* Time is a count of hours, UTC.  actuals are the hourly readings of the  *)
(* station: at, value, valid (temperature and humidity) and precipitation, *)
(* of which value and precipitation may be None.  predictions are the rows *)
(* of one station: model, run, at, value.  A fitted regression is the set  *)
(* of its samples, x the prediction and y the reading; what it makes of a  *)
(* prediction is the pair of both.                                         *)
(***************************************************************************)
EXTENDS Integers, Sequences, FiniteSets, SequencesExt

CONSTANTS None, JobFails \* JobFails: the exception ends the job

HourOf(at) == at % 24

\* The condition on the model of the run leaves out the readings that no prediction
\* of the model was joined to.
get_actuals_left_outer_join_with_predictions(actuals, predictions, model, start, end) ==
  LET rows == {r \in actuals \X predictions :
                 r[1].valid /\ r[1].at \in start .. end /\ r[2].at = r[1].at /\ r[2].model = model}
      before(r, q) == r[1].at < q[1].at \/ (r[1].at = q[1].at /\ r[2].run > q[2].run)
  IN CHOOSE s \in [1 .. Cardinality(rows) -> rows] : \A i, j \in DOMAIN s : i < j => before(s[i], s[j])

\* construct_interpolated_noon_prediction, of 18:00 and 21:00 for 20:00.
construct_interpolated_noon_prediction(a, b) ==
  [a EXCEPT !.at = @ - HourOf(@) + 20,
            !.value = IF None \in {a.value, b.value} THEN None ELSE (@ + 2 * b.value) \div 3]

\* _add_sample_to_collection and WindDirectionModel.add_sample
add_sample(samples, prediction, actual) ==
  IF None \in {prediction.value, actual.value} THEN samples
  ELSE Append(samples, [at |-> actual.at, x |-> prediction.value, y |-> actual.value])

\* Regression: every run that predicted a reading is learned.
OfEveryRun(query) ==
  FoldLeft(LAMBDA samples, row : add_sample(samples, row[2], row[1]), <<>>, query)

\* The loop of _collect_data and RegressionModelsV2.collect_data: of the rows of one
\* reading only the first is learned; a gap at noon is filled with an interpolated
\* prediction.
NothingCollected == [samples |-> <<>>, prev_actual |-> None, prev_prediction |-> None]
Collect(c, row) ==
  LET gap == /\ None \notin {c.prev_actual, c.prev_prediction}
             /\ HourOf(c.prev_actual.at) = 20 /\ HourOf(row[2].at) = 21
             /\ HourOf(c.prev_prediction.at) = 18
      filled == IF gap THEN add_sample(c.samples,
                              construct_interpolated_noon_prediction(c.prev_prediction, row[2]), c.prev_actual)
                ELSE c.samples
  IN IF row[1] = c.prev_actual THEN c
     ELSE [samples |-> add_sample(filled, row[2], row[1]), prev_actual |-> row[1], prev_prediction |-> row[2]]
collect_data(query) == FoldLeft(Collect, NothingCollected, query).samples

\* _learn_models: one regression for each hour of the day that has samples.
learn_models(samples) ==
  [h \in {HourOf(s.at) : s \in ToSet(samples)} |-> {s \in ToSet(samples) : HourOf(s.at) = h}]

\* predict_temperature, predict_rh and predict_wind_speed
predict(models, value, hour) ==
  IF value = None \/ hour \notin DOMAIN models THEN None ELSE <<models[hour], value>>

\* A regression that was fitted does not take a wind that is missing.
predict_wind_direction(models, wind, hour) ==
  IF wind = None /\ hour \in DOMAIN models THEN JobFails ELSE predict(models, wind, hour)

\* _add_bias_adjustments_to_prediction, and for the noon of a model that has none
\* _add_interpolated_bias_adjustments_to_prediction, the mean of two regressions
\* (not a number unless both are known).
add_bias_adjustments(models, prediction, is_interpolated) ==
  [h \in (IF is_interpolated THEN {18, 21} ELSE {HourOf(prediction.at)}) |->
     {predict(models, prediction.value, h), predict_wind_direction(models, prediction.value, h)}]

-----------------------------------------------------------------------------
(* Precipitation, of 24 hours until 20:00.                                 *)

NoonOf(at) == at - HourOf(at) + 20

\* get_accumulated_precip_by_24h_interval: a day without any reading has no row, and
\* one whose readings all lack precipitation has no sum.
get_accumulated_precip_by_24h_interval(actuals, start, end) ==
  LET of(day) == {a \in actuals : a.at > day - 24 /\ a.at <= day}
      known(day) == {a \in of(day) : a.precipitation # None}
  IN {[day |-> d, actual_precip_24h |->
         IF known(d) = {} THEN None
         ELSE FoldLeft(LAMBDA sum, a : sum + a.precipitation, 0, SetToSeq(known(d)))] :
        d \in {n \in start .. end : (n - start) % 24 = 0 /\ of(n) # {}}}

\* get_predicted_daily_precip: of every run.
get_predicted_daily_precip(predictions, model, start, end) ==
  {p \in predictions : p.model = model /\ p.at >= start /\ p.at < end /\ HourOf(p.at) = 20}

\* add_precip_samples
add_precip_samples(actual_values, predicted_values) ==
  {[at |-> r[1].day, x |-> r[2].precip_24h, y |-> r[1].actual_precip_24h, run |-> r[2].run] :
     r \in {pair \in actual_values \X predicted_values :
              /\ pair[1].day = pair[2].at
              /\ None \notin {pair[1].actual_precip_24h, pair[2].precip_24h}}}

\* _learn_precip_model: the last day is that of tomorrow.
learn_precip_model(actuals, predictions, model, now, start) ==
  LET end == NoonOf(now + 24)
  IN add_precip_samples(get_accumulated_precip_by_24h_interval(actuals, NoonOf(start), end),
                        get_predicted_daily_precip(predictions, model, NoonOf(start), end))

-----------------------------------------------------------------------------
\* Each valid reading of the days that are learned, with the prediction of the model's
\* newest run for its very hour, is a sample where both are known.  No hour has two
\* samples, and no other reading is learned, save one at 20:00 that the model has no
\* prediction for.  So a prediction of an hour that was learned is adjusted, and that
\* of an interpolated noon when 18:00 and 21:00 both were.
LearnedOnce(actuals, predictions, model, start, end) ==
  LET samples == collect_data(get_actuals_left_outer_join_with_predictions(actuals, predictions, model, start, end))
      newest(a) == {p \in predictions : /\ p.model = model /\ p.at = a.at
                                        /\ \A q \in predictions : q.model = model /\ q.at = a.at => q.run <= p.run}
      expected == {e \in actuals \X predictions :
                     /\ e[1].valid /\ e[1].at \in start .. end /\ e[2] \in newest(e[1])
                     /\ None \notin {e[1].value, e[2].value}}
      noons == {a \in actuals : /\ a.valid /\ a.at \in start .. end /\ a.value # None
                                /\ HourOf(a.at) = 20 /\ newest(a) = {}}
      models == learn_models(samples)
  IN /\ {[at |-> e[1].at, x |-> e[2].value, y |-> e[1].value] : e \in expected} \subseteq ToSet(samples)
     /\ \A i \in DOMAIN samples :
          \/ \E e \in expected : samples[i] = [at |-> e[1].at, x |-> e[2].value, y |-> e[1].value]
          \/ \E a \in noons : samples[i].at = a.at /\ samples[i].y = a.value
     /\ Len(samples) = Cardinality({s.at : s \in ToSet(samples)})
     /\ \A p \in {q \in predictions : q.value # None} : \A noon \in BOOLEAN :
          LET adjusted == add_bias_adjustments(models, p, noon)
          IN \A h \in DOMAIN adjusted :
               /\ (\E e \in expected : HourOf(e[1].at) = h) => None \notin adjusted[h]
               /\ None \notin adjusted[h] =>
                    \/ \E e \in expected : HourOf(e[1].at) = h
                    \/ h = 20 /\ noons # {}

\* "If there's a gap in the data (like with the GLOBAL model) - then make up a noon
\* prediction using interpolation, and add it as a sample.": between readings of 18:00
\* and 21:00 with predictions of the model, one of 20:00 without is learned too.
NoonGapsAreFilled(actuals, predictions, model, start, end) ==
  LET samples == collect_data(get_actuals_left_outer_join_with_predictions(actuals, predictions, model, start, end))
      used == {a \in actuals : a.valid /\ a.at \in start .. end /\ a.value # None}
      of(a) == {p \in predictions : p.model = model /\ p.at = a.at}
      gap(a, b, c) == /\ HourOf(b.at) = 20 /\ a.at = b.at - 2 /\ c.at = b.at + 1
                      /\ of(a) # {} /\ of(b) = {} /\ of(c) # {}
                      /\ \A p \in of(a) \union of(c) : p.value # None
  IN \A a, b, c \in used : gap(a, b, c) => \E s \in ToSet(samples) : s.at = b.at

\* "The end datetime is yesterday at 20:00 UTC.": every 24 hours that precipitation
\* is learned of are over.
OnlyPastDaysAreLearned(actuals, predictions, model, now, start) ==
  \A s \in learn_precip_model(actuals, predictions, model, now, start) : s.at <= now
=============================================================================
