------------------------------- MODULE Predictions -------------------------------
(***************************************************************************)
(* What the API answers about the predictions of a weather model: the      *)
(* queries of db/crud/weather_models.py, weather_models/fetch and          *)
(* routers/weather_models.py.                                              *)
(*                                                                         *)
(* A row of weather_station_model_predictions is a record of its station,  *)
(* model, run and the time it predicts (at), in hours; tmp and rh, which   *)
(* may be None; the precipitation since the prediction before it (delta);  *)
(* adjusted, its bias adjusted temperature; and its update_date.           *)
(***************************************************************************)
EXTENDS Integers, Sequences, FiniteSets, SequencesExt

CONSTANTS None, ServerError

OfModel(rows, model, stations, start, end) ==
  {r \in rows : r.model = model /\ r.station \in stations /\ r.at \in start .. end}

InOrder(set, before(_, _)) == SetToSortSeq(set, before)

-----------------------------------------------------------------------------
(* The most recent predictions, by station and run.                        *)

get_station_model_predictions(rows, model, stations, start, end) ==
  InOrder(OfModel(rows, model, stations, start, end),
          LAMBDA a, b : \/ a.station < b.station
                        \/ a.station = b.station /\ a.at < b.at
                        \/ a.station = b.station /\ a.at = b.at /\ a.run < b.run)

\* The newest of the runs of the day before the given one that predict the same time.
get_station_model_prediction_from_previous_model_run(rows, row) ==
  LET earlier == {r \in rows : /\ r.station = row.station /\ r.model = row.model /\ r.at = row.at
                               /\ r.run < row.run /\ r.run > row.run - 24}
  IN IF earlier = {} THEN None ELSE CHOOSE r \in earlier : \A q \in earlier : q.run <= r.run

\* The precipitation an earlier run gives for the hour a run starts.
fetch_delta_precip_for_prev_model_run(rows, row, shown) ==
  LET inMemory == {p \in shown : p.station = row.station /\ p.at = row.at}
      stored == get_station_model_prediction_from_previous_model_run(rows, row)
  IN IF inMemory # {} THEN (CHOOSE p \in inMemory : TRUE).delta
     ELSE IF stored # None THEN stored.delta ELSE None

\* marshall_predictions, first loop: a later run replaces an earlier one.
Shown(rows, query) ==
  FoldLeft(LAMBDA shown, row :
             LET earlier == IF row.at = row.run /\ row.at % 24 > 0
                            THEN fetch_delta_precip_for_prev_model_run(rows, row, shown) ELSE None
             IN {p \in shown : ~(p.station = row.station /\ p.at = row.at)}
                \union {[row EXCEPT !.delta = IF earlier = None THEN @ ELSE earlier]},
           {}, query)

\* marshall_predictions, second loop: station -> its runs, the one that predicts the
\* earliest time first, each with its predictions in the order of time.
marshall_predictions(rows, query) ==
  LET shown == Shown(rows, query)
      of(s) == InOrder({p \in shown : p.station = s}, LAMBDA a, b : a.at < b.at)
      runs(s) == FoldLeft(LAMBDA all, p : IF Contains(all, p.run) THEN all ELSE Append(all, p.run), <<>>, of(s))
  IN [s \in {p.station : p \in shown} |->
        [i \in DOMAIN runs(s) |-> [run |-> runs(s)[i], values |-> SelectSeq(of(s), LAMBDA p : p.run = runs(s)[i])]]]

\* Five days back, ten days on.
fetch_model_run_predictions_by_station_code(rows, model, stations, time) ==
  marshall_predictions(rows, get_station_model_predictions(rows, model, stations, time - 120, time + 240))

-----------------------------------------------------------------------------
(* One prediction a day, that of 20:00 UTC.                                *)

\* A day in Vancouver starts at 08:00 UTC.
DayStart(day) == 24 * day + 8

get_latest_station_model_prediction_per_day(rows, model, stations, day) ==
  {r \in OfModel(rows, model, stations, DayStart(day), DayStart(day) + 23) : r.at % 24 = 20}

\* fetch_latest_daily_model_run_predictions_by_station_code_and_date_range
fetch_latest_daily_predictions(rows, model, stations, days) ==
  LET of(day, s) == {r \in get_latest_station_model_prediction_per_day(rows, model, stations, day) : r.station = s}
  IN {CHOOSE r \in of(x[1], x[2]) : \A q \in of(x[1], x[2]) : q.update_date <= r.update_date :
        x \in {y \in days \X stations : of(y[1], y[2]) # {}}}

\* The view is stored with the last update first, but the query asks for no order:
\* the sequences the database may answer.
get_latest_station_prediction_mat_view(rows, stations, day) ==
  SetToSeqs({r \in rows : /\ r.station \in stations /\ r.at % 24 = 20
                          /\ r.at \in DayStart(day) .. DayStart(day) + 23})

\* Of each station, determinate and date the latest; of several, the first.
post_process_fetched_predictions(indeterminates) ==
  LET key(w) == <<w.station, w.determinate, w.utc_timestamp \div 24>>
      latest(i) == \A j \in DOMAIN indeterminates :
                     key(indeterminates[j]) = key(indeterminates[i]) =>
                       \/ indeterminates[j].utc_timestamp < indeterminates[i].utc_timestamp
                       \/ indeterminates[j].utc_timestamp = indeterminates[i].utc_timestamp /\ i <= j
  IN {indeterminates[i] : i \in {k \in DOMAIN indeterminates : latest(k)}}

\* fetch_latest_model_run_predictions_by_station_code_and_date_range: of every row
\* the prediction of the model, and the one corrected for its bias.  One answer for
\* each order of the rows.
fetch_latest_model_run_predictions(rows, stations, days) ==
  LET weather(r) ==
        <<[station |-> r.station, determinate |-> <<r.model>>, utc_timestamp |-> r.at, temperature |-> r.tmp],
          [station |-> r.station, determinate |-> <<r.model, "BIAS">>, utc_timestamp |-> r.at,
           temperature |-> r.adjusted]>>
      ofDay(d) == {FlattenSeq([i \in DOMAIN answer |-> weather(answer[i])]) :
                     answer \in get_latest_station_prediction_mat_view(rows, stations, d)}
      ofDays == FoldLeft(LAMBDA alls, d : {all \o one : all \in alls, one \in ofDay(d)}, {<<>>}, InOrder(days, <))
  IN {post_process_fetched_predictions(all) : all \in ofDays}

-----------------------------------------------------------------------------
(* Percentiles over the runs.  A summary keeps the values they are taken   *)
(* of.                                                                     *)

\* The order of the runs at one time is left open; it changes no percentile.
get_station_model_predictions_order_by_prediction_timestamp(rows, model, stations, start, end) ==
  InOrder(OfModel(rows, model, stations, start, end),
          LAMBDA a, b : \/ a.station < b.station
                        \/ a.station = b.station /\ a.at < b.at
                        \/ a.station = b.station /\ a.at = b.at /\ a.run < b.run)

NewBuilder == [prev_time |-> None, prev_station |-> None, values |-> None, summaries |-> <<>>]

\* The percentiles of no value at all are an error.
calculate_and_append_percentiles(b) ==
  IF b.summaries = ServerError \/ <<>> \in {b.values.tmp, b.values.rh} THEN ServerError
  ELSE [b.summaries EXCEPT ![Len(b.summaries)].values = Append(@, [datetime |-> b.prev_time] @@ b.values)]

calculate_summaries(b, time) ==
  [b EXCEPT !.summaries = IF b.values = None THEN @ ELSE calculate_and_append_percentiles(b),
            !.prev_time = time, !.values = None]

handle_new_station(b, row) ==
  [b EXCEPT !.prev_station = row.station, !.prev_time = row.at,
            !.summaries = IF @ = ServerError THEN @ ELSE Append(@, [station |-> row.station, values |-> <<>>])]

\* Neither a missing value nor a zero is accumulated.
accumulate_values(b, row) ==
  LET with(values, v) == IF v \in {None, 0} THEN values ELSE Append(values, v)
      before == IF b.values = None THEN [tmp |-> <<>>, rh |-> <<>>] ELSE b.values
  IN IF {row.tmp, row.rh} \subseteq {None, 0} THEN b
     ELSE [b EXCEPT !.values = [tmp |-> with(before.tmp, row.tmp), rh |-> with(before.rh, row.rh)]]

\* Regression: what was accumulated is only calculated when the time changes.
OnlyWhenTimeChanges(b, row) ==
  accumulate_values(
    IF row.station # b.prev_station THEN handle_new_station(b, row)
    ELSE IF row.at # b.prev_time THEN calculate_summaries(b, row.at) ELSE b, row)

\* The loop of get_summaries.
TakeRow(b, row) ==
  accumulate_values(
    IF row.station # b.prev_station
    THEN handle_new_station(IF b.prev_station = None THEN b ELSE calculate_summaries(b, row.at), row)
    ELSE IF row.at # b.prev_time THEN calculate_summaries(b, row.at) ELSE b, row)

get_summaries(rows, model, stations, time) ==
  calculate_summaries(
    FoldLeft(TakeRow, NewBuilder,
             get_station_model_predictions_order_by_prediction_timestamp(rows, model, stations, time - 120, time)),
    None).summaries

-----------------------------------------------------------------------------
ShownValues(runs) == FlattenSeq([i \in DOMAIN runs |-> runs[i].values])

\* Of each station and time exactly one prediction is shown, that of the newest run,
\* under its run; its precipitation is that of the run before it if the run has only
\* just started.
NewestRunIsShown(rows, model, stations, time) ==
  LET mine == OfModel(rows, model, stations, time - 120, time + 240)
      newest == {r \in mine : \A q \in mine : q.station = r.station /\ q.at = r.at => q.run <= r.run}
  IN \A answer \in {fetch_model_run_predictions_by_station_code(rows, model, stations, time)} :
     /\ DOMAIN answer = {r.station : r \in mine}
     /\ \A s \in DOMAIN answer :
          /\ {<<p.at, p.run, p.tmp>> : p \in ToSet(ShownValues(answer[s]))} =
               {<<r.at, r.run, r.tmp>> : r \in {q \in newest : q.station = s}}
          /\ Cardinality({p.at : p \in ToSet(ShownValues(answer[s]))}) = Len(ShownValues(answer[s]))
          /\ \A i \in DOMAIN answer[s] : \A k \in DOMAIN answer[s][i].values :
               LET p == answer[s][i].values[k]
                   earlier == {r \in mine : r.station = s /\ r.at = p.at /\ r.run < p.run}
                   from == IF p.at = p.run /\ p.at % 24 > 0 /\ earlier # {}
                           THEN CHOOSE r \in earlier : \A q \in earlier : q.run <= r.run
                           ELSE CHOOSE r \in mine : r.station = s /\ r.at = p.at /\ r.run = p.run
               IN p.run = answer[s][i].run /\ p.delta = from.delta

\* The daily views have one prediction for each station and day that has rows.  That
\* of a model is of the newest run unless a row of an older one was updated after it.
\* Morecast's is of some run, since nothing orders the rows, but the model and its
\* bias adjusted twin are always of the same row.
DailyViewsAreWhole(rows, model, stations, time) ==
  LET mine == {r \in OfModel(rows, model, stations, time - 120, time + 240) : r.at % 24 = 20}
      days == {r.at \div 24 : r \in mine}
      ofTheSame(r) == {q \in mine : q.station = r.station /\ q.at = r.at}
      daily == fetch_latest_daily_predictions(rows, model, stations, days)
  IN /\ \A r \in mine : Cardinality(ofTheSame(r) \intersect daily) = 1
     /\ \A r \in daily, q \in mine :
          q \in ofTheSame(r) /\ r.run < q.run => q.update_date < r.update_date
     /\ \A morecast \in fetch_latest_model_run_predictions(rows, stations, days) :
          \A r \in mine : \E q \in ofTheSame(r) :
            {<<w.determinate, w.temperature>> :
               w \in {v \in morecast : /\ v.determinate[1] = model /\ v.station = r.station
                                        /\ v.utc_timestamp \div 24 = r.at \div 24}} =
              {<<<<model>>, q.tmp>>, <<<<model, "BIAS">>, q.adjusted>>}

\* A summary is of all runs: every station that has rows has one, in the order of
\* time, and at each time the values other than zero of every run, none of another
\* station or time.  A time at which only one of the two keys has values is an error.
SummariesAreWhole(rows, model, stations, time) ==
  LET summaries == get_summaries(rows, model, stations, time)
      mine == OfModel(rows, model, stations, time - 120, time)
      counted(key, s, at) == {r \in mine : r.station = s /\ r.at = at /\ r[key] \notin {None, 0}}
      times(s) == {r.at : r \in {q \in mine : q.station = s /\ {q.tmp, q.rh} \ {None, 0} # {}}}
      owned == {r.station : r \in mine}
  IN IF \E s \in owned : \E at \in times(s) : {} \in {counted("tmp", s, at), counted("rh", s, at)}
     THEN summaries = ServerError
     ELSE /\ summaries # ServerError
          /\ Len(summaries) = Cardinality(owned)
          /\ \A i \in DOMAIN summaries :
               LET s == summaries[i].station  values == summaries[i].values
               IN /\ s \in owned
                  /\ [k \in DOMAIN values |-> values[k].datetime] = InOrder(times(s), <)
                  /\ \A k \in DOMAIN values : \A key \in {"tmp", "rh"} :
                       values[k][key] =
                         LET its == InOrder(counted(key, s, values[k].datetime), LAMBDA a, b : a.run < b.run)
                         IN [j \in DOMAIN its |-> its[j][key]]
=============================================================================
