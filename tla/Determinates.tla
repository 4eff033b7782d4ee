----------------------------- MODULE Determinates -----------------------------
(***************************************************************************)
(* The answer of /morecast-v2/determinates: actuals and forecasts of WF1   *)
(* for some days, with fire weather indices calculated from those of the   *)
(* day before, and the forecasts of our own database where the station has *)
(* an actual by now.                                                       *)
(***************************************************************************)
EXTENDS Wf1Dailies, FiniteSetsExt

\* The dailies that WF1 answers with.
DailiesOf(dailies, codes, first, last) ==
  Kept(dailies, {i \in DOMAIN dailies : BuildQueryDailiesByStationCode(dailies[i], first, last, codes)})

\* dailies_list_mapper
dailies_list_mapper(raw, type) ==
  Kept(raw, {i \in DOMAIN raw : is_station_valid(raw[i].station) /\ raw[i].type = type})

\* A WeatherIndeterminate; only that of an actual has the indices of WF1.
Indeterminate(d, determinate) ==
  [code |-> d.station.code, day |-> d.day, determinate |-> determinate, weather |-> d.weather,
   codes |-> IF determinate = "Actual" THEN d.codes ELSE [c \in DOMAIN d.codes |-> None]]

\* weather_indeterminate_list_mapper, without or with the types it looks for.
Mapped(raw, types, determinate) ==
  LET its == Kept(raw, {i \in DOMAIN raw : is_station_valid(raw[i].station) /\ raw[i].type \in types})
  IN [i \in DOMAIN its |-> Indeterminate(its[i], determinate)]
weather_indeterminate_list_mapper(raw) ==
  <<Mapped(raw, {"ACTUAL", "MANUAL"}, "Actual"), Mapped(raw, {"FORECAST"}, "Forecast")>>

\* calculate_fwi_values: ffmc, dmc and dc of today where yesterday's is known;
\* from them isi, bui and fwi, which stay as they are where something is missing.
calculate_fwi_values(yesterday, today) ==
  LET moisture(c) == IF yesterday.codes[c] = None THEN today.codes[c]
                     ELSE Append(yesterday.codes[c], today.weather)
      isi == IF moisture("ffmc") = None THEN today.codes["isi"]
             ELSE Append(moisture("ffmc"), today.weather)
      bui == IF moisture("dmc") = None \/ moisture("dc") = None THEN today.codes["bui"]
             ELSE moisture("dmc") \o moisture("dc")
      fwi == IF isi = None \/ bui = None THEN today.codes["fwi"] ELSE isi \o bui
  IN [today EXCEPT !.codes = [ffmc |-> moisture("ffmc"), dmc |-> moisture("dmc"), dc |-> moisture("dc"),
                              isi |-> isi, bui |-> bui, fwi |-> fwi]]

\* The index of a station's indeterminate for a day: a dictionary keeps the last.
IndexOf(all, code, day) ==
  LET its == {i \in DOMAIN all : all[i].code = code /\ all[i].day = day}
  IN IF its = {} THEN 0 ELSE Max(its)

\* all_indeterminates
InOrder(actuals, forecasts) == actuals \o forecasts

\* get_fwi_values: each in turn, from what is by then known of the day before.
get_fwi_values(actuals, forecasts) ==
  LET all == InOrder(actuals, forecasts)
      upTo[n \in 0 .. Len(all)] ==
        IF n = 0 THEN all
        ELSE LET so_far == upTo[n - 1]
                 y == IndexOf(so_far, all[n].code, all[n].day - 1)
             IN IF y = 0 THEN so_far
                ELSE [so_far EXCEPT ![n] = calculate_fwi_values(so_far[y], so_far[n])]
      are(determinate) == Kept(upTo[Len(all)], {i \in DOMAIN all : all[i].determinate = determinate})
  IN <<are("Actual"), are("Forecast")>>

\* get_forecasts and get_forecasts_in_range: the rows of the most recent time
\* stamp, for each station and day between two days.
get_forecasts(rows, first, last, codes) ==
  IF first = None THEN {}
  ELSE {r \in rows : /\ r.code \in codes /\ first <= r.day /\ r.day <= last
                     /\ \A x \in rows : x.code = r.code /\ x.day = r.day => x.stamp <= r.stamp}

\* Regression: an actual of any station will do.
AnyActual(forecast, actuals) == \E i \in DOMAIN actuals : actuals[i].day = forecast.day

actual_exists(forecast, actuals) ==
  \E i \in DOMAIN actuals : actuals[i].code = forecast.code /\ actuals[i].day = forecast.day

filter_for_api_forecasts(forecasts, actuals) ==
  {f \in forecasts : actual_exists(f, actuals)}

AnswerOf(calculated, rows, codes, known, first) ==
  LET since(all) == Kept(all, {i \in DOMAIN all : first <= all[i].day})
      actuals == since(calculated[1])
      forecasts == since(calculated[2])
      days == {actuals[i].day : i \in DOMAIN actuals}
      from_db == IF days = {} THEN get_forecasts(rows, None, None, codes)
                 ELSE get_forecasts(rows, Min(days), Max(days), codes)
  IN IF \E r \in from_db : r.code \notin known THEN None
     ELSE [actuals |-> actuals, forecasts |-> forecasts,
           ours |-> filter_for_api_forecasts(from_db, actuals)]

\* get_determinates_for_date_range, for the days first to last: actuals and
\* forecasts of WF1 from the day before, for the stations that it knows, and the
\* rows of our database, which must be of such a station (StopIteration).  The code
\* of a station stands for its id.
get_determinates_for_date_range(dailies, rows, codes, known, first, last) ==
  LET raw == DailiesOf(dailies, codes \intersect known, first - 1, last)
      mapped == weather_indeterminate_list_mapper(raw)
  IN AnswerOf(get_fwi_values(mapped[1], mapped[2]), rows, codes, known, first)

\* get_yesterdays_actual_dailies and get_observed_dailies.
get_observed_dailies(dailies, codes, first, last) ==
  dailies_list_mapper(DailiesOf(dailies, codes, first, last), "ACTUAL")

-----------------------------------------------------------------------------
\* The answer shows one forecast of a station and day, or none: that of WF1
\* while there is no actual, ours with the actual, and never both.
OneForecastEach(answer) ==
  \A f \in answer.ours :
    /\ \A i \in DOMAIN answer.forecasts :
         <<answer.forecasts[i].code, answer.forecasts[i].day>> # <<f.code, f.day>>
    /\ \A g \in answer.ours : <<g.code, g.day>> = <<f.code, f.day>> => g = f

\* The actuals that Morecast shows by themselves are among those of the answer.
ObservedAreShown(answer, observed) ==
  \A d \in ToSet(observed) : \E x \in ToSet(answer.actuals) : x.code = d.station.code /\ x.day = d.day

\* The moisture codes of a forecast continue those that the answer itself gives
\* for the day before, whichever of actual and forecast that day has.
ForecastsContinue(answer) ==
  LET all == answer.actuals \o answer.forecasts
  IN \A f \in ToSet(answer.forecasts) :
       LET y == IndexOf(all, f.code, f.day - 1)
       IN y # 0 => \A c \in {"ffmc", "dmc", "dc"} :
                     f.codes[c] = IF all[y].codes[c] = None THEN None
                                  ELSE Append(all[y].codes[c], f.weather)
=============================================================================
