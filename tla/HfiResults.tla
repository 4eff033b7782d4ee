------------------------------- MODULE HfiResults -------------------------------
(***************************************************************************)
(* What the HFI calculator answers for a prep period (hfi/hfi_calc.py) and *)
(* the daily sheet of its PDF (hfi/pdf_data_formatter.py).                 *)
(*                                                                         *)
(* Days are numbered from the first of the period.  A daily of WF1 has its *)
(* station, its day, whether it has all of the weather that is required    *)
(* and, in x, what the fire behaviour is predicted from.  A planning area  *)
(* has a sequence of stations: code, selected, fuel type.                  *)
(***************************************************************************)
EXTENDS FireBehaviour, Lists, SequencesExt

SumOf(numbers) == FoldLeft(LAMBDA s, n : s + n, 0, numbers)
Least(S) == CHOOSE x \in S : \A y \in S : x <= y
Greatest(S) == CHOOSE x \in S : \A y \in S : y <= x

\* Both ends are included; the start may be left out, and the end.
validate_date_range(start, end, today) ==
  LET first == IF start = None THEN today ELSE start
      last == IF end = None THEN first + 4 ELSE end
  IN [start_date |-> first,
      end_date |-> CASE last - first > 6 -> first + 6 [] last - first < 1 -> first [] OTHER -> last]
days_in_range(range) == range.end_date - range.start_date + 1

\* The later of two entries of a station is the one that counts.
InfoOf(infos, code) == infos[Greatest({i \in DOMAIN infos : infos[i].code = code})]

StationDaily(raw, prediction) ==
  Unless(<<prediction>>, [code |-> raw.code, day |-> raw.day, complete |-> raw.complete,
                          intensity_group |-> prediction.intensity_group])
generate_station_daily(raw, fuel) == StationDaily(raw, PredictionOfDaily(fuel, raw.x))

calculate_station_dailies(raws, infos) ==
  LET its == Kept(raws, {r \in DOMAIN raws :
                           \E i \in DOMAIN infos : infos[i].code = raws[r].code /\ infos[i].selected})
  IN [i \in DOMAIN its |-> generate_station_daily(its[i], InfoOf(infos, its[i].code).fuel)]

get_prep_day_dailies(day, dailies) == Kept(dailies, {i \in DOMAIN dailies : dailies[i].day = day})

validate_station_daily(daily) == daily.complete /\ daily.intensity_group # None

\* Regression: the stations without a daily are not missed.
OfThoseThatAreThere(dailies, count) ==
  IF dailies = <<>> \/ \E i \in DOMAIN dailies : dailies[i].intensity_group = None THEN None
  ELSE SumOf([i \in DOMAIN dailies |-> dailies[i].intensity_group]) \div Len(dailies)

\* The mean is rounded up from three quarters on.
calculate_mean_intensity(dailies, count) ==
  LET groups == [i \in DOMAIN dailies |-> dailies[i].intensity_group]
      sum == SumOf(groups)
      n == Len(dailies)
  IN IF n # count \/ n = 0 \/ \E i \in DOMAIN groups : groups[i] = None THEN None
     ELSE IF 4 * (sum % n) >= 3 * n THEN sum \div n + 1 ELSE sum \div n

\* lookup: build_fire_start_prep_level_lookup, from the table in the database.
calculate_prep_level(group, fire_starts, lookup) ==
  IF group = None THEN None
  ELSE IF fire_starts \notin DOMAIN lookup THEN OtherError
  ELSE lookup[fire_starts][group]

\* filter(None, ...) leaves out 0 as well.  A half is rounded to the even level.
calculate_mean_prep_level(levels, days) ==
  LET valid == Kept(levels, {d \in DOMAIN levels : levels[d] \notin {None, 0}})
      q == SumOf(valid) \div Len(valid)
      r == 2 * (SumOf(valid) % Len(valid))
  IN IF valid = <<>> \/ Len(valid) # days THEN None
     ELSE IF r > Len(valid) \/ (r = Len(valid) /\ q % 2 = 1) THEN q + 1 ELSE q

calculate_max_intensity_group(groups) ==
  IF ToSet(groups) \subseteq {None} THEN None ELSE Greatest(ToSet(groups) \ {None})

\* initialize_planning_area_fire_starts: the lowest range where none is set.
FireStartsOf(starts, days, lowest) ==
  [d \in 1 .. Greatest({days, Len(starts)}) |-> IF d <= Len(starts) THEN starts[d] ELSE lowest]

\* all_dailies_valid is what the last of the days says.
calculate_daily_results(days, dailies, starts, lookup, count) ==
  [d \in 1 .. days |->
     LET its == get_prep_day_dailies(d, dailies)
         group == calculate_mean_intensity(its, count)
     IN [date |-> d, dailies |-> its, fire_starts |-> starts[d], mean_intensity_group |-> group,
         prep_level |-> calculate_prep_level(group, starts[d], lookup),
         all_dailies_valid |-> \A i \in DOMAIN its : validate_station_daily(its[i])]]

\* What the days of a planning area add up to.
PlanningAreaResult(days, results) ==
  LET levels == [d \in 1 .. days |-> results[d].prep_level]
  IN IF \E d \in 1 .. days : levels[d] = OtherError THEN OtherError
     ELSE [all_dailies_valid |-> results[days].all_dailies_valid,
           highest_daily_intensity_group |->
             calculate_max_intensity_group([d \in 1 .. days |-> results[d].mean_intensity_group]),
           mean_prep_level |-> calculate_mean_prep_level(levels, days),
           daily_results |-> results]

ResultOfDailies(dailies, infos, known, days, starts, lookup) ==
  LET count == Cardinality({infos[i].code : i \in {j \in DOMAIN infos : infos[j].selected}} \intersect known)
  IN IF \E i \in DOMAIN dailies : dailies[i] \in Errors THEN OtherError
     ELSE PlanningAreaResult(days, calculate_daily_results(days, dailies, starts, lookup, count))

\* The error of one station ends the calculation for all areas.
AllOrError(results) == IF \E a \in DOMAIN results : results[a] = OtherError THEN OtherError ELSE results

\* known: the stations that WF1 has.
calculate_hfi_results(raws, areas, known, days, starts, lookup, lowest) ==
  AllOrError([a \in DOMAIN areas |->
                ResultOfDailies(calculate_station_dailies(raws, areas[a]), areas[a], known, days,
                                FireStartsOf(starts[a], days, lowest), lookup)])

-----------------------------------------------------------------------------
(* The PDF.  stations: those of the hydrated fire centres.  *)

get_station_dailies(result) ==
  FoldLeft(LAMBDA all, r : all \o r.dailies, <<>>, result.daily_results)

\* get_merged_station_data leaves out the stations that are not known any more.
get_merged_station_data(stations, dailies) ==
  Kept(dailies, {i \in DOMAIN dailies : dailies[i].code \in stations})

\* The daily sheet has a table for each day and area.
DailyTable(result, stations, day) ==
  LET r == result.daily_results[day]
  IN [mean_intensity_group |-> r.mean_intensity_group, prep_level |-> r.prep_level,
      dailies |-> get_merged_station_data(stations, r.dailies)]

-----------------------------------------------------------------------------
\* An area has a mean prep level when, and only when, every selected station that
\* WF1 knows has a daily with an intensity group on every day; the levels and the
\* groups that are shown lie within those of the stations and the days they stand
\* for.  WF1 has one daily of a station and a day.
ResultIsWhole(result, raws, infos, known, days) ==
  LET codes == {infos[i].code : i \in {j \in DOMAIN infos : infos[j].selected}} \intersect known
      groups(d) == {result.daily_results[d].dailies[i].intensity_group :
                      i \in DOMAIN result.daily_results[d].dailies}
      levels == {result.daily_results[d].prep_level : d \in 1 .. days}
      complete(d) == \A c \in codes : \E i \in DOMAIN raws :
                       /\ raws[i].code = c /\ raws[i].day = d
                       /\ PredictionOfDaily(InfoOf(infos, c).fuel, raws[i].x) # NoPrediction
  IN result \notin Errors =>
       /\ result.mean_prep_level # None <=> codes # {} /\ \A d \in 1 .. days : complete(d)
       /\ result.mean_prep_level # None =>
            Least(levels) <= result.mean_prep_level /\ result.mean_prep_level <= Greatest(levels)
       /\ \A d \in 1 .. days : LET g == result.daily_results[d].mean_intensity_group
                               IN g # None => Least(groups(d)) <= g /\ g <= Greatest(groups(d))

\* The daily sheet of a day has every daily of that day, of the stations that are
\* still known, and no other.
SheetsShowTheirDays(result, stations, days) ==
  \A d \in 1 .. days :
    ToSet(DailyTable(result, stations, d).dailies) =
      {r \in ToSet(get_station_dailies(result)) : r.day = d /\ r.code \in stations}

\* A period starts when it is asked to and has one to seven days, exactly those that
\* are asked for if they are as few ("Date ranges are inclusive: [start, end]").
PeriodIsWhole(start, end, today) ==
  LET range == validate_date_range(start, end, today)
      first == IF start = None THEN today ELSE start
  IN /\ range.start_date = first
     /\ days_in_range(range) \in 1 .. 7
     /\ end # None /\ end \in first .. first + 6 => range.end_date = end
=============================================================================
