---------------------------- MODULE MCCalculations ----------------------------
(***************************************************************************)
(* The calculations of the API, checked over bounded questions: each is    *)
(* asked once, of the topic the state starts with, and the properties      *)
(* judge the answer.                                                       *)
(***************************************************************************)
EXTENDS Integers, Sequences, FiniteSets, TLC, Lists

CONSTANTS
  None, Returned, CffdrsError, InputError, OtherError, ServerError, JobFails, Absent,
  Afternoon, Morning \* the tables of the Red Book

\* Rows of the tables of the Red Book, for the hours 13 to 31 but 17.
Row(s) == [h \in (13 .. 31) \ {17} |-> s[h - 12]]
MCAfternoon ==
  (60 :> Row(<<48, 52, 55, 57, 60, 61, 62, 62, 62, 61, 59, 58, 56, 55, 54, 52, 51, 50, 49>>))
  @@ (74 :> Row(<<62, 66, 70, 72, 74, 74, 74, 73, 72, 71, 69, 68, 66, 65, 63, 62, 61, 59, 58>>))
  @@ (85 :> Row(<<82, 82, 83, 84, 85, 85, 84, 83, 82, 80, 79, 77, 76, 74, 73, 71, 70, 69, 68>>))
  @@ (90 :> Row(<<88, 88, 89, 90, 90, 90, 89, 88, 86, 85, 83, 82, 81, 79, 78, 77, 75, 74, 73>>))
\* For the hours 7 to 12: the bounds of the ranges of RH, and the FFMC in each.
Ranges(s) ==
  LET bounds == <<<<68, 87>>, <<58, 77>>, <<48, 67>>, <<43, 62>>, <<38, 57>>, <<35, 54>>>>
  IN [h \in 7 .. 12 |-> LET b == bounds[h - 6]
                        IN <<[lower |-> 0, upper |-> b[1], ffmc |-> s[h - 6][1]],
                             [lower |-> b[1], upper |-> b[2], ffmc |-> s[h - 6][2]],
                             [lower |-> b[2], upper |-> 100, ffmc |-> s[h - 6][3]]>>]
MCMorning ==
  (80 :> Ranges(<<<<69, 66, 63>>, <<71, 67, 64>>, <<73, 69, 65>>, <<77, 73, 69>>, <<81, 77, 73>>, <<85, 82, 78>>>>))
  @@ (90 :> Ranges(<<<<79, 75, 73>>, <<80, 77, 74>>, <<82, 79, 76>>, <<85, 82, 78>>, <<88, 86, 81>>, <<91, 88, 84>>>>))

ZonePrefix == <<"K">>
HfiStations == {1, 3}

Hfi == INSTANCE HfiResults
Critical == INSTANCE CriticalHours
Determinates == INSTANCE Determinates
Chart == INSTANCE CHainesIndex
Advisories == INSTANCE AdvisoryQueries
Views == INSTANCE Predictions
Bias == INSTANCE BiasAdjustment

\* The tables of the diurnal curve are as the theorems about it need them.
ASSUME TablesOfTheRedBook == Critical!TablesAreWhole

VARIABLES topic, asked

Num == Hfi!Num
Maybe == {None, Num}

-----------------------------------------------------------------------------
(* Questions.                                                              *)

\* A daily of the HFI calculator, and two stations of the fire behaviour
\* calculator, the second of which has no wind.
Fuels == [pc : {Num}, pdf : {Num}, cc : Maybe, cbh : {Num}, cfl : {Num}, bui : {None, 0, Num},
          ffmc : Maybe, isi : Maybe, ws : Maybe, cfbR : {5, 95}, hfiR : {400, 4000}]
FbcRequests == [code : {1}, fuel : {"C2", "M1", "O1B"}, pc : {Num}, pdf : {Num}, cc : Maybe, cbh : Maybe,
                cfl : Maybe, ws : Maybe]
Wf1Dailies == [dmc : Maybe, dc : {Num}, temp : Maybe, rh : {Num}, precip : {Num}, ws : Maybe, type : {"ACTUAL"}]
Wf1 == [daily : Wf1Dailies \union {None}, yesterday : {None} \union [ffmc : Maybe], hourlies : Maybe,
        critical : Maybe, cfbR : {50}, hfiR : {900}]
OtherRequest == [code |-> 2, fuel |-> "C2", pc |-> Num, pdf |-> Num, cc |-> None, cbh |-> Num, cfl |-> Num, ws |-> None]
OtherWf1 == [daily |-> [dmc |-> Num, dc |-> Num, temp |-> Num, rh |-> Num, precip |-> Num, ws |-> None,
                        type |-> "ACTUAL"],
             yesterday |-> [ffmc |-> Num], hourlies |-> Num, critical |-> None, cfbR |-> 5, hfiR |-> 400]

\* Intensities that rise from a threshold on, and relative humidities of a morning.
TargetHfi == 4000
Intensities == {[f \in 0 .. 101 |-> IF f < t THEN 100 ELSE 4000 + 30 * (f - t)] : t \in {0, 60} \union 76 .. 101}
Hourly(rhs) == Critical!build_hourly_rh_dict(
                 [i \in 1 .. 7 |-> [time |-> 13 + i, rh |-> IF i > 4 THEN rhs[1] ELSE IF i > 2 THEN rhs[2] ELSE rhs[3]]])

\* Stations of a fire zone unit: with and without a daily, its moisture codes and wind,
\* and one of the day before; each leads to critical hours or to none.
WholeDaily == [dmc |-> Num, dc |-> Num, ffmc |-> Num, temp |-> Num, rh |-> Num, precip |-> Num, ws |-> Num,
               type |-> "ACTUAL"]
StationOfZone(start, end) ==
  [daily |-> WholeDaily, yesterday |-> [ffmc |-> Num, cc |-> Num], hourlies |-> Num,
   hours |-> [start |-> start, end |-> end]]
ZoneStations ==
  [daily : {None, WholeDaily, [WholeDaily EXCEPT !.dmc = None], [WholeDaily EXCEPT !.ws = None]},
   yesterday : {None} \union [ffmc : {Num}, cc : Maybe], hourlies : {Num},
   hours : {None, [start |-> 10, end |-> 18], [start |-> 15, end |-> 3]}]
Burning(code, area) == [fuel |-> code, area |-> area]
FuelsOfZone ==
  {<<>>, <<Burning("C-2", 5), Burning("O-1a/O-1b", 3), Burning("C-2", 7)>>,
   <<Burning("Non-fuel", 1), Burning("O-1a/O-1b", 3)>>, <<Burning("D-1/D-2", 2), Burning("C-2", 5)>>}
ZonesOf(x) ==
  <<[stations |-> <<x.station, StationOfZone(13, 20), x.other>>, stats |-> x.fuels],
    [stations |-> <<StationOfZone(9, 17)>>, stats |-> <<Burning("C-2", 1)>>]>>

\* Two stations of WF1, the second perhaps with the code of the first, and dailies of
\* both and of a station that it does not list.
RawStations(id, codes) ==
  [id : {id}, code : codes, status : {"ACTIVE", "CLOSED"}, located : BOOLEAN, centre : {None, 1, 2}, zone : {None, 1}]
Noon(id, type) == [station |-> [id |-> id], type |-> type, weather |-> <<id, type>>]
Noons == {<<>>, <<Noon(1, "ACTUAL"), Noon(2, "FORECAST")>>,
          <<Noon(2, "MANUAL"), Noon(3, "ACTUAL"), Noon(1, "FORECAST"), Noon(2, "ACTUAL")>>}

\* Dailies of two stations on two days; a daily without moisture codes has no prediction.
Daily(code, day, x) == [code |-> code, day |-> day, complete |-> TRUE, x |-> x]
Inputs(bui, hfi) == [pc |-> 1, pdf |-> 1, cc |-> None, cbh |-> 1, cfl |-> 1, bui |-> bui, ffmc |-> 1, isi |-> 1,
                     ws |-> 1, cfbR |-> 10, hfiR |-> hfi]
MaybeDaily(code, day) ==
  {<<>>} \union {<<Daily(code, day, x)>> : x \in {Inputs(None, 100), Inputs(1, 100), Inputs(1, 3000), Inputs(1, 5000)}}
Infos == {<<[code |-> 1, selected |-> a, fuel |-> "C3"], [code |-> 2, selected |-> b, fuel |-> "C3"],
            [code |-> 3, selected |-> TRUE, fuel |-> f]>> : a, b \in BOOLEAN, f \in {"C3", "C7B"}}
PrepLookup == [s \in {"low", "high"} |-> [g \in 1 .. 5 |-> IF s = "low" THEN (g + 1) \div 2 ELSE g]]

\* Two stations, WF1's dailies of three days, and our forecasts of the last two.
Cells == {"a", "b"} \X (1 .. 3)
CellsInTurn == <<<<"a", 1>>, <<"a", 2>>, <<"a", 3>>, <<"b", 1>>, <<"b", 2>>, <<"b", 3>>>>
Station(c) == [id |-> c, code |-> c, status |-> "ACTIVE", located |-> TRUE, centre |-> 1, zone |-> 1]
RawDailies(types) ==
  LET its == Kept(CellsInTurn, {i \in DOMAIN CellsInTurn : types[CellsInTurn[i]] # "NONE"})
      chain(c) == IF types[c] = "ACTUAL" THEN <<<<"wf1", c[1], c[2]>>>> ELSE None
  IN [i \in DOMAIN its |-> [id |-> its[i], station |-> Station(its[i][1]), type |-> types[its[i]], day |-> its[i][2],
                            weather |-> its[i],
                            codes |-> [k \in {"ffmc", "dmc", "dc", "isi", "bui", "fwi"} |-> chain(its[i])]]]
Forecasts == {[code |-> c, day |-> d, stamp |-> 1] : c \in {"a", "b"}, d \in 2 .. 3}
             \union {[code |-> "a", day |-> 2, stamp |-> 2]}

\* Cells of a row of the C-Haines raster, one of them outside of the box.
ChartCells == {[inside |-> TRUE, t700 |-> 0, t850 |-> 12, d850 |-> d] : d \in {0, 15, 24, 40}}
              \union {[inside |-> FALSE, t700 |-> 0, t850 |-> 30, d850 |-> 20]}

\* Pixels at the thresholds of the classes, and a database with two runs of a day.
FuelTypes == <<[fuel_type_id |-> 1, fuel_type_code |-> "C-1"], [fuel_type_id |-> 3, fuel_type_code |-> "M-1/M-2"],
               [fuel_type_id |-> 99, fuel_type_code |-> "Non-fuel"]>>
Pixels == [hfi : {3999, 4000, 9999, 10000}, snow : {10, 11, 101}, fuel : {1, 99}, tpi : {1, 2, 4}]
ZonePixels == {[hfi |-> 100, snow |-> 0, fuel |-> 1, tpi |-> 1], [hfi |-> 4000, snow |-> 0, fuel |-> 1, tpi |-> 1],
               [hfi |-> 10000, snow |-> 0, fuel |-> 3, tpi |-> 2], [hfi |-> 10000, snow |-> 50, fuel |-> 3, tpi |-> 2],
               [hfi |-> 4000, snow |-> 101, fuel |-> 99, tpi |-> 4]}
Shapes == {[id |-> 1, source_identifier |-> "11", combustible_area |-> 3, fire_centre |-> "K"],
           [id |-> 2, source_identifier |-> "12", combustible_area |-> 2, fire_centre |-> "K"],
           [id |-> 3, source_identifier |-> "13", combustible_area |-> 2, fire_centre |-> None]}
AdvisoryDb(zones, snow) ==
  LET now == <<zones[1], zones[2], zones[1]>>
      before == [z \in 1 .. 3 |-> <<[hfi |-> 4000, snow |-> 0, fuel |-> 1, tpi |-> 1]>>]
      hours == (1 :> <<10, 12>>) @@ (2 :> <<14, 18>>) @@ (3 :> None)
      stored(db, i) == Advisories!save_run_parameters(db, i, "forecast", i, 1)
      db == [run_parameters |-> {}, sfms_fuel_types |-> FuelTypes, advisory_shapes |-> Shapes,
             high_hfi_area |-> Advisories!HighHfiRows(now, snow, 2) \union Advisories!HighHfiRows(before, snow, 1),
             advisory_tpi_stats |-> Advisories!TpiRows(now, snow, 2) \union Advisories!TpiRows(before, snow, 1),
             advisory_fuel_stats |-> Advisories!store_advisory_fuel_stats(now, 2, FuelTypes)
                                     \union Advisories!store_advisory_fuel_stats(before, 1, FuelTypes),
             critical_hours |-> {}]
  IN [stored(stored(stored(db, 1), 2), 1) EXCEPT
        !.critical_hours = Advisories!save_critical_hours(db, hours, 2)
                           \union Advisories!save_critical_hours(db, hours, 1)]

\* Predictions of two runs for the hour the second starts and for noon; the other
\* rows are of another station and another model.
PredictionRows(temperatures, others, late) ==
  LET row(s, m, k, t) == [station |-> s, model |-> m, run |-> k[1], at |-> k[2], tmp |-> t,
                          rh |-> IF t = None THEN None ELSE 7, delta |-> k[1] + k[2], adjusted |-> 1000 + k[1],
                          update_date |-> IF late THEN 100 - k[1] ELSE 100 + k[1]]
  IN {row(1, "GDPS", k, temperatures[k]) : k \in {x \in DOMAIN temperatures : temperatures[x] # Absent}}
     \union IF others THEN {row(2, "GDPS", <<0, 20>>, 3), row(2, "GDPS", <<24, 44>>, None), row(1, "RDPS", <<12, 20>>, 9)}
            ELSE {}

\* Readings around a noon, and predictions of two runs for them and the next noon.
Readings(kinds) ==
  {[at |-> t, value |-> IF kinds[t] = "missing" THEN None ELSE 7, valid |-> kinds[t] # "invalid",
    precipitation |-> IF kinds[t] = "missing" THEN None ELSE 2] : t \in {x \in DOMAIN kinds : kinds[x] # "none"}}
ModelRows(values) ==
  {[model |-> "GDPS", run |-> k[1], at |-> k[2], value |-> values[k], precip_24h |-> values[k]] :
     k \in {x \in DOMAIN values : values[x] # Absent}}
  \union {[model |-> "RDPS", run |-> 6, at |-> 20, value |-> 1, precip_24h |-> 1]}

BehaviourQuestions == [fuel : Hfi!FuelTypeEnum, x : Fuels]
StationQuestions == [request : FbcRequests, wf1 : Wf1]
HoursQuestions == [hfi : Intensities, daily : {60, 73, 85, 90}, prev : {80, 90}, rhs : [1 .. 3 -> {None, 50, 101}]]
ZoneQuestions == [station : ZoneStations, other : ZoneStations, fuels : FuelsOfZone]
PeriodQuestions == [start : {None, 1, 20}, end : {None} \union (-1 .. 30)]
Wf1Questions ==
  [stations : {<<>>} \union {<<a>> : a \in RawStations(1, {1})}
              \union {<<a, b>> : a \in RawStations(1, {1}), b \in RawStations(2, {1, 2})},
   dailies : Noons, size : 1 .. 2, codes : {None, <<1>>, <<2, 1, 3>>}]
PrepQuestions ==
  [days : 1 .. 2, starts : {<<>>, <<"high">>, <<"low", "high">>}, infos : Infos,
   raws : {d \o a \o b \o c : a \in MaybeDaily(1, 1), b \in MaybeDaily(2, 1),
                              c \in MaybeDaily(1, 2), d \in MaybeDaily(2, 2)}]
DeterminateQuestions ==
  [types : [Cells -> {"NONE", "ACTUAL", "FORECAST"}], rows : SUBSET Forecasts, known : {{"a"}, {"a", "b"}}]
ChartQuestions == [row : [1 .. 4 -> ChartCells]]
RasterQuestions == [zone : {<<p, q>> : p \in Pixels, q \in {x \in Pixels : x.tpi # 4}}, snow : {None, 7, 8}]
AdvisoryQuestions == [zones : [1 .. 2 -> {<<p, q>> : p, q \in ZonePixels}], snow : {None, 7}]
PredictionQuestions ==
  [temperatures : [{<<0, 12>>, <<0, 20>>, <<12, 12>>, <<12, 20>>} -> {Absent, None, 0, 5}],
   others : BOOLEAN, late : BOOLEAN]
BiasQuestions ==
  [kinds : [{18, 20, 21} -> {"none", "missing", "invalid", "good"}],
   values : [{<<0, 18>>, <<12, 18>>, <<0, 21>>, <<12, 21>>, <<12, 44>>} -> {Absent, None, 5}], now : {22, 42}]

Questions(about) ==
  CASE about = "behaviour" -> BehaviourQuestions
    [] about = "stations" -> StationQuestions
    [] about = "hours" -> HoursQuestions
    [] about = "zones" -> ZoneQuestions
    [] about = "prep" -> PrepQuestions
    [] about = "period" -> PeriodQuestions
    [] about = "wf1" -> Wf1Questions
    [] about = "determinates" -> DeterminateQuestions
    [] about = "chart" -> ChartQuestions
    [] about = "raster" -> RasterQuestions
    [] about = "advisories" -> AdvisoryQuestions
    [] about = "predictions" -> PredictionQuestions
    [] about = "bias" -> BiasQuestions

Topics == {"behaviour", "stations", "hours", "zones", "prep", "period", "wf1", "determinates", "chart", "raster",
           "advisories", "predictions", "bias"}

NothingAsked == topic \in Topics /\ asked = None
Ask == asked = None /\ (\E q \in Questions(topic) : asked' = q) /\ UNCHANGED topic

About(t) == topic = t /\ asked # None

-----------------------------------------------------------------------------
\* A daily has a whole fire behaviour prediction or none, and each station of a
\* request is answered by itself.
BehaviourIsWhole ==
  /\ About("behaviour") => Hfi!PredictionIsWhole(asked.fuel, asked.x)
  /\ About("stations") => Hfi!StationsAnswerForThemselves(<<asked.request, OtherRequest>>, <<asked.wf1, OtherWf1>>)

\* The critical hours of a day are those at which its diurnal curve reaches the
\* critical FFMC, no more and no less, and those of a zone lie within its stations'.
HoursAreCritical ==
  /\ About("hours") =>
       Critical!HoursAreCritical(asked.daily, asked.hfi, TargetHfi, asked.daily, asked.prev, Hourly(asked.rhs))
  /\ About("zones") => Critical!HoursAreOfItsStations(ZonesOf(asked))

\* Two planning areas, the second with one of the stations of the first.
PrepAreas == <<asked.infos, <<asked.infos[1]>>>>
PrepResults ==
  Hfi!calculate_hfi_results(asked.raws, PrepAreas, {1, 2}, asked.days, <<asked.starts, <<>>>>, PrepLookup, "low")
\* A planning area has a mean prep level exactly when its stations have all of
\* their dailies, the levels lie within those they stand for, the daily sheets show
\* the dailies of their days, and a period has the days that are asked for.
PrepResultIsWhole ==
  /\ About("prep") =>
       \A results \in {PrepResults} :
          results # OtherError =>
            \A a \in DOMAIN PrepAreas :
              /\ Hfi!ResultIsWhole(results[a], asked.raws, PrepAreas[a], {1, 2}, asked.days)
              /\ Hfi!SheetsShowTheirDays(results[a], {1, 2}, asked.days)
  /\ About("period") => Hfi!PeriodIsWhole(asked.start, asked.end, 9)

\* The stations and dailies of WF1 are the same in every list that is made of them;
\* of a station and day there is one forecast or none, and the moisture codes of a
\* forecast continue those of the day before.
DeterminatesAgree ==
  /\ About("wf1") =>
       /\ Determinates!PagesAreWhole(asked.stations, asked.size)
       /\ Determinates!StationListsAgree(asked.stations)
       /\ Determinates!CodesFindTheSame(asked.stations, asked.codes)
       /\ Determinates!GroupsAreWhole(<<asked.stations, asked.stations \o asked.stations>>)
       /\ Determinates!ObservationsAreOwn(asked.stations, asked.dailies)
  /\ About("determinates") =>
       LET raw == RawDailies(asked.types)
       IN \A answer \in {Determinates!get_determinates_for_date_range(raw, asked.rows, {"a", "b"}, asked.known, 2, 3)} :
          answer # None =>
            /\ Determinates!OneForecastEach(answer) /\ Determinates!ForecastsContinue(answer)
            /\ Determinates!ObservedAreShown(answer, Determinates!get_observed_dailies(raw, asked.known, 2, 3))

\* A chart shows every cell that is not low under its severity, the worse on top;
\* it gets no milder where air is drier or less stable; and its hours follow.
ChartIsWhole ==
  About("chart") =>
    /\ Chart!ChartIsWhole(asked.row)
    /\ asked.row[1].inside =>
         \A t \in 10 .. 20, d \in 0 .. 30 : Chart!SeverityGrows(asked.row[1].t700, t, d)
    /\ \A model \in {"GDPS", "RDPS", "HRDPS"} : Chart!SpansFollow(model)

\* The stages of the consumer agree on the pixels of a zone, and the views of the
\* API on the rows they store.
AdvisoriesAgree ==
  /\ About("raster") => Advisories!StagesAgree(asked.zone, asked.snow, FuelTypes)
  /\ About("advisories") => LET db == AdvisoryDb(asked.zones, asked.snow)
                            IN Advisories!ViewsAgree(db, 2) /\ Advisories!RunsAreListed(db, "forecast", 1)

\* "Critical hours by firezone unit, fuel type and sfms run parameters": the hours
\* that are shown with a fuel type in a zone are those stored for it.
HoursAreOfTheZone ==
  About("advisories") => Advisories!HoursAreOfTheZone(AdvisoryDb(asked.zones, asked.snow), 2, "K")

\* Of each station and time the newest run is shown, once; the daily views have one
\* prediction a day, with its bias adjusted twin; and the summaries are of all the
\* values of their station and time.
PredictionViewsAgree ==
  About("predictions") =>
    LET rows == PredictionRows(asked.temperatures, asked.others, asked.late)
    IN /\ Views!NewestRunIsShown(rows, "GDPS", {1, 2}, 44)
       /\ Views!DailyViewsAreWhole(rows, "GDPS", {1, 2}, 44)
       /\ Views!SummariesAreWhole(rows, "GDPS", {1, 2}, 44)

\* A reading is learned once, with the newest prediction for its hour, and nothing
\* else but gaps at noon.
LearnedOnce ==
  About("bias") => Bias!LearnedOnce(Readings(asked.kinds), ModelRows(asked.values), "GDPS", 0, asked.now)

\* "If there's a gap in the data (like with the GLOBAL model) - then make up a noon
\* prediction using interpolation, and add it as a sample."
NoonGapsAreFilled ==
  About("bias") => Bias!NoonGapsAreFilled(Readings(asked.kinds), ModelRows(asked.values), "GDPS", 0, asked.now)

\* "The end datetime is yesterday at 20:00 UTC.": only days that are over are
\* learned from.
OnlyPastDaysAreLearned ==
  About("bias") =>
    Bias!OnlyPastDaysAreLearned(Readings(asked.kinds), ModelRows(asked.values), "GDPS", asked.now, 0)
=============================================================================
