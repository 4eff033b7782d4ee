----------------------------- MODULE FireBehaviour -----------------------------
(***************************************************************************)
(* What the fire behaviour of a station is made of: the calls into the R   *)
(* package cffdrs (fire_behaviour/cffdrs.py), the prediction of the HFI    *)
(* calculator (prediction.py), and the advisory of the fire behaviour      *)
(* calculator with its router (advisory.py, wind_speed.py, fba_calc.py).   *)
(*                                                                         *)
(* The model follows what is there and what is missing.  A value is a      *)
(* number, None, an exception that was returned instead of raised, or the  *)
(* error with which a call ended: one of its own (cffdrs), one about its   *)
(* input, or any other (of R, of Python), which fewer callers expect.      *)
(***************************************************************************)
EXTENDS Integers, Sequences

CONSTANTS
  None,
  Returned,    \* a CFFDRSException that is returned
  CffdrsError, \* CFFDRSException, raised
  InputError,  \* FireBehaviourPredictionInputError
  OtherError   \* any other exception

Errors == {CffdrsError, InputError, OtherError}

Num == 1 \* a number whose size does not matter
IsNumber(x) == x \notin {None, Returned} \union Errors

\* The error of the first of some calls that ended with one, or else the result.
Unless(calls, result) ==
  IF \A i \in DOMAIN calls : calls[i] \notin Errors THEN result
  ELSE calls[CHOOSE i \in DOMAIN calls : calls[i] \in Errors /\ \A j \in 1 .. i - 1 : calls[j] \notin Errors]

\* A function of R gives the number if it has all that it needs.
R(needs, number) == IF \A x \in needs : IsNumber(x) THEN number ELSE OtherError

-----------------------------------------------------------------------------
(* fuel_types.py *)

FuelTypeEnum == {"C1", "C2", "C3", "C4", "C5", "C6", "C7", "C7B", "D1", "D2", "M1", "M2",
                 "M3", "M4", "O1A", "O1B", "S1", "S2", "S3"}
is_grass_fuel_type(f) == f \in {"O1A", "O1B", "C7B"}
NoCrown == {"D1", "O1A", "O1B", "S1", "S2", "S3"}

-----------------------------------------------------------------------------
(* cffdrs.py.  x has what is known of the fuel and its weather: pc, pdf, cc, *)
(* cbh, cfl, bui, ffmc, isi, ws, and the numbers that R comes to.            *)

\* Besides what it always uses, R uses what matters for the fuel type.
OfFuel(f, x) ==
  CASE f \in {"M1", "M2"} -> {x.pc}
    [] f \in {"M3", "M4"} -> {x.pdf}
    [] f \in {"O1A", "O1B"} -> {x.cc}
    [] f = "C6" -> {x.cbh}
    [] OTHER -> {}

foliar_moisture_content == Num

surface_fuel_consumption(f, x) ==
  IF None \in {x.bui, x.ffmc} THEN CffdrsError
  ELSE R(IF f \in {"M1", "M2"} THEN {x.pc} ELSE {}, Num)

rate_of_spread(f, x, fmc, sfc) ==
  IF None \in {x.isi, x.bui, sfc} THEN CffdrsError ELSE R(OfFuel(f, x) \union {fmc}, Num)

rate_of_spread_t(ros, cfb) == R({ros, cfb}, Num)

\* It calls for a slope, and there is none: the wind speed as it is.
calculate_wind_speed(x) == x.ws

back_rate_of_spread(f, x, wsv, fmc, sfc) ==
  IF None \in {x.ffmc, x.bui, fmc, sfc} THEN CffdrsError ELSE R(OfFuel(f, x) \union {wsv}, Num)

\* The exception is returned, not raised.
length_to_breadth_ratio(ws) == IF ws = None THEN Returned ELSE R({ws}, Num)
length_to_breadth_ratio_t(lb, cfb) == R({lb, cfb}, Num)
fire_distance(ros, cfb) == R({ros, cfb}, Num)

\* cbh is turned into NULL before it is compared with None.
crown_fraction_burned(x, fmc, sfc, ros) ==
  IF fmc = None THEN CffdrsError ELSE R({x.cbh, sfc, ros}, x.cfbR)

total_fuel_consumption(f, x, cfb, cfl, sfc) ==
  IF None \in {cfb, cfl} THEN CffdrsError
  ELSE R((OfFuel(f, x) \ {x.cc, x.cbh}) \union {cfb, cfl, sfc}, Num)

head_fire_intensity(f, x, ros, cfb, cfl, sfc) ==
  LET tfc == total_fuel_consumption(f, x, cfb, cfl, sfc) IN Unless(<<tfc>>, R({tfc, ros}, x.hfiR))

bui_calc(dmc, dc) == R({dmc, dc}, Num)
fire_weather_index(isi, bui) == R({isi, bui}, Num)
initial_spread_index(ffmc, ws) == R({ffmc, ws}, Num)

\* The moisture codes: None without yesterday's, or when R comes to nothing.
MoistureCode(yesterday, weather) ==
  IF yesterday = None \/ \E w \in weather : ~IsNumber(w) THEN None ELSE Num
fine_fuel_moisture_code(ffmc, temp, rh, precip, ws) == MoistureCode(ffmc, {temp, rh, precip, ws})

\* c7b.rate_of_spread divides by the build-up index.
c7b_rate_of_spread(x) == IF x.bui = 0 THEN OtherError ELSE R({x.ffmc, x.bui, x.ws, x.cc}, Num)

-----------------------------------------------------------------------------
(* prediction.py *)

calculate_cfb(f, x, fmc, sfc, ros) ==
  IF f \in NoCrown THEN 0
  ELSE IF x.cbh = None THEN None
  ELSE crown_fraction_burned(x, fmc, sfc, ros)

get_fire_size(ros, bros, cfb, lb) ==
  IF None \in {ros, bros, lb} THEN CffdrsError
  ELSE Unless(<<fire_distance(ros, cfb), length_to_breadth_ratio_t(lb, cfb)>>, Num)

\* cfb in per cent; None does not compare with a number.
get_fire_type(f, cfb) ==
  IF f = "D1" THEN "SUR"
  ELSE IF ~IsNumber(cfb) THEN OtherError
  ELSE IF cfb < 10 THEN "SUR" ELSE IF cfb < 90 THEN "IC" ELSE "CC"

get_approx_flame_length(hfi) == IF IsNumber(hfi) THEN Num ELSE OtherError

calculate_intensity_group(hfi) ==
  IF hfi < 500 THEN 1 ELSE IF hfi < 1000 THEN 2 ELSE IF hfi < 2000 THEN 3 ELSE IF hfi < 4000 THEN 4 ELSE 5

FireBehaviourPrediction(ros, hfi, group, size, type) ==
  [ros |-> ros, hfi |-> hfi, intensity_group |-> group, sixty_minute_fire_size |-> size,
   fire_type |-> type]
NoPrediction == FireBehaviourPrediction(None, None, None, None, None)

\* The rest of a prediction from what R came to.  hfi is unbound where cfb or cfl is
\* None; a call that raises ends it.
CompletePrediction(f, calls, cfb, ros, hfi, size) ==
  LET type == get_fire_type(f, cfb)
  IN Unless(calls \o <<type, IF hfi = None THEN OtherError ELSE hfi>>,
            FireBehaviourPrediction(ros, hfi, calculate_intensity_group(hfi), size, type))

PredictionOfSpread(f, x, fmc, sfc, ros, cfb) ==
  LET hfi == IF None \in {cfb, x.cfl} THEN None ELSE head_fire_intensity(f, x, ros, cfb, x.cfl, sfc)
      lb == length_to_breadth_ratio(x.ws)
      bros == back_rate_of_spread(f, x, calculate_wind_speed(x), fmc, sfc)
      size == get_fire_size(ros, bros, cfb, lb)
  IN CompletePrediction(f, <<sfc, ros, cfb, hfi, lb, bros, size>>, cfb, ros, hfi, size)

calculate_fire_behaviour_prediction_using_cffdrs(f, x) ==
  LET fmc == foliar_moisture_content
      sfc == surface_fuel_consumption(f, x)
      ros == rate_of_spread(f, x, fmc, sfc)
  IN PredictionOfSpread(f, x, fmc, sfc, ros, calculate_cfb(f, x, fmc, sfc, ros))

calculate_fire_behaviour_prediction_using_c7b(x) ==
  LET ros == c7b_rate_of_spread(x)
      fmc == foliar_moisture_content
      sfc == surface_fuel_consumption("C7", x)
      cfb == crown_fraction_burned(x, fmc, sfc, ros)
      hfi == head_fire_intensity("C7", x, ros, cfb, x.cfl, sfc)
  IN IF x.cc = None THEN InputError
     ELSE CompletePrediction("C7B", <<ros, sfc, cfb, hfi>>, cfb, ros, hfi, None)

calculate_fire_behaviour_prediction(f, x) ==
  IF None \in {x.ws, x.bui, x.ffmc} \/ (x.cc = None /\ is_grass_fuel_type(f)) THEN InputError
  ELSE IF f = "C7B" THEN calculate_fire_behaviour_prediction_using_c7b(x)
  ELSE calculate_fire_behaviour_prediction_using_cffdrs(f, x)

\* generate_station_daily of hfi_calc.py expects two kinds of error.
OrNone(prediction) == IF prediction \in {InputError, CffdrsError} THEN NoPrediction ELSE prediction
PredictionOfDaily(f, x) == OrNone(calculate_fire_behaviour_prediction(f, x))

-----------------------------------------------------------------------------
(* advisory.py, wind_speed.py and routers/fba_calc.py *)

WindResult(request, daily, bui, ws, ffmc, isi, fwi) ==
  Unless(<<bui, ffmc, isi, fwi,
           \* WindResult wants numbers.
           IF \A v \in {bui, ffmc, isi, ws, fwi} : IsNumber(v) THEN Num ELSE OtherError>>,
         [ffmc |-> ffmc, bui |-> bui, isi |-> isi, ws |-> ws, fwi |-> fwi,
          status |-> IF request.ws = None THEN daily.type ELSE "ADJUSTED"])

calculate_wind_speed_result(request, yesterday, daily) ==
  LET bui == bui_calc(daily.dmc, daily.dc)
      ws == IF request.ws = None THEN daily.ws ELSE request.ws
      ffmc == fine_fuel_moisture_code(yesterday.ffmc, daily.temp, daily.rh, daily.precip, ws)
      isi == initial_spread_index(ffmc, ws)
  IN WindResult(request, daily, bui, ws, ffmc, isi, fire_weather_index(isi, bui))

\* The sizes follow from the spread and the crown fraction, after an hour and after
\* half an hour (_t).  The critical hours of the station are an argument: a pair,
\* None or an error.
AdvisoryOfSpread(f, x, critical, sfc, ros, cfb, ros_t, cfb_t) ==
  LET lb == length_to_breadth_ratio(x.ws)
      cfl == IF x.cfl = None THEN Num ELSE x.cfl \* FUEL_TYPE_DEFAULTS
      hfi == head_fire_intensity(f, x, ros, cfb, cfl, sfc)
      hfi_t == head_fire_intensity(f, x, ros_t, cfb_t, cfl, sfc)
      type == get_fire_type(f, cfb)
      flame == get_approx_flame_length(hfi)
      bros == back_rate_of_spread(f, x, calculate_wind_speed(x), foliar_moisture_content, sfc)
      size == get_fire_size(ros, bros, cfb, lb)
      size_t == get_fire_size(ros_t, bros, cfb_t, lb)
  IN Unless(<<sfc, ros, cfb, ros_t, cfb_t, hfi, hfi_t, critical, type, flame, bros, size, size_t>>,
            [hfi |-> hfi, ros |-> ros, fire_type |-> type, cfb |-> cfb, flame_length |-> flame,
             sixty_minute_fire_size |-> size, thirty_minute_fire_size |-> size,
             critical_hours |-> critical])

calculate_fire_behaviour_advisory(f, x, critical) ==
  LET fmc == foliar_moisture_content
      sfc == surface_fuel_consumption(f, x)
      ros == rate_of_spread(f, x, fmc, sfc)
      cfb == calculate_cfb(f, x, fmc, sfc, ros)
      ros_t == rate_of_spread_t(ros, cfb)
  IN AdvisoryOfSpread(f, x, critical, sfc, ros, cfb, ros_t, calculate_cfb(f, x, fmc, sfc, ros_t))

\* process_request takes yesterday's daily without asking whether there is one.
AdvisoryInWind(request, wf1, wind) ==
  LET x == [pc |-> request.pc, pdf |-> request.pdf, cc |-> request.cc, cbh |-> request.cbh,
            cfl |-> request.cfl, bui |-> wind.bui, ffmc |-> wind.ffmc, isi |-> wind.isi,
            ws |-> wind.ws, cfbR |-> wf1.cfbR, hfiR |-> wf1.hfiR]
      advisory == calculate_fire_behaviour_advisory(request.fuel, x, wf1.critical)
  IN Unless(<<wind>>, Unless(<<advisory>>, [status |-> wind.status, advisory |-> advisory]))

process_request(request, wf1) ==
  IF wf1.yesterday = None THEN OtherError
  ELSE AdvisoryInWind(request, wf1, calculate_wind_speed_result(request, wf1.yesterday, wf1.daily))

process_request_without_observation(status) == [status |-> status, advisory |-> None]

\* Regression: one error and every station has it.
OneTryForAll(requests, wf1) ==
  IF \E i \in DOMAIN requests : /\ None \notin {wf1[requests[i].code].daily, wf1[requests[i].code].hourlies}
                                /\ process_request(requests[i], wf1[requests[i].code]) \in Errors
  THEN [i \in DOMAIN requests |-> process_request_without_observation("ERROR")]
  ELSE [i \in DOMAIN requests |->
          LET its == wf1[requests[i].code]
          IN IF None \in {its.daily, its.hourlies} THEN process_request_without_observation("N/A")
             ELSE process_request(requests[i], its)]

OrError(response) == IF response \in Errors THEN process_request_without_observation("ERROR") ELSE response

\* get_stations_data: one response for each request, an ERROR where anything
\* went wrong; only a station that WF1 does not know fails them all.
get_stations_data(requests, wf1) ==
  IF \E i \in DOMAIN requests : requests[i].code \notin DOMAIN wf1 THEN OtherError
  ELSE [i \in DOMAIN requests |->
          LET its == wf1[requests[i].code]
          IN IF None \in {its.daily, its.hourlies} THEN process_request_without_observation("N/A")
             ELSE OrError(process_request(requests[i], its))]

-----------------------------------------------------------------------------
\* A daily of the HFI calculator has a whole prediction or none; no returned
\* exception is taken for a number; and a station fails the calculation for its
\* whole fire centre in one case only: C7B with a build-up index of zero.
PredictionIsWhole(f, x) ==
  \A p \in {PredictionOfDaily(f, x)} :
     IF p \in Errors THEN p = OtherError /\ f = "C7B" /\ x.bui = 0
     ELSE p = NoPrediction \/ (/\ \A v \in {"ros", "hfi", "intensity_group", "fire_type"} : IsNumber(p[v])
                               /\ f = "C7B" <=> ~IsNumber(p.sixty_minute_fire_size))

\* Every requested station is answered, in order and by itself: with all of the
\* advisory, or with a status that says that there is none.
StationsAnswerForThemselves(requests, wf1) ==
  \A answer \in {get_stations_data(requests, wf1)} :
     answer # OtherError =>
       /\ DOMAIN answer = DOMAIN requests
       /\ \A i \in DOMAIN answer :
            /\ answer[i] = get_stations_data(<<requests[i]>>, wf1)[1]
            /\ answer[i].status \in {"N/A", "ERROR"} <=> answer[i].advisory = None
            /\ answer[i].advisory # None =>
                 \A v \in DOMAIN answer[i].advisory \ {"critical_hours"} : IsNumber(answer[i].advisory[v])
=============================================================================
