----------------------------- MODULE CriticalHours -----------------------------
(***************************************************************************)
(* The hours of a day in which the head fire intensity of a fuel type      *)
(* reaches a target (fire_behaviour/prediction.py), from the fine fuel     *)
(* moisture code (FFMC) at which it does, the diurnal curve of the Red     *)
(* Book, and the relative humidities of the morning; and the critical      *)
(* hours of a fire zone unit (auto_spatial_advisory/critical_hours.py).    *)
(*                                                                         *)
(* Codes are whole numbers; hours count on after midnight, so that 31 is   *)
(* 07:00 of the next morning.  Hours are in Pacific daylight time.         *)
(***************************************************************************)
EXTENDS FireBehaviour, FiniteSets, SequencesExt

CONSTANTS
  Afternoon, \* Table 4.1: for a daily FFMC, that of the hours 13 to 31 but 17
  Morning    \* Table 4.2: for yesterday's daily FFMC and an hour, ranges of RH

\* What the tables hold.  At 16:00 the curve has not passed its peak: what is critical
\* then is so at 18:00.
TablesAreWhole ==
  /\ DOMAIN Afternoon # {} /\ DOMAIN Afternoon \in SUBSET Int
  /\ \A k \in DOMAIN Afternoon :
       /\ \A h \in (13 .. 31) \ {17} : Afternoon[k][h] \in 0 .. 101
       /\ Afternoon[k][16] <= Afternoon[k][18]
  /\ DOMAIN Morning # {} /\ DOMAIN Morning \in SUBSET Int
  /\ \A k \in DOMAIN Morning : \A h \in 7 .. 12 :
       Morning[k][h] \in Seq([lower : Int, upper : Int, ffmc : 0 .. 101])

Distance(a, b) == IF a < b THEN b - a ELSE a - b
Nearest(keys, x) == CHOOSE k \in keys : \A j \in keys : Distance(k, x) <= Distance(j, x)

\* get_ffmc_for_target_hfi, for the intensity hfi[f] that code f leads to.  The
\* search halves the distance to 101 on its way up and adds half of it on its way
\* down.  Here is where it may stop: within one per cent of the target, at 101
\* below the target, or at 0, which a step down from a third of 101 overshoots.
get_ffmc_for_target_hfi(ffmc, hfi, target) ==
  {<<f, hfi[f]>> : f \in {g \in DOMAIN hfi :
     \/ 100 * Distance(target, hfi[g]) <= target
     \/ g = 101 /\ hfi[g] < target
     \/ g = 0 /\ (ffmc = 0 \/ \E x \in DOMAIN hfi : 3 * x <= 101 /\ 100 * (hfi[x] - target) > target)}}

\* get_afternoon_overnight_diurnal_ffmc; hour 17 finds the column of 18.
get_afternoon_overnight_diurnal_ffmc(hour, daily) ==
  Afternoon[Nearest(DOMAIN Afternoon, daily)][IF hour = 17 THEN 18 ELSE hour]

\* get_morning_diurnal_ffmc: the first range that the humidity is in.
get_morning_diurnal_ffmc(hour, prev, rh) ==
  LET ranges == Morning[Nearest(DOMAIN Morning, prev)][hour]
      its == {i \in DOMAIN ranges : ranges[i].lower <= rh /\ rh <= ranges[i].upper}
  IN IF its = {} THEN None ELSE ranges[CHOOSE i \in its : \A j \in its : i <= j].ffmc

\* build_hourly_rh_dict: the most recent observation of each hour of the morning,
\* its humidity known or not; obs[i].time is in hours of UTC.
build_hourly_rh_dict(obs) ==
  [h \in 7 .. 12 |->
     LET its == {i \in DOMAIN obs : (obs[i].time - 7) % 24 = h}
     IN IF its = {} THEN None
        ELSE obs[CHOOSE i \in its : \A j \in its : obs[j].time <= obs[i].time].rh]

\* get_critical_hours_start: each loop goes back in time from its last hour and stops
\* where the FFMC is no longer critical; a humidity that is missing raises there.
get_critical_hours_start(critical, daily, prev, rh) ==
  LET unknown(c) == rh[c] = None \/ get_morning_diurnal_ffmc(c, prev, rh[c]) = None
      morning == {c \in 7 .. 12 : unknown(c) \/ get_morning_diurnal_ffmc(c, prev, rh[c]) < critical}
      afternoon == {c \in 13 .. 16 : get_afternoon_overnight_diurnal_ffmc(c, daily) < critical}
  IN IF rh = None \/ daily < critical THEN None
     ELSE IF 13 \in afternoon THEN Max(afternoon) + 1
     ELSE IF morning = {} THEN 7
     ELSE IF unknown(Max(morning)) THEN OtherError ELSE Max(morning) + 1

\* The hours at which the loop of get_critical_hours_end may stop, 8 being the last.
StopsAfter(critical, daily, start) ==
  {c \in (IF start < 13 THEN 14 ELSE start + 1) .. 31 : get_afternoon_overnight_diurnal_ffmc(c, daily) < critical}
  \union {32}

\* Regression: the hour that is no longer critical counts too.
OneHourMore(critical, daily, start) == Min(StopsAfter(critical, daily, start)) % 24

get_critical_hours_end(critical, daily, start) ==
  LET last == Min(StopsAfter(critical, daily, start)) - 1
  IN IF last >= 24 THEN last - 24 ELSE last

\* get_critical_hours, for one of the results of the search.
get_critical_hours(found, target, daily, prev, rh) ==
  IF found[1] = 101 /\ found[2] < target THEN None
  ELSE IF found[1] = 0 /\ found[2] >= target THEN [start |-> 13, end |-> 7]
  ELSE LET start == get_critical_hours_start(found[1], daily, prev, rh)
       IN IF start \in {None, OtherError} THEN start
          ELSE [start |-> start, end |-> get_critical_hours_end(found[1], daily, start)]

-----------------------------------------------------------------------------
(* The hours of a fire zone unit.  A station has its daily, yesterday's, its *)
(* hourlies and, for each fuel type, the critical hours its FFMC leads to.   *)

\* Times of stations are known by their positions; the order they are sorted to.
Sorted(times) ==
  CHOOSE s \in [1 .. Cardinality(DOMAIN times) -> DOMAIN times] :
    \A i, j \in DOMAIN s : i < j => \/ times[s[i]] < times[s[j]]
                                    \/ times[s[i]] = times[s[j]] /\ s[i] < s[j]

\* np.percentile interpolates between neighbours; q quarters, times 4.
Percentile4(times, q) ==
  LET s == Sorted(times)
      at == (Cardinality(DOMAIN times) - 1) * q
      i == at \div 4 + 1
      r == at % 4
  IN IF r = 0 THEN 4 * times[s[i]] ELSE times[s[i]] * (4 - r) + times[s[i + 1]] * r

determine_start_time(times) ==
  IF Cardinality(DOMAIN times) < 3 THEN Min({times[i] : i \in DOMAIN times}) ELSE Percentile4(times, 1) \div 4
\* The ends are hours of the clock: 23 comes after 3 of the next morning.
determine_end_time(times) ==
  IF Cardinality(DOMAIN times) < 3 THEN Max({times[i] : i \in DOMAIN times}) ELSE (Percentile4(times, 3) + 3) \div 4

calculate_representative_hours(hours) ==
  <<determine_start_time([i \in DOMAIN hours |-> hours[i].start]),
    determine_end_time([i \in DOMAIN hours |-> hours[i].end])>>

check_station_valid(s) ==
  /\ s.daily # None /\ s.hourlies # None
  /\ None \notin {s.daily.dmc, s.daily.dc, s.daily.ffmc}

\* FUEL_TYPE_DEFAULTS and the weather of the station, for R.
InputsOf(s, f, wind) ==
  [pc |-> Num, pdf |-> Num, cbh |-> Num, cfl |-> Num, cc |-> s.yesterday.cc, bui |-> wind.bui,
   ffmc |-> wind.ffmc, isi |-> wind.isi, ws |-> wind.ws, cfbR |-> Num, hfiR |-> Num]

HoursInWind(s, f, wind) ==
  LET x == InputsOf(s, f, wind)
      sfc == surface_fuel_consumption(f, x)
      ros == rate_of_spread(f, x, foliar_moisture_content, sfc)
  IN Unless(<<wind>>, Unless(<<sfc, ros>>, s.hours))

\* calculate_critical_hours_for_station_by_fuel_type: hours, None, or an error.
HoursOfStation(s, f) ==
  IF s.yesterday = None THEN OtherError
  ELSE HoursInWind(s, f, calculate_wind_speed_result([ws |-> None], s.yesterday, s.daily))

\* The fuel type that a code of the fuel grid names; "D-1/D-2" names none.
FuelOf(code) ==
  LET dashed == ("C-1" :> "C1") @@ ("C-2" :> "C2") @@ ("C-3" :> "C3") @@ ("C-4" :> "C4") @@ ("C-5" :> "C5")
                @@ ("C-6" :> "C6") @@ ("C-7" :> "C7") @@ ("S-1" :> "S1") @@ ("S-2" :> "S2") @@ ("S-3" :> "S3")
                @@ ("O-1a/O-1b" :> "O1B")
  IN IF code \in DOMAIN dashed THEN dashed[code] ELSE OtherError

\* calculate_critical_hours_by_fuel_type: an error leaves out one station for one
\* fuel type, but a code that names no fuel type is looked up before; fuel types
\* without any hours are left out.
calculate_critical_hours_by_fuel_type(stations, codes) ==
  LET valid == {i \in DOMAIN stations : check_station_valid(stations[i])}
      hours(code) == [i \in valid |-> HoursOfStation(stations[i], FuelOf(code))]
      of(code) == {i \in valid : hours(code)[i] \notin Errors \union {None}}
  IN IF valid # {} /\ \E code \in codes : FuelOf(code) = OtherError THEN OtherError
     ELSE [code \in {c \in codes : of(c) # {}} |-> [i \in of(code) |-> hours(code)[i]]]

\* get_fuel_types_by_area adds up the areas of a fuel type, leaving out Non-fuel.
get_fuel_types_by_area(stats) ==
  LET its(f) == SelectSeq(stats, LAMBDA r : r.fuel = f)
  IN [f \in {stats[i].fuel : i \in DOMAIN stats} \ {"Non-fuel"} |->
        FoldLeft(LAMBDA sum, r : sum + r.area, 0, its(f))]

\* calculate_critical_hours_by_zone: all zones are calculated before the first of
\* them is saved.
calculate_critical_hours_by_zone(zones) ==
  LET hours == [z \in DOMAIN zones |->
                  calculate_critical_hours_by_fuel_type(zones[z].stations,
                                                        DOMAIN get_fuel_types_by_area(zones[z].stats))]
  IN IF OtherError \in {hours[z] : z \in DOMAIN zones} THEN OtherError
     ELSE UNION {{<<z, code, calculate_representative_hours(hours[z][code])>> : code \in DOMAIN hours[z]} :
                   z \in DOMAIN zones}

-----------------------------------------------------------------------------
\* The diurnal FFMC of an hour: hour 17 has the daily one.
DiurnalFFMC(h, daily, prev, rh) ==
  IF h = 17 THEN daily
  ELSE IF h < 13 THEN get_morning_diurnal_ffmc(h, prev, rh[h])
  ELSE get_afternoon_overnight_diurnal_ffmc(h, daily)

\* Critical hours are those of the diurnal curve at which the fire reaches its
\* target: every hour from start to end does, to one per cent, and neither the
\* hour before nor the one after has an FFMC that the search found critical.
HoursAreCritical(ffmc, hfi, target, daily, prev, rh) ==
  \A found \in get_ffmc_for_target_hfi(ffmc, hfi, target) :
    LET hours == get_critical_hours(found, target, daily, prev, rh)
        curve(h) == DiurnalFFMC(h, daily, prev, rh)
        last == IF hours.end < 13 THEN hours.end + 24 ELSE hours.end
    IN hours \notin {None, OtherError} /\ found[1] # 0 =>
         /\ \A h \in hours.start .. last : /\ curve(h) >= found[1]
                                           /\ 100 * (target - hfi[curve(h)]) <= target
         /\ hours.start > 7 => curve(hours.start - 1) < found[1]
         /\ last < 31 => curve(last + 1) < found[1]

\* A zone has critical hours for a fuel type, once, exactly when the fuel type burns
\* there and some station of the zone leads to hours; they start no earlier than the
\* first of its stations and end no later than the last does by the clock.  Stations
\* that are not valid, or fail, take no hours away from the others.
HoursAreOfItsStations(zones) ==
  LET codes(z) == {r.fuel : r \in ToSet(zones[z].stats)} \ {"Non-fuel"}
      of(z, code) == {HoursOfStation(s, FuelOf(code)) : s \in {x \in ToSet(zones[z].stations) : check_station_valid(x)}}
                     \ (Errors \union {None})
  IN \A rows \in {calculate_critical_hours_by_zone(zones)} :
     rows # OtherError =>
       /\ \A z \in DOMAIN zones : \A code \in codes(z) :
            Cardinality({r \in rows : r[1] = z /\ r[2] = code}) = IF of(z, code) = {} THEN 0 ELSE 1
       /\ \A r \in rows : /\ r[2] \in codes(r[1])
                          /\ \E h \in of(r[1], r[2]) : h.start <= r[3][1]
                          /\ \E h \in of(r[1], r[2]) : r[3][2] <= h.end
=============================================================================
