------------------------------ MODULE Wf1Dailies ------------------------------
(***************************************************************************)
(* What the API makes of the stations and dailies of WF1: the queries of   *)
(* wildfire_one, the mappers that turn raw records into ours, and the      *)
(* answer of /morecast-v2/determinates, with the fire weather indices of a *)
(* day calculated from those of the day before.                            *)
(*                                                                         *)
(* A raw station is [id, code, status, located, centre, zone], a raw daily *)
(* [id, station, type, day, weather, codes].  A moisture code is the chain *)
(* of weathers it has been calculated from, or None.                       *)
(***************************************************************************)
EXTENDS Lists, SequencesExt

CONSTANTS None, ZonePrefix, HfiStations

-----------------------------------------------------------------------------
(* Queries *)

Served == {"ACTIVE", "TEST", "PROJECT"}

BuildQueryStations(s) == s.status \in Served
BuildQueryByStationCode(s, codes) == s.code \in codes
BuildQueryDailiesByStationCode(d, first, last, ids) ==
  d.station.id \in ids /\ first <= d.day /\ d.day <= last

\* A page of what the query selects, as WF1 has it when it is asked.
ServedPage(selected, size, n) ==
  [content |-> SubSeq(selected, n * size + 1, IF (n + 1) * size < Len(selected)
                                               THEN (n + 1) * size ELSE Len(selected)),
   totalPages |-> (Len(selected) + size - 1) \div size]

\* fetch_paged_response_generator; selected[n] is what the query selects when
\* page n is asked for, one page being asked for in any case.
fetch_paged_response_generator(selected, size) ==
  LET from[n \in DOMAIN selected] ==
        LET page == ServedPage(selected[n], size, n)
        IN page.content \o (IF n + 1 < page.totalPages THEN from[n + 1] ELSE <<>>)
  IN from[0]

-----------------------------------------------------------------------------
(* Stations *)

is_station_valid(s) == s.status \in Served /\ s.located
is_station_fire_zone_valid(s) == s.centre # None

get_zone_code_prefix(centre) ==
  IF centre \in DOMAIN ZonePrefix THEN ZonePrefix[centre] ELSE None

construct_zone_code(s) ==
  IF s.zone = None \/ s.centre = None \/ get_zone_code_prefix(s.centre) = None THEN None
  ELSE <<get_zone_code_prefix(s.centre), s.zone>>

Valid(raw) == Kept(raw, {i \in DOMAIN raw : is_station_valid(raw[i])})

\* station_list_mapper, and wfwx_station_list_mapper, which keeps the id too.
station_list_mapper(raw) ==
  LET valid == Valid(raw) IN [i \in DOMAIN valid |-> [code |-> valid[i].code]]

wfwx_station_list_mapper(raw) ==
  LET valid == Valid(raw)
  IN [i \in DOMAIN valid |->
        [id |-> valid[i].id, code |-> valid[i].code, zone |-> construct_zone_code(valid[i])]]

\* Each fire centre with its stations.
fire_center_mapper(raw) ==
  LET valid == Kept(raw, {i \in DOMAIN raw : is_station_valid(raw[i]) /\ is_station_fire_zone_valid(raw[i])})
  IN [c \in {valid[i].centre : i \in DOMAIN valid} |->
        LET its == Kept(valid, {i \in DOMAIN valid : valid[i].centre = c})
        IN [i \in DOMAIN its |-> [code |-> its[i].code, zone |-> construct_zone_code(its[i])]]]

\* weather_stations_mapper keeps every member of a group of stations,
\* unique_weather_stations_mapper the first of each code.
unique_weather_stations_mapper(members) ==
  FoldLeft(LAMBDA kept, m : IF \E i \in DOMAIN kept : kept[i].code = m.code
                            THEN kept ELSE Append(kept, m), <<>>, members)

\* get_stations_by_group_ids: a station of two groups is listed twice.
get_stations_by_group_ids(groups) ==
  FlattenSeq([i \in DOMAIN groups |-> unique_weather_stations_mapper(groups[i])])

\* The last station of a code counts; codes WF1 does not know are left out.
get_wfwx_stations_from_station_codes(stations, codes) ==
  LET last(c) == CHOOSE i \in DOMAIN stations :
                   /\ stations[i].code = c
                   /\ \A j \in DOMAIN stations : stations[j].code = c => j <= i
      known == {stations[i].code : i \in DOMAIN stations}
      asked == Kept(codes, {i \in DOMAIN codes : codes[i] \in known})
  IN IF codes = None THEN Kept(stations, {i \in DOMAIN stations : stations[i].code \in HfiStations})
     ELSE [i \in DOMAIN asked |-> stations[last(asked[i])]]

\* get_detailed_stations: what each station observed and was forecast at noon;
\* the last daily of a type counts, and one of an unknown station is skipped.
get_detailed_stations(raw, dailies) ==
  LET valid == Valid(raw)
      noon(s, types) ==
        LET its == {i \in DOMAIN dailies : dailies[i].station.id = s.id /\ dailies[i].type \in types}
        IN IF its = {} THEN None ELSE dailies[CHOOSE i \in its : \A j \in its : j <= i].weather
  IN [i \in DOMAIN valid |->
        [code |-> valid[i].code,
         observations |-> noon(valid[i], {"ACTUAL", "MANUAL"}),
         forecasts |-> noon(valid[i], {"FORECAST"})]]

-----------------------------------------------------------------------------
\* Whatever the size of a page, the pages of a selection that does not change are
\* all of it, the last of them full or not, and of nothing as well.
PagesAreWhole(selected, size) ==
  fetch_paged_response_generator([n \in 0 .. Len(selected) |-> selected], size) = selected

\* The lists of stations agree: the same stations, and each that has a zone is listed
\* with it in its fire centre.
StationListsAgree(raw) ==
  LET wfwx == ToSet(wfwx_station_list_mapper(raw))
      centres == fire_center_mapper(raw)
      listed == UNION {ToSet(centres[c]) : c \in DOMAIN centres}
  IN /\ {s.code : s \in ToSet(station_list_mapper(raw))} = {s.code : s \in wfwx}
     /\ listed \subseteq {[code |-> s.code, zone |-> s.zone] : s \in wfwx}
     /\ {[code |-> s.code, zone |-> s.zone] : s \in {x \in wfwx : x.zone # None}} \subseteq listed

\* The two ways to find stations by their codes find the same: to ask WF1 for the
\* codes, and to look for them among all of the stations.
CodesFindTheSame(raw, codes) ==
  LET all == wfwx_station_list_mapper(Kept(raw, {i \in DOMAIN raw : BuildQueryStations(raw[i])}))
      found == get_wfwx_stations_from_station_codes(all, codes)
      wanted == IF codes = None THEN HfiStations ELSE ToSet(codes)
      asked == Kept(raw, {i \in DOMAIN raw : BuildQueryByStationCode(raw[i], wanted)})
  IN {s.code : s \in ToSet(found)} = {s.code : s \in ToSet(station_list_mapper(asked))}

\* A station of several groups is listed once for each of them.
GroupsAreWhole(groups) ==
  \A g \in DOMAIN groups : \A m \in ToSet(groups[g]) :
    LET listed == get_stations_by_group_ids(groups)
    IN Cardinality({i \in DOMAIN listed : listed[i].code = m.code})
         = Cardinality({h \in DOMAIN groups : \E x \in ToSet(groups[h]) : x.code = m.code})

\* What a station is shown to have observed is the weather of one of its own dailies,
\* whenever it has one that is not a forecast.
ObservationsAreOwn(raw, dailies) ==
  \A s \in ToSet(raw) : is_station_valid(s) =>
    LET its == {d.weather : d \in {x \in ToSet(dailies) : x.station.id = s.id /\ x.type # "FORECAST"}}
    IN \E shown \in ToSet(get_detailed_stations(raw, dailies)) :
         shown.code = s.code /\ shown.observations \in IF its = {} THEN {None} ELSE its
=============================================================================
