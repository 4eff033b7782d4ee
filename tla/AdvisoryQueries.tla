---------------------------- MODULE AdvisoryQueries ----------------------------
(***************************************************************************)
(* What the API answers about advisories: the queries of                   *)
(* db/crud/auto_spatial_advisory.py and the handlers of routers/fba.py.    *)
(*                                                                         *)
(* db is a record of the tables.  Each is the set of its rows, except for  *)
(* sfms_fuel_types, which is a sequence: the id of a row is its position.  *)
(* A run is a row of run_parameters: id, run_type, run_datetime, for_date. *)
(***************************************************************************)
EXTENDS AdvisoryRasters

CONSTANT ServerError \* the request ends with an exception

\* The run the path of a request asks for, and None when there is no such row.
get_run_parameters_id(db, run_type, run_datetime, for_date) ==
  LET its == {r \in db.run_parameters : /\ r.run_type = run_type /\ r.run_datetime = run_datetime
                                        /\ r.for_date = for_date}
  IN IF its = {} THEN None ELSE (CHOOSE r \in its : TRUE).id

\* on_conflict_do_nothing: the three columns are unique together.
save_run_parameters(db, id, run_type, run_datetime, for_date) ==
  IF get_run_parameters_id(db, run_type, run_datetime, for_date) # None THEN db
  ELSE [db EXCEPT !.run_parameters = @ \union {[id |-> id, run_type |-> run_type,
                                               run_datetime |-> run_datetime, for_date |-> for_date]}]

\* The newest first.
get_run_datetimes(db, run_type, for_date) ==
  LET times == {r.run_datetime : r \in {s \in db.run_parameters : s.run_type = run_type
                                                                  /\ s.for_date = for_date}}
  IN CHOOSE s \in [1 .. Cardinality(times) -> times] : \A i, j \in DOMAIN s : i < j => s[i] > s[j]

-----------------------------------------------------------------------------
(* What the stages of the consumer store.  zones: shape -> its pixels.     *)

\* write_high_hfi_area
HighHfiRows(zones, snow, run) ==
  UNION {{[shape |-> z, run |-> run, threshold |-> r.threshold, area |-> r.area] :
            r \in calculate_high_hfi_areas(zones[z], snow)} : z \in DOMAIN zones}

\* The column fuel_type refers to the id of a fuel type; what is stored is the
\* grid value, fuel_type_id.
store_advisory_fuel_stats(zones, run, fuel_types) ==
  UNION {{[shape |-> z, run |-> run, threshold |-> r.threshold, fuel_type |-> r.fuel, area |-> r.area] :
            r \in FuelAreas(zones[z], fuel_types)} : z \in DOMAIN zones}

TpiRows(zones, snow, run) ==
  {[shape |-> z, run |-> run, tpi |-> store_elevation_tpi_stats(zones[z], snow)] : z \in DOMAIN zones}

\* The fuel types whose hours are calculated for a zone are found by their id.
get_fuel_type_stats_in_advisory_area(db, shape, run) ==
  {<<s, db.sfms_fuel_types[s.fuel_type]>> :
     s \in {r \in db.advisory_fuel_stats : /\ r.shape = shape /\ r.run = run
                                           /\ r.fuel_type \in DOMAIN db.sfms_fuel_types}}

\* get_fuel_types_by_area
CodesOfZone(db, shape, run) ==
  {pair[2].fuel_type_code : pair \in get_fuel_type_stats_in_advisory_area(db, shape, run)} \ {"Non-fuel"}

\* A code that several rows have stands for the last of them.
get_fuel_types_dict(db) ==
  [c \in {db.sfms_fuel_types[i].fuel_type_code : i \in DOMAIN db.sfms_fuel_types} |->
     CHOOSE i \in DOMAIN db.sfms_fuel_types :
       /\ db.sfms_fuel_types[i].fuel_type_code = c
       /\ \A j \in DOMAIN db.sfms_fuel_types : db.sfms_fuel_types[j].fuel_type_code = c => j <= i]

\* hours: shape -> the representative hours of its stations, or None if it has no
\* station; the hours of a shape differ from those of any other.
save_critical_hours(db, hours, run) ==
  UNION {{[shape |-> z, run |-> run, fuel_type |-> get_fuel_types_dict(db)[c], hours |-> hours[z]] :
            c \in CodesOfZone(db, z, run)} : z \in {y \in DOMAIN hours : hours[y] # None}}

-----------------------------------------------------------------------------
(* The handlers.                                                           *)

Percentage(area, combustible) == (100 * area) \div combustible

get_hfi_area(db, run) ==
  {row \in db.advisory_shapes \X db.high_hfi_area : row[2].shape = row[1].id /\ row[2].run = run}

\* An area of combustible land that is not known, or none at all, is an error.
get_shapes(db, run) ==
  LET rows == get_hfi_area(db, run)
  IN IF \E row \in rows : row[1].combustible_area \in {None, 0} THEN ServerError
     ELSE {[fire_shape_id |-> row[1].source_identifier, threshold |-> row[2].threshold,
            elevated_hfi_percentage |-> Percentage(row[2].area, row[1].combustible_area)] : row \in rows}

\* Every zone of a fire centre, with its areas in this run, or None.
get_provincial_rollup(db, run) ==
  LET areas(s) == {h \in db.high_hfi_area : h.shape = s.id /\ h.run = run}
  IN UNION {{s} \X (IF areas(s) = {} THEN {None} ELSE areas(s)) :
              s \in {z \in db.advisory_shapes : z.fire_centre # None}}

\* The answer needs the combustible area as a number.
get_provincial_summary(db, run) ==
  LET rows == get_provincial_rollup(db, run)
  IN IF \E row \in rows : \/ row[1].combustible_area = None
                          \/ row[1].combustible_area = 0 /\ row[2] # None
       THEN ServerError
     ELSE {[fire_shape_id |-> row[1].source_identifier, fire_centre_name |-> row[1].fire_centre,
            threshold |-> IF row[2] = None THEN None ELSE row[2].threshold,
            elevated_hfi_percentage |->
              IF row[2] = None THEN 0 ELSE Percentage(row[2].area, row[1].combustible_area)] : row \in rows}

get_zone_ids_in_centre(db, fire_centre) ==
  {s.source_identifier : s \in {z \in db.advisory_shapes : z.fire_centre = fire_centre}}

\* Every row of critical hours of the run is joined to every row of fuel statistics
\* of the zone.
JoinedStats(db, run, source_identifier) ==
  LET stats == {s \in db.advisory_fuel_stats :
                  s.run = run /\ \E z \in db.advisory_shapes :
                                   z.id = s.shape /\ z.source_identifier = source_identifier}
      hours == {c \in db.critical_hours : c.run = run}
  IN {[fuel_type |-> s.fuel_type, threshold |-> s.threshold, area |-> s.area, hours |-> h] :
        s \in stats, h \in IF hours = {} THEN {None} ELSE {c.hours : c \in hours}}

\* DISTINCT ON (fuel_type, run_parameters) keeps one row of each fuel type, whichever.
get_precomputed_stats_for_shape(db, run, source_identifier) ==
  LET joined == JoinedStats(db, run, source_identifier)
      fuels == {r.fuel_type : r \in joined}
      of(f) == {r \in joined : r.fuel_type = f}
  IN {{pick[f] : f \in fuels} : pick \in {p \in [fuels -> joined] : \A f \in fuels : p[f] \in of(f)}}

\* What one zone is answered: fuel types are looked up by their grid value here.
ZoneData(db, rows) ==
  LET known == {db.sfms_fuel_types[i].fuel_type_id : i \in DOMAIN db.sfms_fuel_types}
  IN IF \E r \in rows : r.fuel_type \notin known THEN ServerError ELSE rows

\* All possible answers: source identifier -> rows.
get_hfi_fuels_data_for_fire_centre(db, run, fire_centre) ==
  LET zones == get_zone_ids_in_centre(db, fire_centre)
      choices(z) == {ZoneData(db, rows) : rows \in get_precomputed_stats_for_shape(db, run, z)}
      all == UNION {choices(z) : z \in zones}
  IN {IF \E z \in zones : f[z] = ServerError THEN ServerError ELSE f :
        f \in {g \in [zones -> all] : \A z \in zones : g[z] \in choices(z)}}

\* Pixels are squares of this many metres.
PixelSize == 100
InSquareMetres(tpi) == [k \in DOMAIN tpi |-> tpi[k] * PixelSize * PixelSize]

\* The shape with the number that is asked for, in any fire centre; None if the run
\* has no such row.
get_zonal_tpi_stats(db, run, source_identifier) ==
  LET its == {r \in db.advisory_tpi_stats :
                r.run = run /\ \E z \in db.advisory_shapes :
                                 z.source_identifier = source_identifier /\ z.id = r.shape}
  IN IF its = {} THEN None ELSE (CHOOSE r \in its : TRUE).tpi
get_fire_zone_tpi_stats(db, run, source_identifier) ==
  LET stats == get_zonal_tpi_stats(db, run, source_identifier)
  IN IF stats = None THEN None ELSE InSquareMetres(stats)

get_centre_tpi_stats(db, run, fire_centre) ==
  {row \in db.advisory_shapes \X db.advisory_tpi_stats :
     row[1].id = row[2].shape /\ row[1].fire_centre = fire_centre /\ row[2].run = run}
get_fire_centre_tpi_stats(db, run, fire_centre) ==
  {<<row[1].source_identifier, InSquareMetres(row[2].tpi)>> : row \in get_centre_tpi_stats(db, run, fire_centre)}

-----------------------------------------------------------------------------
\* Every run of a day is listed once, the newest first, and can be asked for.
RunsAreListed(db, run_type, for_date) ==
  LET listed == get_run_datetimes(db, run_type, for_date)
      rows == {r \in db.run_parameters : r.run_type = run_type /\ r.for_date = for_date}
  IN /\ Len(listed) = Cardinality(rows)
     /\ \A i, j \in DOMAIN listed : i < j => listed[i] > listed[j]
     /\ \A r \in rows : \E i \in DOMAIN listed :
          get_run_parameters_id(db, run_type, listed[i], for_date) = r.id

\* The views of the advisory agree, whatever other runs there are: the summary of
\* the province has each zone of a fire centre, with the percentages of the list of
\* areas, or with none exactly when the list has none; a zone under advisory has
\* counted TPI pixels only if it is in the list; and the TPI of a fire centre is
\* that of each of its zones.
ViewsAgree(db, run) ==
  LET shapes == get_shapes(db, run)
      summary == get_provincial_summary(db, run)
      centred == {z \in db.advisory_shapes : z.fire_centre # None}
      of(view, z) == {r \in view : r.fire_shape_id = z.source_identifier}
      shares(view) == {<<r.threshold, r.elevated_hfi_percentage>> : r \in view}
  IN shapes # ServerError /\ summary # ServerError =>
       \A z \in centred :
         LET tpi == get_fire_zone_tpi_stats(db, run, z.source_identifier)
         IN /\ shares(of(summary, z)) =
                 IF of(shapes, z) = {} THEN {<<None, 0>>} ELSE shares(of(shapes, z))
            /\ tpi # None =>
                 /\ <<z.source_identifier, tpi>> \in get_fire_centre_tpi_stats(db, run, z.fire_centre)
                 /\ (\E k \in DOMAIN tpi : tpi[k] > 0) => of(shapes, z) # {}

\* "Critical hours by firezone unit, fuel type and sfms run parameters": with each
\* area of a fuel type in a zone come the hours that are stored for that zone and
\* fuel type, or none.
HoursAreOfTheZone(db, run, fire_centre) ==
  \A answer \in get_hfi_fuels_data_for_fire_centre(db, run, fire_centre) :
    answer # ServerError =>
      \A id \in DOMAIN answer : \A r \in answer[id] :
        r.hours # None =>
          \E c \in db.critical_hours, z \in db.advisory_shapes :
            /\ z.source_identifier = id /\ c.shape = z.id /\ c.run = run /\ c.hours = r.hours
            /\ db.sfms_fuel_types[c.fuel_type].fuel_type_id = r.fuel_type

=============================================================================
