---------------------------- MODULE AdvisoryRasters ----------------------------
(***************************************************************************)
(* What the stages of the SFMS consumer compute from the rasters of a run  *)
(* (auto_spatial_advisory/): the classified HFI under the snow mask, its   *)
(* polygons and their areas, the areas of the fuel types and the pixels of *)
(* each class of the topographic position index (TPI).                     *)
(*                                                                         *)
(* The rasters are warped to one grid, so a pixel is a record of what each *)
(* of them holds there: hfi in kW/m, snow (NDSI), fuel (grid value) and    *)
(* tpi.  A zone is a sequence of pixels, an area is a number of pixels.    *)
(***************************************************************************)
EXTENDS Integers, Sequences, FiniteSets, FiniteSetsExt

CONSTANT None

Advisory == 1
Warning == 2
Thresholds == {Advisory, Warning}

classify_hfi(hfi) == CASE hfi < 4000 -> 0 [] hfi \in 4000 .. 9999 -> Advisory [] OTHER -> Warning

\* Values above 100 say why there is no measurement: they cancel nothing.
classify_snow_mask(ndsi) == IF ndsi > 10 /\ ndsi <= 100 THEN 0 ELSE 1

apply_snow_mask(p) == classify_hfi(p.hfi) * classify_snow_mask(p.snow)

\* process_hfi: snow that was last seen more than seven days ago is not applied.
\* snow is the age in days of the last processed snow, or None.
MaskedHfi(p, snow) == IF snow = None \/ snow > 7 THEN classify_hfi(p.hfi) ELSE apply_snow_mask(p)

\* The polygons of the masked raster: pixels without HFI have none, and those of
\* one class are one or more features with its threshold.
get_threshold_from_hfi(p, snow) == MaskedHfi(p, snow)
ClassifiedPixels(zone, snow) == {i \in DOMAIN zone : get_threshold_from_hfi(zone[i], snow) # 0}

\* A row for each threshold with a polygon in the zone.
calculate_high_hfi_areas(zone, snow) ==
  {[threshold |-> t, area |-> Cardinality({i \in ClassifiedPixels(zone, snow) :
                                             get_threshold_from_hfi(zone[i], snow) = t})] :
     t \in {get_threshold_from_hfi(zone[i], snow) : i \in ClassifiedPixels(zone, snow)}}

\* Regression: the upper end of the advisory is not left out.
UpToTheWarning(hfi, threshold) ==
  CASE threshold = Advisory -> IF hfi >= 4000 /\ hfi <= 10000 THEN 1 ELSE 0
    [] threshold = Warning  -> IF hfi > 10000 THEN 1 ELSE 0

\* process_fuel_type_area classifies the uploaded raster, without the snow mask.
classify_by_threshold(hfi, threshold) ==
  CASE threshold = Advisory -> IF hfi >= 4000 /\ hfi < 10000 THEN 1 ELSE 0
    [] threshold = Warning  -> IF hfi >= 10000 THEN 1 ELSE 0

create_masked_fuel_type_tif(zone, threshold) ==
  [i \in DOMAIN zone |-> zone[i].fuel * classify_by_threshold(zone[i].hfi, threshold)]

\* fuel_types: a sequence of records of sfms_fuel_types; rows of no area are left out.
combustible_fuel_type_ids(fuel_types) ==
  {f \in {fuel_types[i].fuel_type_id : i \in DOMAIN fuel_types} : f > 0 /\ f < 99}
calculate_fuel_type_areas(zone, threshold, fuel_types) ==
  LET masked == create_masked_fuel_type_tif(zone, threshold)
      count(f) == Cardinality({i \in DOMAIN masked : masked[i] = f})
  IN {[fuel |-> f, threshold |-> threshold, area |-> count(f)] :
        f \in {g \in combustible_fuel_type_ids(fuel_types) : count(g) > 0}}

\* calculate_fuel_type_area_by_shape, for every threshold.
FuelAreas(zone, fuel_types) ==
  UNION {calculate_fuel_type_areas(zone, t, fuel_types) : t \in Thresholds}

\* The TPI of the pixels that are classified at all.
raster_mul(p, snow) == p.tpi * (IF MaskedHfi(p, snow) >= 1 THEN 1 ELSE 0)

\* Class 4 has no data, and what is neither is not counted.
process_tpi_by_firezone(zone, snow) ==
  [class \in 1 .. 3 |-> Cardinality({i \in DOMAIN zone : raster_mul(zone[i], snow) = class})]
store_elevation_tpi_stats(zone, snow) ==
  LET freq == process_tpi_by_firezone(zone, snow)
  IN [valley_bottom |-> freq[1], mid_slope |-> freq[2], upper_slope |-> freq[3]]

-----------------------------------------------------------------------------
Area(row) == row.area
AreaOf(rows) == MapThenSumSet(Area, rows)

\* Three stages that read different rasters and classify them each in its own way
\* agree on a zone: the pixels under advisory or warning are the ones whose TPI is
\* counted, except where the TPI has no data; and of each threshold the fuel types
\* have the area of its polygons on combustible ground, with that under the snow,
\* which the fuel statistics alone do not leave out.
StagesAgree(zone, snow, fuel_types) ==
  LET areas == calculate_high_hfi_areas(zone, snow)
      tpi == store_elevation_tpi_stats(zone, snow)
      burns(i) == zone[i].fuel \in combustible_fuel_type_ids(fuel_types)
      covered(i) == snow # None /\ snow <= 7 /\ zone[i].snow \in 11 .. 100
      area(t) == AreaOf({r \in areas : r.threshold = t})
      fuel(t) == AreaOf({r \in FuelAreas(zone, fuel_types) : r.threshold = t})
      its(t) == {i \in DOMAIN zone : classify_hfi(zone[i].hfi) = t}
  IN /\ tpi.valley_bottom + tpi.mid_slope + tpi.upper_slope
          + Cardinality({i \in ClassifiedPixels(zone, snow) : zone[i].tpi \notin 1 .. 3})
          = area(Advisory) + area(Warning)
     /\ \A t \in Thresholds :
          fuel(t) = area(t) - Cardinality({i \in its(t) : ~burns(i) /\ ~covered(i)})
                            + Cardinality({i \in its(t) : burns(i) /\ covered(i)})
=============================================================================
