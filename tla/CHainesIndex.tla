------------------------------ MODULE CHainesIndex ------------------------------
(***************************************************************************)
(* From temperatures to the polygons of a C-Haines chart: the index        *)
(* (c_haines/c_haines_index.py), its severity (severity_index.py) and the  *)
(* KML and GeoJSON that show it (kml.py).                                  *)
(*                                                                         *)
(* Temperatures are whole degrees and an index is in twelfths, so that     *)
(* every number is whole.  A polygon is a member of a sequence with its    *)
(* severity; where it lies does not matter.                                *)
(***************************************************************************)
EXTENDS Lists, SequencesExt

\* model_prediction_hour_iterator
model_prediction_hour_iterator(model) ==
  CASE model = "GDPS" -> {3 * i : i \in 0 .. 80} [] model = "RDPS" -> 0 .. 84 [] model = "HRDPS" -> 0 .. 48

\* Instability and dryness.  Above 9 the effect of dry air is not halved but capped.
calculate_c_haines_index(t700, t850, d850) ==
  LET ca == 6 * (t850 - t700) - 24
      cb == 4 * d850 - 12
  IN ca + (IF cb > 108 THEN 108 ELSE IF cb > 60 THEN 60 + (cb - 60) \div 2 ELSE cb)

\* calculate_row_data: nothing outside of the box around British Columbia.
calculate_row_data(row) ==
  [x \in DOMAIN row |-> IF row[x].inside THEN calculate_c_haines_index(row[x].t700, row[x].t850, row[x].d850) ELSE 0]

get_severity(index) == IF index < 48 THEN 0 ELSE IF index < 96 THEN 1 ELSE IF index < 132 THEN 2 ELSE 3

\* generate_severity_data: severities, and the mask that leaves out the low ones.
generate_severity_data(row) ==
  [severity |-> [x \in DOMAIN row |-> get_severity(row[x])],
   mask |-> [x \in DOMAIN row |-> get_severity(row[x]) # 0]]

\* GDAL makes a polygon of neighbours of one severity where the mask is set.
Polygons(data) ==
  LET starts == InTurn({x \in DOMAIN data.mask :
                          data.mask[x] /\ (x = 1 \/ data.severity[x - 1] # data.severity[x])})
  IN [i \in DOMAIN starts |-> [at |-> starts[i], severity |-> data.severity[starts[i]]]]

\* Regression: the polygons stay in the order of the raster.
AsTheyAre(polygons) == polygons

\* Both files sort by severity, polygons of one severity as they are.
SortedBySeverity(polygons) == SortedBy(polygons, [i \in DOMAIN polygons |-> polygons[i].severity])

\* re_project_and_classify_geojson
re_project_and_classify_geojson(polygons) == SortedBySeverity(polygons)

\* generate_kml_prediction: a placemark begins where the severity changes.
generate_kml_prediction(polygons) ==
  LET sorted == SortedBySeverity(polygons)
      begins == InTurn({i \in DOMAIN sorted : i = 1 \/ sorted[i - 1].severity # sorted[i].severity})
      ends(m) == IF m = Len(begins) THEN Len(sorted) ELSE begins[m + 1] - 1
  IN [m \in DOMAIN begins |-> [severity |-> sorted[begins[m]].severity,
                               polygons |-> SubSeq(sorted, begins[m], ends(m))]]

\* open_placemark and get_look_at: the hours a prediction is shown.
TimeSpan(model, hour) == [begin |-> hour, end |-> hour + (IF model = "GDPS" THEN 3 ELSE 1)]

-----------------------------------------------------------------------------
\* The chart of a row of the raster: a placemark for each severity above low, the
\* milder ones first so that the worse lie on top, each with all of its polygons;
\* the GeoJSON has the same polygons in the same order; every cell of the box that
\* is not low is in one of them.
ChartIsWhole(row) ==
  LET index == calculate_row_data(row)
      polygons == Polygons(generate_severity_data(index))
      marks == generate_kml_prediction(polygons)
  IN /\ \A i, j \in DOMAIN marks : i < j => marks[i].severity < marks[j].severity
     /\ FlattenSeq([i \in DOMAIN marks |-> marks[i].polygons]) = re_project_and_classify_geojson(polygons)
     /\ {marks[i].severity : i \in DOMAIN marks} = {get_severity(index[x]) : x \in DOMAIN row} \ {0}
     /\ \A i \in DOMAIN marks : \A p \in DOMAIN marks[i].polygons :
          row[marks[i].polygons[p].at].inside /\ marks[i].polygons[p].severity = marks[i].severity

\* Warmer below, colder above or drier never makes it less severe.
SeverityGrows(t700, t850, d850) ==
  LET s(a, b, c) == get_severity(calculate_c_haines_index(a, b, c))
  IN /\ s(t700, t850, d850) <= s(t700, t850 + 1, d850)
     /\ s(t700, t850, d850) <= s(t700 - 1, t850, d850)
     /\ s(t700, t850, d850) <= s(t700, t850, d850 + 1)

\* The predictions of a model are shown one after the other, with no gap or overlap.
SpansFollow(model) ==
  LET hours == model_prediction_hour_iterator(model)
  IN \A h \in hours : LET later == {g \in hours : g > h}
                      IN later # {} => TimeSpan(model, h).end = CHOOSE g \in later : \A f \in later : g <= f
=============================================================================
