-------------------------- MODULE MCHfiStationAdmin --------------------------
(* Two planning areas that share their stations.                           *)
EXTENDS HfiStationAdmin

SharedStations ==
  <<<<1, "north", 1>>, <<2, "north", 2>>, <<1, "south", 1>>, <<2, "south", 2>>>>
NoneOffered == {}
=============================================================================
