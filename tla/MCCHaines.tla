------------------------------ MODULE MCCHaines ------------------------------
(* The runs of RDPS and HRDPS, on one day of a month.                      *)
EXTENDS CHaines

\* get_model_run_hours of RDPS and HRDPS
RegionalRunHours == <<0, 6, 12, 18>>
=============================================================================
