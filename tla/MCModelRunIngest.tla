--------------------------- MODULE MCModelRunIngest ---------------------------
(* Days of two hours with a run at each: GDPS's two runs a day.            *)
EXTENDS ModelRunIngest, TLC

MCRunHours == <<0, 1>>
=============================================================================
