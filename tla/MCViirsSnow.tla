----------------------------- MODULE MCViirsSnow -----------------------------
(* The first job goes back two days, and the model lasts for five.         *)
EXTENDS ViirsSnow
=============================================================================
