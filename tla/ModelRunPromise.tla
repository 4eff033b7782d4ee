---------------------------- MODULE ModelRunPromise ----------------------------
(***************************************************************************)
(* What the weather model jobs promise about a model run, whatever they    *)
(* are interrupted by: it goes through its stages in this order and skips  *)
(* none, the flags are never taken back, predictions are forgotten only by *)
(* the retention policy, and Morecast sees nothing of a run before it is   *)
(* predicted.                                                              *)
(***************************************************************************)
VARIABLES
  downloaded,   \* runs all of whose files are flagged as processed
  complete,     \* runs whose row says complete
  predicted,    \* runs with predictions
  interpolated, \* runs whose row says interpolated
  past,         \* complete runs too old for any prediction to be kept
  visible       \* runs with a row in the materialized view

vars == <<downloaded, complete, predicted, interpolated, past, visible>>

Init ==
  /\ downloaded = {} /\ complete = {} /\ predicted = {}
  /\ interpolated = {} /\ past = {} /\ visible = {}

Download ==
  /\ \E r \in downloaded' : downloaded' = downloaded \union {r}
  /\ UNCHANGED <<complete, predicted, interpolated, past, visible>>

Complete ==
  /\ \E r \in downloaded :
       /\ complete' = complete \union {r}
       /\ past' \in {past, past \union {r}}
  /\ UNCHANGED <<downloaded, predicted, interpolated, visible>>

Predict ==
  /\ \E r \in complete : predicted' = predicted \union {r}
  /\ UNCHANGED <<downloaded, complete, interpolated, past, visible>>

Interpolate ==
  /\ \E r \in predicted \union past : interpolated' = interpolated \union {r}
  /\ UNCHANGED <<downloaded, complete, predicted, past, visible>>

\* Time passes.
Age ==
  /\ past \subseteq past' /\ past' \subseteq complete
  /\ UNCHANGED <<downloaded, complete, predicted, interpolated, visible>>

Forget ==
  /\ predicted' \subseteq predicted /\ predicted \subseteq predicted' \union past
  /\ UNCHANGED <<downloaded, complete, interpolated, past, visible>>

\* The view is rebuilt; runs that have become too old leave it.
Publish ==
  /\ visible' \subseteq predicted
  /\ UNCHANGED <<downloaded, complete, predicted, interpolated, past>>

Next == Download \/ Complete \/ Predict \/ Interpolate \/ Age \/ Forget \/ Publish

Spec == Init /\ [][Next]_vars
=============================================================================
