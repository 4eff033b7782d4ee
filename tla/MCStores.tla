------------------------------- MODULE MCStores -------------------------------
(***************************************************************************)
(* What must be in a store in the end: snow coverage and C-Haines polygons *)
(* in the object store, the list of fire centres in Redis.  They share no  *)
(* state, so a behaviour is one of a component, and the others stay as they*)
(* are.  VIIRS snow is extended, as its theorems are.                      *)
(***************************************************************************)
EXTENDS ViirsSnow

CONSTANTS
  None,
  Environments, RunHours, Predictions, FirstHour, LastHour, Step, MaxFaults, \* CHaines
  Readers, MaxEdits                                                         \* FireCentreCache

VARIABLES
  component,
  \* CHaines
  now, published, objects, job, faults,
  \* FireCentreCache
  stations, cache, hydrating

chainesVars == <<now, published, objects, job, faults>>
cacheVars == <<stations, cache, hydrating>>
storesVars == <<component, vars, chainesVars, cacheVars>>

Haines == INSTANCE CHaines WITH Jobs <- Environments
FireCentres == INSTANCE FireCentreCache

\* get_model_run_hours of GDPS
GdpsRunHours == <<0, 12>>

Components == {"viirs", "c-haines", "fire centres"}

StoresInit == component \in Components /\ Init /\ Haines!Init /\ FireCentres!Init

OfViirs(A) == component = "viirs" /\ A /\ UNCHANGED <<component, chainesVars, cacheVars>>
OfHaines(A) == component = "c-haines" /\ A /\ UNCHANGED <<component, vars, cacheVars>>
OfFireCentres(A) == component = "fire centres" /\ A /\ UNCHANGED <<component, vars, chainesVars>>

StoresNext == OfViirs(Next) \/ OfHaines(Haines!Next) \/ OfFireCentres(FireCentres!Next)

\* The fairness of ViirsSnow, CHaines and FireCentreCache.
StoresFairness ==
  /\ WF_storesVars(OfViirs(JobStarts)) /\ WF_storesVars(OfViirs(JobStep))
  /\ WF_storesVars(OfHaines(Haines!Tick))
  /\ \A run \in Haines!Runs, p \in 0 .. 1 : WF_storesVars(OfHaines(Haines!Publish(run, p)))
  /\ \A j \in Environments : WF_storesVars(OfHaines(Haines!Work(j)))
  /\ \A r \in Readers : WF_storesVars(OfFireCentres(FireCentres!Put(r)))
  /\ WF_storesVars(OfFireCentres(FireCentres!Expire))

StoresSpec == StoresInit /\ [][StoresNext]_storesVars /\ StoresFairness

-----------------------------------------------------------------------------
\* Types of what the components keep.
StoreTypesOK == component \in Components /\ TypeOK /\ Haines!TypeOK /\ FireCentres!TypeOK

\* C-Haines predictions of a run are shown from the first on without a gap.
PredictionsHaveNoGaps == Haines!PredictionsHaveNoGaps

\* Both C-Haines objects of every prediction of the last runs are there in the end.
LastRunsAreStored == component = "c-haines" => Haines!LastRunsAreStored

\* The list of fire centres that is served becomes that of the database.
StaleListsExpire == component = "fire centres" => FireCentres!StaleListsExpire
=============================================================================
