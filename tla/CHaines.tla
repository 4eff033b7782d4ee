-------------------------------- MODULE CHaines --------------------------------
(***************************************************************************)
(* The jobs that turn model runs of Environment Canada into C-Haines       *)
(* polygons in the object store (c_haines/severity_index.py, kml.py), and  *)
(* what the API finds there (routers/c_haines.py, fetch.py), for one       *)
(* weather model.  Every prediction of a run becomes two objects, a KML    *)
(* and a GeoJSON.  Jobs of several environments share one bucket.          *)
(*                                                                         *)
(* A model run is the hour at which it starts, counted from midnight of    *)
(* day 0 of a month; predictions are numbered.                             *)
(***************************************************************************)
EXTENDS Integers, FiniteSets, Sequences

CONSTANTS
  None,
  Jobs,         \* environments with a C-Haines cronjob
  RunHours,     \* get_model_run_hours, as a sequence
  Predictions,  \* number of prediction hours of a run
  FirstHour,    \* bound: the clock, in steps of Step hours
  LastHour,
  Step,
  MaxFaults     \* bound: jobs that die, downloads that fail

ObjectType == {"KML", "JSON"}
hour(t) == t % 24
day(t) == t \div 24

\* A run hour that is later than now is one of yesterday.
adjust_model_day(now, h) == IF hour(now) < h THEN 24 * (day(now) - 1) + h ELSE 24 * day(now) + h

\* The files of a prediction are named after its run and its hour.
make_model_run_download_urls(now, h, p) == [run |-> adjust_model_day(now, h), prediction |-> p]

\* The predictions a job that started at now goes through, in their order.
Payloads(now) ==
  [i \in 1 .. Len(RunHours) * Predictions |->
     make_model_run_download_urls(now, RunHours[(i - 1) \div Predictions + 1], (i - 1) % Predictions)]
Runs == {adjust_model_day(t, RunHours[i]) : t \in FirstHour .. LastHour, i \in DOMAIN RunHours}

VARIABLES
  now,       \* the clock
  published, \* predictions that Environment Canada has all three files of
  objects,   \* the bucket
  job,       \* of each environment: when it started, where it is, what it saves
  faults

vars == <<now, published, objects, job, faults>>

Idle == [at |-> None, i |-> 0, saving |-> {}]
Payload(j) == Payloads(job[j].at)[job[j].i]
Object(type, p) == [type |-> type, run |-> p.run, prediction |-> p.prediction]

TypeOK ==
  /\ now \in FirstHour .. LastHour
  /\ published \subseteq [run : Runs, prediction : 0 .. Predictions - 1]
  /\ objects \subseteq [type : ObjectType, run : Runs, prediction : 0 .. Predictions - 1]
  /\ job \in [Jobs -> [at : FirstHour .. LastHour \union {None},
                       i : 0 .. Len(RunHours) * Predictions, saving : SUBSET ObjectType]]
  /\ faults \in 0 .. MaxFaults

Init ==
  /\ now = FirstHour
  /\ published = {}
  /\ objects = {}
  /\ job = [j \in Jobs |-> Idle]
  /\ faults = 0

Tick ==
  /\ now + Step <= LastHour
  /\ now' = now + Step
  /\ UNCHANGED <<published, objects, job, faults>>

\* The files of a run appear in any order, once it started.
Publish(run, p) ==
  /\ run <= now
  /\ [run |-> run, prediction |-> p] \notin published
  /\ published' = published \union {[run |-> run, prediction |-> p]}
  /\ UNCHANGED <<now, objects, job, faults>>

\* generate: the time is read once.
JobStarts(j) ==
  /\ job[j] = Idle
  /\ job' = [job EXCEPT ![j] = [at |-> now, i |-> 1, saving |-> {}]]
  /\ UNCHANGED <<now, published, objects, faults>>

Advanced(j) ==
  IF job[j].i = Len(RunHours) * Predictions THEN Idle
  ELSE [job[j] EXCEPT !.i = @ + 1, !.saving = {}]

\* Regression: one of the two objects will do.
OneAssetExists(p) == \E type \in ObjectType : Object(type, p) \in objects

_assets_exist(p) == \A type \in ObjectType : Object(type, p) \in objects

Looking(j) == job[j].i # 0 /\ job[j].saving = {}

Skip(j) ==
  /\ Looking(j)
  /\ _assets_exist(Payload(j))
  /\ job' = [job EXCEPT ![j] = Advanced(j)]
  /\ UNCHANGED <<now, published, objects, faults>>

\* _collect_payload, and the severity polygons that are made of its files.
Download(j) ==
  /\ Looking(j)
  /\ ~_assets_exist(Payload(j))
  /\ Payload(j) \in published
  /\ job' = [job EXCEPT ![j].saving = ObjectType]
  /\ UNCHANGED <<now, published, objects, faults>>

\* Regression: one that is missing is passed over.
NextOne(j) == job' = [job EXCEPT ![j] = Advanced(j)]

\* A file that is missing ends the job, for the later runs as well.
NoneOfTheRest(j) == job' = [job EXCEPT ![j] = Idle]

DownloadFails(j) ==
  /\ Looking(j)
  /\ ~_assets_exist(Payload(j))
  /\ Payload(j) \notin published
  /\ NoneOfTheRest(j)
  /\ UNCHANGED <<now, published, objects, faults>>

\* Two tasks, each of which looks for its object before it stores it.
Save(j, type) ==
  /\ type \in job[j].saving
  /\ objects' = objects \union {Object(type, Payload(j))}
  /\ job' = [job EXCEPT ![j] = IF job[j].saving = {type} THEN Advanced(j)
                               ELSE [job[j] EXCEPT !.saving = @ \ {type}]]
  /\ UNCHANGED <<now, published, faults>>

save_as_kml_to_s3(j) == Save(j, "KML")
save_as_geojson_to_s3(j) == Save(j, "JSON")

\* Any error, or the replacement by the next job: what is stored stays.
JobDies(j) ==
  /\ job[j] # Idle
  /\ faults < MaxFaults
  /\ faults' = faults + 1
  /\ job' = [job EXCEPT ![j] = Idle]
  /\ UNCHANGED <<now, published, objects>>

Work(j) ==
  \/ JobStarts(j) \/ Skip(j) \/ Download(j) \/ DownloadFails(j)
  \/ save_as_kml_to_s3(j) \/ save_as_geojson_to_s3(j)

Next ==
  \/ Tick
  \/ \E run \in Runs, p \in 0 .. Predictions - 1 : Publish(run, p)
  \/ \E j \in Jobs : Work(j) \/ JobDies(j)

\* The clock goes on, runs get published and the cronjobs start over.
Fairness ==
  /\ WF_vars(Tick)
  /\ \A run \in Runs, p \in 0 .. Predictions - 1 : WF_vars(Publish(run, p))
  /\ \A j \in Jobs : WF_vars(Work(j))

Spec == Init /\ [][Next]_vars /\ Fairness

-----------------------------------------------------------------------------
(* What the API finds. *)

\* Names of numbers below 100 in the order of the object store: 1, 10, 2.
NameOrder(n) == IF n < 10 THEN 11 * n ELSE 11 * (n \div 10) + (n % 10) + 1
LastByName(S) == CHOOSE n \in S : \A m \in S : NameOrder(m) <= NameOrder(n)

\* _get_most_recent_model_run goes down the last of the folders at each level.
_get_most_recent_model_run(type) ==
  LET runs == {o.run : o \in {x \in objects : x.type = type}}
      d == LastByName({day(r) : r \in runs})
  IN IF runs = {} THEN None ELSE 24 * d + LastByName({hour(r) : r \in {x \in runs : day(x) = d}})

\* The network links of a run, and the runs of a day and the day before.
fetch_model_run_kml_streamer(run) ==
  {o.prediction : o \in {x \in objects : x.type = "KML" /\ x.run = run}}
fetch_model_runs(time) ==
  {[model_run_timestamp |-> r,
    prediction_timestamps |-> {o.prediction : o \in {x \in objects : x.type = "JSON" /\ x.run = r}}] :
     r \in {o.run : o \in {x \in objects : x.type = "JSON" /\ day(x.run) \in {day(time), day(time) - 1}}}}

-----------------------------------------------------------------------------
\* "Get the most recent model run date": the run that is served when none is asked
\* for is the newest one that is stored.
NewestRunIsServed ==
  \A type \in ObjectType :
    \A o \in {x \in objects : x.type = type} : o.run <= _get_most_recent_model_run(type)

\* A run is shown from its first prediction on without a gap, as KML and in the
\* list of the model runs, whatever job stored which of its objects and died.
PredictionsHaveNoGaps ==
  /\ \A run \in fetch_model_runs(now) : \A p \in run.prediction_timestamps :
       0 .. p - 1 \subseteq run.prediction_timestamps \intersect fetch_model_run_kml_streamer(run.model_run_timestamp)
  /\ \A run \in Runs : \A p \in fetch_model_run_kml_streamer(run) :
       0 .. p - 1 \subseteq fetch_model_run_kml_streamer(run)

\* Both objects of every prediction of the last runs are there in the end, also
\* when a job died between the two.
LastRunsAreStored ==
  <>[](\A i \in DOMAIN RunHours, p \in 0 .. Predictions - 1, type \in ObjectType :
         [type |-> type, run |-> adjust_model_day(LastHour, RunHours[i]), prediction |-> p] \in objects)

=============================================================================
