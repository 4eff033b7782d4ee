------------------------ MODULE ModelRunIngestProofs ------------------------
(***************************************************************************)
(* The safety properties of ModelRunIngest, for every number of files, set *)
(* of stations, list of run hours and retention, and with no bound on the  *)
(* clock or on the number of jobs that die.                                *)
(***************************************************************************)
EXTENDS ModelRunIngest, TLAPS

\* A flagged file has a run row and a value for every station.
FlaggedFilesAreStored ==
  \A p \in processed :
    /\ p[1] \in runRows
    /\ \A s \in Stations :
         <<p[1], p[2], s>> \in stored \/ Expired(<<p[1], p[2], s>>, Retention)

CompleteRunsAreFlagged == \A r \in complete : check_if_model_run_complete(r)

\* Predictions are committed a whole run at a time.
PredictionsAreWholeRuns ==
  \A row \in predictions :
    row[1] \in complete /\ AllIn(row[1], predictions, Retention)

\* The value of station s of the open file.
IsStored(s) == <<run, file, s>> \in stored \/ Expired(<<run, file, s>>, Retention)

\* What the job remembers agrees with the tables.
JobAgrees ==
  /\ pc = "store" =>
       /\ run \in runRows
       /\ \A s \in Stations \ todo : IsStored(s)
  /\ pc \in {"interpolate", "mark"} => complete = interpolated \union queue
  /\ pc = "mark" => \A r \in queue : Earliest(r) => AllIn(r, predictions, Retention)

IInv ==
  /\ TypeOK
  /\ FlaggedFilesAreStored
  /\ CompleteRunsAreFlagged
  /\ PredictionsAreWholeRuns
  /\ InterpolatedRunsArePredicted
  /\ JobAgrees
  /\ ViewShowsWholeRuns
-----------------------------------------------------------------------------
(* The run a job asks for is a point in time.                              *)
LEMMA RunIsInt == TablesOK => run \in Int
<1> SUFFICES ASSUME TablesOK PROVE run \in Int
  OBVIOUS
<1>1. RunHours[slot] \in Int /\ jobNow \in Int /\ HoursPerDay \in Nat \ {0}
  BY ParametersAssumption DEF TablesOK
<1>2. adjust_model_day(jobNow, RunHours[slot]) \in Int
  BY <1>1 DEF adjust_model_day
<1> QED
  BY <1>1, <1>2 DEF run, RunAt

(* Types are preserved by every step of the job and of its environment.    *)
LEMMA TablesStep == TablesOK /\ [Next]_vars => TablesOK'
<1> SUFFICES ASSUME TablesOK, [Next]_vars PROVE TablesOK'
  OBVIOUS
<1>0. run \in Int
  BY RunIsInt
<1>a. NFiles \in Nat \ {0} /\ Len(RunHours) \in Nat \ {0}
  BY ParametersAssumption
<1> USE <1>a DEF TablesOK, tables, Files
<1>1. CASE CronFire
  BY <1>1 DEF CronFire
<1>2. CASE JobDies
  BY <1>2 DEF JobDies, JobGone
<1>3. CASE SkipFile
  BY <1>3 DEF SkipFile, NextFile
<1>4. CASE OpenFile
  BY <1>0, <1>4 DEF OpenFile
<1>5. ASSUME NEW s \in Stations, StoreValue(s)
      PROVE  TablesOK'
  BY <1>0, <1>5 DEF StoreValue, Rows
<1>6. CASE StoreFails
  BY <1>6 DEF StoreFails, NextFile
<1>7. CASE flag_file_as_processed
  BY <1>0, <1>7 DEF flag_file_as_processed, NextFile
<1>8. CASE mark_prediction_model_run_processed
  <2>1. complete' \in {complete, complete \union {run}}
    BY <1>8 DEF mark_prediction_model_run_processed
  <2>2. pc' \in {"files", "query"} /\ slot' \in 1 .. Len(RunHours) /\ file' \in 1 .. NFiles + 1
    BY <1>8 DEF mark_prediction_model_run_processed, NextRunHour
  <2>3. UNCHANGED <<clock, runRows, interpolated, processed, stored, predictions, view,
                    jobNow, todo, queue, kills>>
    BY <1>8 DEF mark_prediction_model_run_processed
  <2> QED
    BY <1>0, <2>1, <2>2, <2>3
<1>9. CASE QueryRuns
  BY <1>9 DEF QueryRuns, RunsToInterpolate
<1>10. ASSUME NEW r \in queue, process_model_run(r)
       PROVE  TablesOK'
  BY <1>10 DEF process_model_run
<1>11. ASSUME NEW r \in queue, mark_model_run_interpolated(r)
       PROVE  TablesOK'
  BY <1>11 DEF mark_model_run_interpolated
<1>12. CASE refresh_morecast2_materialized_view
  BY <1>12 DEF refresh_morecast2_materialized_view, JobGone, Unexpired
<1>13. CASE apply_data_retention_policy
  BY <1>13 DEF apply_data_retention_policy, JobGone, Unexpired
<1>14. CASE UNCHANGED vars
  BY <1>14 DEF vars, job
<1>15. CASE FetchFails
  BY <1>15 DEF FetchFails, NextFile
<1>16. CASE OtherJobRefreshes
  BY <1>16 DEF OtherJobRefreshes, Unexpired, job
<1>17. CASE OtherJobRetains
  BY <1>17 DEF OtherJobRetains, Unexpired, job
<1> QED
  BY <1>1, <1>2, <1>3, <1>15, <1>16, <1>17, <1>4, <1>5, <1>6, <1>7, <1>8, <1>9, <1>10, <1>11, <1>12,
     <1>13, <1>14 DEF Next, JobStep

LEMMA FlagsStep == FlagsOK /\ [Next]_vars => FlagsOK'
<1> SUFFICES ASSUME FlagsOK, [Next]_vars PROVE FlagsOK'
  OBVIOUS
<1> USE DEF FlagsOK
<1>1. CASE CronFire
  BY <1>1 DEF CronFire
<1>2. CASE JobDies
  BY <1>2 DEF JobDies, JobGone
<1>3. CASE SkipFile \/ OpenFile \/ StoreFails \/ flag_file_as_processed
  BY <1>3 DEF SkipFile, OpenFile, StoreFails, flag_file_as_processed
<1>4. CASE FetchFails
  BY <1>4 DEF FetchFails
<1>5. ASSUME NEW s \in Stations, StoreValue(s)
      PROVE  FlagsOK'
  BY <1>5 DEF StoreValue
<1>6. CASE mark_prediction_model_run_processed
  BY <1>6 DEF mark_prediction_model_run_processed
<1>7. CASE QueryRuns
  BY <1>7 DEF QueryRuns
<1>8. ASSUME NEW r \in queue, process_model_run(r) \/ mark_model_run_interpolated(r)
      PROVE  FlagsOK'
  BY <1>8 DEF process_model_run, mark_model_run_interpolated
<1>9. CASE refresh_morecast2_materialized_view \/ apply_data_retention_policy
  BY <1>9 DEF refresh_morecast2_materialized_view, apply_data_retention_policy, JobGone
<1>10. CASE OtherJobRefreshes \/ OtherJobRetains \/ UNCHANGED vars
  BY <1>10 DEF OtherJobRefreshes, OtherJobRetains, vars, job
<1> QED
  BY <1>1, <1>2, <1>3, <1>4, <1>5, <1>6, <1>7, <1>8, <1>9, <1>10 DEF Next, JobStep

(* The tables and the job's variables always have their types.             *)
THEOREM TypeCorrect == Spec => []TypeOK
<1>a. NFiles \in Nat \ {0} /\ Len(RunHours) \in Nat \ {0} /\ FirstHour \in Int
  BY ParametersAssumption
<1>1. Init => TypeOK
  <2> SUFFICES ASSUME Init PROVE TablesOK /\ FlagsOK
    BY DEF TypeOK
  <2>1. TablesOK
    BY <1>a DEF Init, TablesOK
  <2> QED
    BY <2>1 DEF Init, FlagsOK
<1>2. TypeOK /\ [Next]_vars => TypeOK'
  BY TablesStep, FlagsStep DEF TypeOK
<1> QED
  BY <1>1, <1>2, PTL DEF Spec
-----------------------------------------------------------------------------
(* Expiry: what is too old stays too old, because the clock never goes     *)
(* back.                                                                   *)
LEMMA ClockAdvances ==
  ASSUME TablesOK, [Next]_vars
  PROVE  clock \in Int /\ clock' \in Int /\ clock <= clock'
<1>1. clock \in Int
  BY DEF TablesOK
<1>2. CASE CronFire
  BY <1>1, <1>2 DEF CronFire
<1>3. CASE ~CronFire
  <2>1. clock' = clock
    BY <1>3 DEF Next, vars, JobDies, JobStep, SkipFile, FetchFails, OpenFile, StoreValue,
         StoreFails, flag_file_as_processed, mark_prediction_model_run_processed, QueryRuns,
         process_model_run, mark_model_run_interpolated,
         refresh_morecast2_materialized_view, apply_data_retention_policy,
         OtherJobRefreshes, OtherJobRetains
  <2> QED
    BY <1>1, <2>1
<1> QED
  BY <1>2, <1>3

LEMMA LaterIsOlder ==
  ASSUME NEW h \in Int, NEW t \in Int, NEW u \in Int, NEW age \in Int, t <= u, h < t - age
  PROVE  h < u - age
OBVIOUS

LEMMA StaysExpired ==
  ASSUME TablesOK, [Next]_vars, NEW r \in Int, NEW f \in Files, NEW s, NEW age \in Int,
         Expired(<<r, f, s>>, age)
  PROVE  Expired(<<r, f, s>>, age)'
<1>1. r + f \in Int
  BY ParametersAssumption DEF Files
<1>2. r + f < clock - age
  BY DEF Expired, PredictionHour
<1>3. r + f < clock' - age
  BY <1>1, <1>2, ClockAdvances, LaterIsOlder
<1> QED
  BY <1>3 DEF Expired, PredictionHour

(* The steps that touch none of the tables a clause speaks of.             *)
LEMMA OtherSteps ==
  ASSUME [Next]_vars
  PROVE  /\ \/ CronFire \/ OpenFile \/ \E s \in Stations : StoreValue(s)
            \/ flag_file_as_processed \/ apply_data_retention_policy \/ OtherJobRetains
            \/ UNCHANGED <<clock, runRows, processed, stored>>
         /\ \/ mark_prediction_model_run_processed \/ UNCHANGED complete
         /\ \/ \E r \in queue : process_model_run(r)
            \/ apply_data_retention_policy \/ OtherJobRetains \/ UNCHANGED predictions
         /\ (\E r \in queue : mark_model_run_interpolated(r)) \/ UNCHANGED interpolated
         /\ \/ refresh_morecast2_materialized_view \/ OtherJobRefreshes \/ UNCHANGED view
<1> USE DEF Next, vars, tables, JobDies, JobStep, CronFire, SkipFile, FetchFails, OpenFile,
       StoreValue, StoreFails, flag_file_as_processed, mark_prediction_model_run_processed,
       QueryRuns, process_model_run, mark_model_run_interpolated,
       refresh_morecast2_materialized_view, apply_data_retention_policy,
       OtherJobRefreshes, OtherJobRetains, job
<1>1. \/ CronFire \/ OpenFile \/ \E s \in Stations : StoreValue(s)
      \/ flag_file_as_processed \/ apply_data_retention_policy \/ OtherJobRetains
      \/ UNCHANGED <<clock, runRows, processed, stored>>
  OBVIOUS
<1>2. mark_prediction_model_run_processed \/ UNCHANGED complete
  OBVIOUS
<1>3. \/ \E r \in queue : process_model_run(r)
      \/ apply_data_retention_policy \/ OtherJobRetains \/ UNCHANGED predictions
  OBVIOUS
<1>4. (\E r \in queue : mark_model_run_interpolated(r)) \/ UNCHANGED interpolated
  OBVIOUS
<1>5. refresh_morecast2_materialized_view \/ OtherJobRefreshes \/ UNCHANGED view
  OBVIOUS
<1> QED
  BY <1>1, <1>2, <1>3, <1>4, <1>5

(* A table that only loses what the retention policy deletes keeps saying  *)
(* of a run that every row is there or is too old.                         *)
LEMMA KeepsUnexpired ==
  ASSUME TablesOK, [Next]_vars, NEW rows, NEW later, NEW r \in Int, NEW f \in Files,
         NEW s \in Stations, NEW age \in Int,
         rows \subseteq later \/ (later = Unexpired(rows, age) /\ clock' = clock),
         <<r, f, s>> \in rows \/ Expired(<<r, f, s>>, age)
  PROVE  <<r, f, s>> \in later \/ Expired(<<r, f, s>>, age)'
<1>1. CASE Expired(<<r, f, s>>, age)
  BY <1>1, StaysExpired
<1>2. CASE ~Expired(<<r, f, s>>, age)
  BY <1>2 DEF Unexpired
<1> QED
  BY <1>1, <1>2

LEMMA KeepsAllIn ==
  ASSUME TablesOK, [Next]_vars, NEW rows, NEW later, NEW r \in Int, NEW age \in Int,
         rows \subseteq later \/ (later = Unexpired(rows, age) /\ clock' = clock),
         AllIn(r, rows, age)
  PROVE  \A f \in Files, s \in Stations :
           <<r, f, s>> \in later \/ Expired(<<r, f, s>>, age)'
BY KeepsUnexpired DEF AllIn

(* How each table moves in a step.                                         *)
LEMMA StoredMoves ==
  ASSUME [Next]_vars
  PROVE  /\ stored \subseteq stored' \/ (stored' = Unexpired(stored, Retention) /\ clock' = clock)
         /\ runRows \subseteq runRows'
         /\ processed \subseteq processed'
         /\ complete \subseteq complete'
         /\ interpolated \subseteq interpolated'
         /\ \/ predictions \subseteq predictions'
            \/ predictions' = Unexpired(predictions, Retention) /\ clock' = clock
<1>1. stored \subseteq stored' \/ (stored' = Unexpired(stored, Retention) /\ clock' = clock)
  BY OtherSteps DEF CronFire, OpenFile, StoreValue, flag_file_as_processed,
     apply_data_retention_policy, OtherJobRetains, tables
<1>2. runRows \subseteq runRows' /\ processed \subseteq processed'
  BY OtherSteps DEF CronFire, OpenFile, StoreValue, flag_file_as_processed,
     apply_data_retention_policy, OtherJobRetains, tables
<1>3. complete \subseteq complete'
  BY OtherSteps DEF mark_prediction_model_run_processed
<1>4. interpolated \subseteq interpolated'
  BY OtherSteps DEF mark_model_run_interpolated
<1>5. \/ predictions \subseteq predictions'
      \/ predictions' = Unexpired(predictions, Retention) /\ clock' = clock
  BY OtherSteps DEF process_model_run, apply_data_retention_policy, OtherJobRetains
<1> QED
  BY <1>1, <1>2, <1>3, <1>4, <1>5
-----------------------------------------------------------------------------
(* Each clause of the invariant is preserved.                              *)
LEMMA FlaggedStep ==
  ASSUME TablesOK, FlaggedFilesAreStored, JobAgrees, [Next]_vars
  PROVE  FlaggedFilesAreStored'
<1> SUFFICES ASSUME NEW p \in processed'
             PROVE  /\ p[1] \in runRows'
                    /\ \A s \in Stations : \/ <<p[1], p[2], s>> \in stored'
                                            \/ Expired(<<p[1], p[2], s>>, Retention)'
  BY DEF FlaggedFilesAreStored
<1>1. CASE p \in processed
  <2>1. p[1] \in Int /\ p[2] \in Files /\ p[1] \in runRows
    BY <1>1 DEF TablesOK, FlaggedFilesAreStored
  <2>2. ASSUME NEW s \in Stations
        PROVE  <<p[1], p[2], s>> \in stored \/ Expired(<<p[1], p[2], s>>, Retention)
    BY <1>1 DEF FlaggedFilesAreStored
  <2>3. Retention \in Int
    BY ParametersAssumption
  <2> QED
    BY <2>1, <2>2, <2>3, StoredMoves, KeepsUnexpired
<1>2. CASE p \notin processed
  <2>1. flag_file_as_processed
    BY <1>2, OtherSteps DEF CronFire, OpenFile, StoreValue, apply_data_retention_policy,
       OtherJobRetains, tables
  <2>2. p = <<run, file>> /\ run \in runRows /\ \A s \in Stations : IsStored(s)
    BY <1>2, <2>1 DEF flag_file_as_processed, JobAgrees
  <2> QED
    BY <2>1, <2>2 DEF flag_file_as_processed, IsStored, Expired, PredictionHour
<1> QED
  BY <1>1, <1>2

LEMMA FlagsOfCompleteStep ==
  ASSUME CompleteRunsAreFlagged, [Next]_vars
  PROVE  CompleteRunsAreFlagged'
<1>1. ASSUME NEW r \in complete'
      PROVE  check_if_model_run_complete(r)
  <2>1. CASE r \in complete
    BY <2>1 DEF CompleteRunsAreFlagged
  <2>2. CASE r \notin complete
    BY <2>2, OtherSteps DEF mark_prediction_model_run_processed
  <2> QED
    BY <2>1, <2>2
<1> QED
  BY <1>1, StoredMoves DEF CompleteRunsAreFlagged, check_if_model_run_complete

(* A complete run is in the table of stored values, or too old for it.     *)
LEMMA CompleteStored ==
  ASSUME CompleteRunsAreFlagged, FlaggedFilesAreStored
  PROVE  CompleteRunsAreStored
<1> SUFFICES ASSUME NEW r \in complete, NEW f \in Files, NEW s \in Stations
             PROVE  <<r, f, s>> \in stored \/ Expired(<<r, f, s>>, Retention)
  BY DEF CompleteRunsAreStored, AllIn, CompleteRunsAreFlagged
<1>1. <<r, f>> \in processed
  BY DEF CompleteRunsAreFlagged, check_if_model_run_complete
<1> QED
  BY <1>1 DEF FlaggedFilesAreStored

(* The interpolation of a run predicts all of it.                          *)
LEMMA InterpolationIsWhole ==
  ASSUME CompleteRunsAreFlagged, FlaggedFilesAreStored, JobAgrees,
         NEW r \in queue, process_model_run(r)
  PROVE  r \in complete /\ AllIn(r, predictions, Retention)'
<1>1. r \in complete
  BY DEF JobAgrees, process_model_run
<1>2. AllIn(r, stored, Retention)
  BY <1>1, CompleteStored DEF CompleteRunsAreStored
<1>3. /\ \A f \in Files, s \in Stations :
           <<r, f, s>> \in stored => <<r, f, s>> \in predictions'
      /\ clock' = clock
  BY DEF process_model_run
<1> QED
  BY <1>1, <1>2, <1>3 DEF AllIn, Expired, PredictionHour

LEMMA PredictionsStep ==
  ASSUME TablesOK, CompleteRunsAreFlagged, FlaggedFilesAreStored, JobAgrees,
         PredictionsAreWholeRuns, [Next]_vars
  PROVE  PredictionsAreWholeRuns'
<1> SUFFICES ASSUME NEW row \in predictions'
             PROVE  row[1] \in complete' /\ AllIn(row[1], predictions, Retention)'
  BY DEF PredictionsAreWholeRuns
<1>1. CASE row \in predictions
  <2>1. row[1] \in complete /\ AllIn(row[1], predictions, Retention) /\ row[1] \in Int
    BY <1>1 DEF PredictionsAreWholeRuns, TablesOK, Rows
  <2>2. Retention \in Int
    BY ParametersAssumption
  <2>3. \A f \in Files, s \in Stations :
          <<row[1], f, s>> \in predictions' \/ Expired(<<row[1], f, s>>, Retention)'
    BY <2>1, <2>2, StoredMoves, KeepsAllIn
  <2> QED
    BY <2>1, <2>3, StoredMoves DEF AllIn
<1>2. CASE row \notin predictions
  <2>1. PICK r \in queue : process_model_run(r)
    BY <1>2, OtherSteps DEF apply_data_retention_policy, OtherJobRetains, Unexpired
  <2>2. row[1] = r
    BY <1>2, <2>1 DEF process_model_run
  <2> QED
    BY <2>1, <2>2, InterpolationIsWhole, StoredMoves
<1> QED
  BY <1>1, <1>2

LEMMA InterpolatedStep ==
  ASSUME TablesOK, JobAgrees, InterpolatedRunsArePredicted, [Next]_vars
  PROVE  InterpolatedRunsArePredicted'
<1> SUFFICES ASSUME NEW r \in interpolated'
             PROVE  r \in complete' /\ AllIn(r, predictions, Retention)'
  BY DEF InterpolatedRunsArePredicted
<1>1. CASE r \in interpolated
  <2>1. r \in complete /\ AllIn(r, predictions, Retention) /\ r \in Int /\ Retention \in Int
    BY <1>1, ParametersAssumption DEF InterpolatedRunsArePredicted, TablesOK
  <2>2. \A f \in Files, s \in Stations :
          <<r, f, s>> \in predictions' \/ Expired(<<r, f, s>>, Retention)'
    BY <2>1, StoredMoves, KeepsAllIn
  <2> QED
    BY <2>1, <2>2, StoredMoves DEF AllIn
<1>2. CASE r \notin interpolated
  <2>1. r \in queue /\ mark_model_run_interpolated(r)
    BY <1>2, OtherSteps DEF mark_model_run_interpolated
  <2>2. r \in complete /\ AllIn(r, predictions, Retention)
    BY <2>1 DEF JobAgrees, mark_model_run_interpolated
  <2> QED
    BY <2>1, <2>2, StoredMoves
       DEF mark_model_run_interpolated, AllIn, Expired, PredictionHour
<1> QED
  BY <1>1, <1>2

(* What a rebuild of the view takes from a wholly predicted run is whole.  *)
LEMMA PublishedIsWhole ==
  ASSUME TablesOK, NEW r \in Int, AllIn(r, predictions, Retention)
  PROVE  AllIn(r, Unexpired(predictions, ViewWindow), ViewWindow)
<1> SUFFICES ASSUME NEW f \in Files, NEW s \in Stations, ~Expired(<<r, f, s>>, ViewWindow)
             PROVE  <<r, f, s>> \in Unexpired(predictions, ViewWindow)
  BY DEF AllIn
<1>1. ~(r + f < clock - ViewWindow)
  BY DEF Expired, PredictionHour
<1>2. ~(r + f < clock - Retention)
  BY <1>1, ParametersAssumption DEF Files, TablesOK
<1>3. <<r, f, s>> \in predictions
  BY <1>2 DEF AllIn, Expired, PredictionHour
<1> QED
  BY <1>3 DEF Unexpired

LEMMA ViewStep ==
  ASSUME TablesOK, PredictionsAreWholeRuns, ViewShowsWholeRuns, [Next]_vars
  PROVE  ViewShowsWholeRuns'
<1> SUFFICES ASSUME NEW row \in view'
             PROVE  row[1] \in complete' /\ AllIn(row[1], view, ViewWindow)'
  BY DEF ViewShowsWholeRuns
<1>1. CASE view' = view
  <2>1. row[1] \in complete /\ AllIn(row[1], view, ViewWindow) /\ row[1] \in Int
    BY <1>1 DEF ViewShowsWholeRuns, TablesOK, Rows
  <2>2. ViewWindow \in Int
    BY ParametersAssumption
  <2>3. \A f \in Files, s \in Stations :
          <<row[1], f, s>> \in view' \/ Expired(<<row[1], f, s>>, ViewWindow)'
    BY <1>1, <2>1, <2>2, KeepsAllIn
  <2> QED
    BY <2>1, <2>3, StoredMoves DEF AllIn
<1>2. CASE view' # view
  <2>1. clock' = clock /\ view' = Unexpired(predictions, ViewWindow)
    BY <1>2, OtherSteps DEF refresh_morecast2_materialized_view, OtherJobRefreshes
  <2>2. row[1] \in complete /\ AllIn(row[1], predictions, Retention) /\ row[1] \in Int
    BY <2>1 DEF PredictionsAreWholeRuns, Unexpired, TablesOK, Rows
  <2>3. AllIn(row[1], view', ViewWindow)
    BY <2>1, <2>2, PublishedIsWhole
  <2> QED
    BY <2>1, <2>2, <2>3, StoredMoves DEF AllIn, Expired, PredictionHour
<1> QED
  BY <1>1, <1>2

(* The open file's values are being stored, for a run that has its row.    *)
LEMMA OpenFileStep ==
  ASSUME TablesOK, JobAgrees, [Next]_vars, pc' = "store"
  PROVE  run' \in runRows' /\ \A s \in Stations \ todo' : IsStored(s)'
<1>1. \/ OpenFile \/ (\E s \in Stations : StoreValue(s)) \/ OtherJobRetains
      \/ OtherJobRefreshes \/ UNCHANGED vars
  BY DEF Next, JobStep, CronFire, JobDies, JobGone, SkipFile, FetchFails, StoreFails, NextFile,
     NextRunHour, flag_file_as_processed, mark_prediction_model_run_processed, QueryRuns,
     process_model_run, mark_model_run_interpolated,
     refresh_morecast2_materialized_view, apply_data_retention_policy
<1>2. run' = run /\ file' = file /\ clock' = clock
  BY <1>1 DEF OpenFile, StoreValue, OtherJobRetains, OtherJobRefreshes, vars, job, run, RunAt,
     adjust_model_day
<1>3. CASE OpenFile
  BY <1>2, <1>3 DEF OpenFile
<1>4. ASSUME NEW s \in Stations, StoreValue(s)
      PROVE  run' \in runRows' /\ \A t \in Stations \ todo' : IsStored(t)'
  BY <1>2, <1>4 DEF StoreValue, JobAgrees, IsStored, Expired, PredictionHour
<1>5. CASE UNCHANGED vars \/ OtherJobRefreshes
  BY <1>2, <1>5 DEF vars, job, tables, JobAgrees, OtherJobRefreshes, IsStored, Expired,
     PredictionHour
<1>6. CASE OtherJobRetains
  BY <1>2, <1>6 DEF job, JobAgrees, OtherJobRetains, IsStored, Unexpired, Expired,
     PredictionHour
<1> QED
  BY <1>1, <1>3, <1>4, <1>5, <1>6

(* The queue of the job holds what is complete and not interpolated: no    *)
(* other job completes a run meanwhile.                                    *)
LEMMA QueueStep ==
  ASSUME JobAgrees, InterpolatedRunsArePredicted, [Next]_vars, pc' \in {"interpolate", "mark"}
  PROVE  complete' = interpolated' \union queue'
<1>1. \/ QueryRuns
      \/ \E r \in queue : process_model_run(r) \/ mark_model_run_interpolated(r)
      \/ OtherJobRefreshes \/ OtherJobRetains \/ UNCHANGED vars
  BY DEF Next, JobStep, CronFire, JobDies, JobGone, SkipFile, FetchFails, StoreFails, NextFile,
     NextRunHour, OpenFile, StoreValue, flag_file_as_processed, mark_prediction_model_run_processed,
     refresh_morecast2_materialized_view, apply_data_retention_policy
<1>2. CASE QueryRuns
  BY <1>2 DEF QueryRuns, RunsToInterpolate, tables, InterpolatedRunsArePredicted
<1>3. ASSUME NEW r \in queue, process_model_run(r)
      PROVE  complete' = interpolated' \union queue'
  BY <1>3 DEF process_model_run, JobAgrees
<1>4. ASSUME NEW r \in queue, mark_model_run_interpolated(r)
      PROVE  complete' = interpolated' \union queue'
  BY <1>4 DEF mark_model_run_interpolated, JobAgrees
<1>5. CASE OtherJobRefreshes \/ OtherJobRetains \/ UNCHANGED vars
  BY <1>5 DEF OtherJobRefreshes, OtherJobRetains, vars, job, tables, JobAgrees
<1> QED
  BY <1>1, <1>2, <1>3, <1>4, <1>5

(* The run to be marked as interpolated has been predicted.                *)
LEMMA MarkStep ==
  ASSUME TablesOK, FlaggedFilesAreStored, CompleteRunsAreFlagged, JobAgrees, [Next]_vars,
         pc' = "mark", NEW r \in queue', Earliest(r)'
  PROVE  AllIn(r, predictions, Retention)'
<1>1. \/ \E q \in queue : process_model_run(q)
      \/ OtherJobRefreshes \/ OtherJobRetains \/ UNCHANGED vars
  BY DEF Next, JobStep, CronFire, JobDies, JobGone, SkipFile, FetchFails, StoreFails, NextFile,
     NextRunHour, OpenFile, StoreValue, flag_file_as_processed, mark_prediction_model_run_processed,
     QueryRuns, mark_model_run_interpolated,
     refresh_morecast2_materialized_view, apply_data_retention_policy
<1>2. ASSUME NEW q \in queue, process_model_run(q)
      PROVE  AllIn(r, predictions, Retention)'
  <2>1. queue' = queue /\ Earliest(q) /\ r \in Int /\ q \in Int
    BY <1>2 DEF process_model_run, TablesOK
  <2>2. r <= q /\ q <= r
    BY <2>1 DEF Earliest
  <2>3. r = q
    BY <2>1, <2>2
  <2> QED
    BY <1>2, <2>3, InterpolationIsWhole
<1>3. CASE OtherJobRefreshes \/ UNCHANGED vars
  BY <1>3 DEF OtherJobRefreshes, vars, job, tables, JobAgrees, Earliest, AllIn, Expired,
     PredictionHour
<1>4. CASE OtherJobRetains
  <2>1. pc = "mark" /\ r \in queue /\ Earliest(r) /\ clock' = clock
    BY <1>4 DEF OtherJobRetains, job, Earliest
  <2>2. AllIn(r, predictions, Retention)
    BY <2>1 DEF JobAgrees
  <2> QED
    BY <1>4, <2>1, <2>2 DEF OtherJobRetains, AllIn, Unexpired, Expired, PredictionHour
<1> QED
  BY <1>1, <1>2, <1>3, <1>4
-----------------------------------------------------------------------------
(* The inductive invariant.                                                *)
LEMMA InvariantInit == Init => IInv
<1>a. NFiles \in Nat \ {0} /\ Len(RunHours) \in Nat \ {0} /\ FirstHour \in Int
  BY ParametersAssumption
<1> SUFFICES ASSUME Init PROVE IInv
  OBVIOUS
<1>1. TablesOK
  BY <1>a DEF Init, TablesOK
<1>2. FlagsOK
  BY DEF Init, FlagsOK
<1> QED
  BY <1>1, <1>2 DEF Init, IInv, TypeOK, FlaggedFilesAreStored, CompleteRunsAreFlagged,
     PredictionsAreWholeRuns, InterpolatedRunsArePredicted, JobAgrees, ViewShowsWholeRuns

LEMMA InvariantStep == IInv /\ [Next]_vars => IInv'
<1> SUFFICES ASSUME IInv, [Next]_vars PROVE IInv'
  OBVIOUS
<1>0. TablesOK /\ FlagsOK
  BY DEF IInv, TypeOK
<1>1. TypeOK'
  BY <1>0, TablesStep, FlagsStep DEF TypeOK
<1>2. FlaggedFilesAreStored' /\ CompleteRunsAreFlagged'
  BY <1>0, FlaggedStep, FlagsOfCompleteStep DEF IInv
<1>3. PredictionsAreWholeRuns' /\ InterpolatedRunsArePredicted' /\ ViewShowsWholeRuns'
  BY <1>0, PredictionsStep, InterpolatedStep, ViewStep DEF IInv
<1>4. JobAgrees'
  <2>1. pc' = "store" =>
          run' \in runRows' /\ \A s \in Stations \ todo' : IsStored(s)'
    BY <1>0, OpenFileStep DEF IInv
  <2>2. pc' \in {"interpolate", "mark"} => complete' = interpolated' \union queue'
    BY QueueStep DEF IInv
  <2>3. pc' = "mark" => \A r \in queue' : Earliest(r)' => AllIn(r, predictions, Retention)'
    BY <1>0, MarkStep DEF IInv
  <2> QED
    BY <2>1, <2>2, <2>3 DEF JobAgrees
<1> QED
  BY <1>1, <1>2, <1>3, <1>4 DEF IInv

(* The inductive invariant of the ingest: its types, the flags of the runs, *)
(* the predictions they stand for, and the phase the job is in.             *)
THEOREM Invariant == Spec => []IInv
BY InvariantInit, InvariantStep, PTL DEF Spec

(* A run marked complete has all its files flagged and all its values      *)
(* stored, whichever jobs died.                                            *)
THEOREM CompletenessNeverLies == Spec => []CompleteRunsAreStored
<1>1. IInv => CompleteRunsAreStored
  BY CompleteStored DEF IInv
<1> QED
  BY <1>1, Invariant, PTL

(* A run marked interpolated has its predictions: a crash between the two  *)
(* commits never leaves the flag without the data.                         *)
THEOREM InterpolationNeverLies == Spec => []InterpolatedRunsArePredicted
<1>1. IInv => InterpolatedRunsArePredicted
  BY DEF IInv
<1> QED
  BY <1>1, Invariant, PTL

(* Morecast never reads a part of a run, whichever model's job rebuilt the *)
(* view, and between whichever two commits of this model's job.            *)
THEOREM ReadersSeeWholeRuns == Spec => []ViewShowsWholeRuns
<1>1. IInv => ViewShowsWholeRuns
  BY DEF IInv
<1> QED
  BY <1>1, Invariant, PTL

(* A rebuild of the view publishes every interpolated run, whichever job   *)
(* interpolated it.                                                        *)
THEOREM RefreshIsComplete == Spec => RefreshCatchesUp
<1>1. IInv /\ [Next]_vars =>
        [view' # view => \A r \in interpolated : AllIn(r, view', ViewWindow)]_vars
  <2> SUFFICES ASSUME IInv, [Next]_vars, view' # view, NEW r \in interpolated
               PROVE  AllIn(r, view', ViewWindow)
    OBVIOUS
  <2>1. view' = Unexpired(predictions, ViewWindow)
    BY OtherSteps DEF refresh_morecast2_materialized_view, OtherJobRefreshes
  <2>2. TablesOK /\ r \in Int /\ AllIn(r, predictions, Retention)
    BY DEF IInv, TypeOK, TablesOK, InterpolatedRunsArePredicted
  <2> QED
    BY <2>1, <2>2, PublishedIsWhole
<1> QED
  BY <1>1, Invariant, PTL DEF Spec, RefreshCatchesUp
-----------------------------------------------------------------------------
(* Every step of the jobs is a step of the promise, or invisible to it.    *)
Downloaded == {r \in RunsIn(processed) : check_if_model_run_complete(r)}
Past == {r \in complete : AllIn(r, {}, Retention)}

LEMMA DownloadStep ==
  ASSUME flag_file_as_processed
  PROVE  Downloaded' = Downloaded \/ Downloaded' = Downloaded \union {run}
<1>1. processed' = processed \union {<<run, file>>}
  BY DEF flag_file_as_processed
<1>2. ASSUME NEW r
      PROVE  r \in Downloaded => r \in Downloaded'
  BY <1>1 DEF Downloaded, RunsIn, check_if_model_run_complete
<1>3. ASSUME NEW r, r \in Downloaded', r # run
      PROVE  r \in Downloaded
  BY <1>1, <1>3 DEF Downloaded, RunsIn, check_if_model_run_complete
<1> QED
  BY <1>2, <1>3

(* A run with some prediction is not past, and one that is neither past    *)
(* nor without prediction has some.                                        *)
LEMMA PredictedOrPast ==
  ASSUME NEW r \in complete, AllIn(r, predictions, Retention)
  PROVE  r \in RunsIn(predictions) \union Past
<1>1. CASE AllIn(r, {}, Retention)
  BY <1>1 DEF Past
<1>2. CASE ~AllIn(r, {}, Retention)
  <2>1. PICK f \in Files, s \in Stations : <<r, f, s>> \in predictions
    BY <1>2 DEF AllIn
  <2> QED
    BY <2>1 DEF RunsIn
<1> QED
  BY <1>1, <1>2

(* The retention policy forgets nothing of a run but what is past: a run   *)
(* that keeps one row of it keeps its stage.                               *)
LEMMA ForgetStep ==
  ASSUME IInv, UNCHANGED <<clock, complete>>, predictions' = Unexpired(predictions, Retention)
  PROVE  /\ RunsIn(predictions)' \subseteq RunsIn(predictions)
         /\ RunsIn(predictions) \subseteq RunsIn(predictions)' \union Past'
<1>1. RunsIn(predictions)' \subseteq RunsIn(predictions)
  BY DEF RunsIn, Unexpired
<1>2. ASSUME NEW r \in RunsIn(predictions), r \notin RunsIn(predictions)'
      PROVE  r \in Past'
  <2>1. r \in complete /\ AllIn(r, predictions, Retention)
    BY DEF IInv, PredictionsAreWholeRuns, RunsIn
  <2>2. ASSUME NEW f \in Files, NEW s \in Stations
        PROVE  Expired(<<r, f, s>>, Retention)
    <3>1. CASE <<r, f, s>> \in predictions
      BY <1>2, <3>1 DEF RunsIn, Unexpired
    <3>2. CASE <<r, f, s>> \notin predictions
      BY <2>1, <3>2 DEF AllIn
    <3> QED
      BY <3>1, <3>2
  <2> QED
    BY <2>1, <2>2 DEF Past, AllIn, Expired, PredictionHour
<1> QED
  BY <1>1, <1>2

(* What is past stays past.                                                *)
LEMMA PastStep ==
  ASSUME IInv, [Next]_vars
  PROVE  Past \subseteq Past'
<1> SUFFICES ASSUME NEW r \in Past PROVE r \in Past'
  OBVIOUS
<1>1. TablesOK /\ r \in Int /\ Retention \in Int /\ r \in complete'
  BY StoredMoves, ParametersAssumption DEF IInv, TypeOK, TablesOK, Past
<1>2. ASSUME NEW f \in Files, NEW s \in Stations
      PROVE  Expired(<<r, f, s>>, Retention)'
  BY <1>1, StaysExpired DEF Past, AllIn
<1> QED
  BY <1>1, <1>2 DEF Past, AllIn

LEMMA PastSame ==
  ASSUME UNCHANGED <<clock, complete>>
  PROVE  Past' = Past
BY DEF Past, AllIn, Expired, PredictionHour

LEMMA PromiseStep ==
  ASSUME IInv, [Next]_vars
  PROVE  \/ Promise!Next
         \/ UNCHANGED <<Downloaded, complete, RunsIn(predictions), interpolated, Past,
                        RunsIn(view)>>
<1> USE DEF Promise!Next
<1> DEFINE same == UNCHANGED <<Downloaded, complete, RunsIn(predictions), interpolated, Past,
                               RunsIn(view)>>
<1>1. CASE flag_file_as_processed
  <2>1. UNCHANGED <<complete, RunsIn(predictions), interpolated, Past, RunsIn(view)>>
    BY <1>1, PastSame DEF flag_file_as_processed, RunsIn
  <2>2. CASE Downloaded' = Downloaded
    BY <2>1, <2>2
  <2>3. CASE Downloaded' # Downloaded
    <3>1. run \in Downloaded' /\ Downloaded' = Downloaded \union {run}
      BY <1>1, <2>3, DownloadStep
    <3> QED
      BY <2>1, <3>1 DEF Promise!Download, Downloaded, Past
  <2> QED
    BY <2>2, <2>3
<1>2. CASE mark_prediction_model_run_processed
  <2>1. UNCHANGED <<clock, Downloaded, RunsIn(predictions), interpolated, RunsIn(view)>>
    BY <1>2 DEF mark_prediction_model_run_processed, Downloaded, RunsIn,
       check_if_model_run_complete
  <2>2. CASE complete' = complete
    BY <2>1, <2>2, PastSame
  <2>3. CASE complete' # complete
    <3>1. check_if_model_run_complete(run) /\ complete' = complete \union {run}
      BY <1>2, <2>3 DEF mark_prediction_model_run_processed
    <3>2. <<run, 1>> \in processed
      BY <3>1, ParametersAssumption DEF check_if_model_run_complete, Files
    <3>3. run \in Downloaded
      BY <3>1, <3>2 DEF RunsIn, Downloaded
    <3>4. Past' \in {Past, Past \union {run}}
      BY <2>1, <3>1 DEF Past, AllIn, Expired, PredictionHour
    <3> QED
      BY <2>1, <3>1, <3>3, <3>4 DEF Promise!Complete, Downloaded, Past
  <2> QED
    BY <2>2, <2>3
<1>3. ASSUME NEW r \in queue, process_model_run(r)
      PROVE  Promise!Next \/ same
  <2>1. r \in complete
    BY <1>3 DEF IInv, JobAgrees, process_model_run
  <2>2. UNCHANGED <<Downloaded, complete, interpolated, Past, RunsIn(view)>>
    BY <1>3, PastSame DEF process_model_run, Downloaded, RunsIn, check_if_model_run_complete
  <2>3. RunsIn(predictions)' \in {RunsIn(predictions), RunsIn(predictions) \union {r}}
    BY <1>3 DEF process_model_run, RunsIn
  <2> QED
    BY <2>1, <2>2, <2>3 DEF Promise!Predict, Downloaded, Past
<1>4. ASSUME NEW r \in queue, mark_model_run_interpolated(r)
      PROVE  Promise!Next
  <2>1. r \in complete /\ AllIn(r, predictions, Retention)
        /\ interpolated' = interpolated \union {r}
    BY <1>4 DEF IInv, JobAgrees, mark_model_run_interpolated
  <2>2. UNCHANGED <<Downloaded, complete, RunsIn(predictions), Past, RunsIn(view)>>
    BY <1>4, PastSame
       DEF mark_model_run_interpolated, Downloaded, RunsIn, check_if_model_run_complete
  <2>3. r \in RunsIn(predictions) \union Past
    BY <2>1, PredictedOrPast
  <2> QED
    BY <2>1, <2>2, <2>3 DEF Promise!Interpolate, Downloaded, Past
<1>5. CASE refresh_morecast2_materialized_view \/ OtherJobRefreshes
  <2>1. UNCHANGED <<Downloaded, complete, RunsIn(predictions), interpolated, Past>>
    BY <1>5, PastSame DEF refresh_morecast2_materialized_view, OtherJobRefreshes, Downloaded,
       RunsIn, check_if_model_run_complete
  <2>2. view' = view \/ view' = Unexpired(predictions, ViewWindow)
    BY <1>5 DEF refresh_morecast2_materialized_view, OtherJobRefreshes
  <2>3. CASE view' = view
    BY <2>1, <2>3 DEF RunsIn
  <2>4. CASE view' = Unexpired(predictions, ViewWindow)
    <3>1. RunsIn(view)' \subseteq RunsIn(predictions)
      BY <2>4 DEF RunsIn, Unexpired
    <3> QED
      BY <2>1, <3>1 DEF Promise!Publish, Downloaded, Past
  <2> QED
    BY <2>2, <2>3, <2>4
<1>6. CASE apply_data_retention_policy \/ OtherJobRetains
  <2>1. UNCHANGED <<clock, Downloaded, complete, interpolated, Past, RunsIn(view)>>
    BY <1>6, PastSame DEF apply_data_retention_policy, OtherJobRetains, Downloaded, RunsIn,
       check_if_model_run_complete
  <2>2. predictions' = Unexpired(predictions, Retention)
    BY <1>6 DEF apply_data_retention_policy, OtherJobRetains
  <2>3. /\ RunsIn(predictions)' \subseteq RunsIn(predictions)
        /\ RunsIn(predictions) \subseteq RunsIn(predictions)' \union Past'
    BY <2>1, <2>2, ForgetStep
  <2> QED
    BY <2>1, <2>3 DEF Promise!Forget, Downloaded, Past
<1>7. CASE /\ ~flag_file_as_processed /\ ~mark_prediction_model_run_processed
           /\ ~\E r \in queue : process_model_run(r) \/ mark_model_run_interpolated(r)
           /\ ~refresh_morecast2_materialized_view /\ ~OtherJobRefreshes
           /\ ~apply_data_retention_policy /\ ~OtherJobRetains
  <2>1. UNCHANGED <<processed, complete, predictions, interpolated, view>>
    BY <1>7, OtherSteps DEF CronFire, OpenFile, StoreValue, tables
  <2>2. UNCHANGED <<Downloaded, complete, RunsIn(predictions), interpolated, RunsIn(view)>>
    BY <2>1 DEF RunsIn, Downloaded, check_if_model_run_complete
  <2>3. Past \subseteq Past' /\ Past' \subseteq complete'
    BY PastStep DEF Past
  <2> QED
    BY <2>2, <2>3 DEF Promise!Age, Downloaded, Past
<1> QED
  BY <1>1, <1>2, <1>3, <1>4, <1>5, <1>6, <1>7

(* The jobs implement the promise: a run is downloaded, marked complete,   *)
(* predicted and marked interpolated in this order, is read only once it   *)
(* is predicted, and never goes back, but for what the retention forgets.  *)
THEOREM Refinement == Spec => KeepsPromise
<1>1. Init => Promise!Init
  BY DEF Init, Promise!Init, RunsIn
<1>2. IInv /\ [Next]_vars => [Promise!Next]_Promise!vars
  BY PromiseStep DEF Promise!vars, Downloaded, Past
<1> QED
  BY <1>1, <1>2, Invariant, PTL DEF Spec, KeepsPromise, Promise!Spec
=============================================================================
