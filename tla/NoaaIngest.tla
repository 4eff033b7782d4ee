------------------------------ MODULE NoaaIngest ------------------------------
(***************************************************************************)
(* Which run a NOAA job (GFS and NAM, jobs/noaa.py) downloads and which it *)
(* marks complete.  The urls carry the date of the job in US/Eastern; the  *)
(* run that is marked is computed from the time of the job in UTC.         *)
(*                                                                         *)
(* Time is a count of hours in UTC; a run is the hour it starts.  What a   *)
(* job does with one file, and where it may die, is in ModelRunIngest,     *)
(* which shares the code; here the urls of a run hour are one step.        *)
(***************************************************************************)
EXTENDS Integers, Sequences, FiniteSets

CONSTANTS
  EasternOffset, \* hours US/Eastern is behind UTC: 4, in winter 5
  RunHours,      \* get_gfs_and_nam_model_run_hours
  NFiles,        \* urls of a run
  Delay,         \* hours until NOAA publishes a run
  Period,        \* hours between two jobs: 1 for NAM, 4 for GFS
  FirstHour, LastHour

VARIABLES
  clock,     \* the current hour
  processed, \* processed_model_run_urls: <<run, file>>
  runRows,   \* prediction_model_run_timestamps
  complete,  \* ... with complete = TRUE
  now, slot, \* of the job: NOAA.now, the position in RunHours
  pc

vars == <<clock, processed, runRows, complete, now, slot, pc>>
Files == 1 .. NFiles
Midnight(t) == t - (t % 24)

\* The run the urls of a run hour name: download_date_to_est.
UrlsOf(t, hour) == Midnight(t - EasternOffset) + hour

\* A job that starts before the run hour of the day wants yesterday's run.
adjust_model_day(t, hour) == IF t % 24 < hour THEN t - 24 ELSE t

\* The run mark_prediction_model_run_processed looks up.
RunToMark(t, hour) == Midnight(adjust_model_day(t, hour)) + hour

Published(run) == run + Delay <= clock

\* Regression: one file is taken for all of them.
SomeFileIsFlagged(run) == \E f \in Files : <<run, f>> \in processed

check_if_model_run_complete(run) == \A f \in Files : <<run, f>> \in processed

Init ==
  /\ clock = FirstHour /\ processed = {} /\ runRows = {} /\ complete = {}
  /\ now = FirstHour /\ slot = 1 /\ pc = "idle"

\* The next job of the schedule; LastHour bounds the clock.
CronFire ==
  /\ pc = "idle" /\ clock + Period <= LastHour
  /\ clock' = clock + Period
  /\ now' = clock' /\ slot' = 1 /\ pc' = "urls"
  /\ UNCHANGED <<processed, runRows, complete>>

\* Any of the files that are published and not flagged yet may be downloaded.
process_model_run_urls ==
  LET run == UrlsOf(now, RunHours[slot])
      missing == {f \in Files : Published(run) /\ <<run, f>> \notin processed}
  IN /\ pc = "urls"
     /\ \E got \in SUBSET missing :
          /\ processed' = processed \union ({run} \X got)
          /\ runRows' = IF got = {} THEN runRows ELSE runRows \union {run}
     /\ pc' = "mark"
     /\ UNCHANGED <<clock, complete, now, slot>>

NextRunHour ==
  IF slot < Len(RunHours)
    THEN slot' = slot + 1 /\ pc' = "urls"
    ELSE slot' = 1 /\ pc' = "idle"

\* Without a row of the run to mark, None has no attribute complete: the
\* exception is counted and the job goes on with the next run hour.
mark_prediction_model_run_processed ==
  LET run == RunToMark(now, RunHours[slot])
  IN /\ pc = "mark"
     /\ complete' = IF check_if_model_run_complete(UrlsOf(now, RunHours[slot]))
                         /\ run \in runRows
                       THEN complete \union {run} ELSE complete
     /\ NextRunHour
     /\ UNCHANGED <<clock, processed, runRows, now>>

Next == CronFire \/ process_model_run_urls \/ mark_prediction_model_run_processed
Spec == Init /\ [][Next]_vars

-----------------------------------------------------------------------------
TypeOK ==
  /\ clock \in FirstHour .. LastHour /\ now \in FirstHour .. LastHour
  /\ processed \in SUBSET (Int \X Files) /\ runRows \in SUBSET Int
  /\ complete \in SUBSET runRows
  /\ slot \in 1 .. Len(RunHours) /\ pc \in {"idle", "urls", "mark"}

(* The run that is marked complete has all its files, although the job     *)
(* checks the files of one date and marks the run of another.              *)
CompleteRunsAreProcessed == \A run \in complete : {run} \X Files \subseteq processed

\* The job asks for the urls of a day until it is over in the East.
DayIsOver(run) == pc = "idle" /\ Midnight(clock - EasternOffset) > run

(* "Having completed processing, check if we're all done": a run with all  *)
(* its files is marked complete by the time no job asks for it any more,   *)
(* or nobody ever interpolates it.                                         *)
NoRunIsLeftBehind ==
  \A run \in runRows :
    DayIsOver(run) /\ {run} \X Files \subseteq processed => run \in complete

\* The same for the runs that do not start at midnight.
NoLaterRunIsLeftBehind ==
  \A run \in runRows : run % 24 # 0 =>
    (DayIsOver(run) /\ {run} \X Files \subseteq processed => run \in complete)
=============================================================================
