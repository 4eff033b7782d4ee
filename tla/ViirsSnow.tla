------------------------------ MODULE ViirsSnow ------------------------------
(***************************************************************************)
(* Snow coverage from the VIIRS sensor: jobs/viirs_snow.py.  Once a day a  *)
(* job goes through the dates after the last one it has recorded, up to    *)
(* yesterday; for each it downloads the imagery, stores the clipped raster *)
(* (which process_hfi.py masks the HFI with) and the pmtiles (which the    *)
(* map shows) and then records the date in processed_snow.  The imagery of *)
(* a date is published some days later, not always in the order of dates.  *)
(***************************************************************************)
EXTENDS Integers, Sequences

CONSTANTS
  Backfill, \* days the first job goes back: 7
  LastDay,  \* bound: the last day of the model
  MaxKills  \* bound: jobs that fail

ASSUME BoundsAssumption ==
  Backfill \in Nat \ {0} /\ LastDay \in Nat /\ LastDay > Backfill /\ MaxKills \in Nat

VARIABLES
  today,
  available,      \* dates whose imagery is published
  clipped, tiles, \* dates whose raster, whose pmtiles are in the object store
  recorded,       \* for_date of the rows of processed_snow, in the order they were added
  pc,             \* of the job
  next, until,    \* next_date and today of the job
  kills

store == <<clipped, tiles>>
vars == <<today, available, store, recorded, pc, next, until, kills>>

Dates == 1 .. LastDay
RecordedDates == {recorded[i] : i \in DOMAIN recorded}

\* get_last_processed_snow_by_source; 0 is None.
last_processed ==
  IF recorded = <<>> THEN 0
  ELSE CHOOSE d \in RecordedDates : \A e \in RecordedDates : e <= d

\* Regression: a job that was missed stays missed.
OnlyYesterday ==
  IF last_processed < today - 1 THEN today - 1 ELSE last_processed + 1

FirstDate ==
  IF last_processed = 0 THEN today - Backfill ELSE last_processed + 1

Init ==
  /\ today = Backfill + 1
  /\ available = {} /\ clipped = {} /\ tiles = {} /\ recorded = <<>>
  /\ pc = "idle" /\ next = 0 /\ until = 0
  /\ kills = 0

-----------------------------------------------------------------------------
DayPasses ==
  /\ today < LastDay
  /\ today' = today + 1
  /\ UNCHANGED <<available, store, recorded, pc, next, until, kills>>

\* The NSIDC has the imagery of a date, from now on.
Publish(d) ==
  /\ d < today /\ d \notin available
  /\ available' = available \union {d}
  /\ UNCHANGED <<today, store, recorded, pc, next, until, kills>>

\* With every date up to yesterday recorded the job ends at once.
JobStarts ==
  /\ pc = "idle" /\ FirstDate < today
  /\ pc' = "download" /\ next' = FirstDate /\ until' = today
  /\ UNCHANGED <<today, available, store, recorded, kills>>

\* Regressions: one date a job, or the dates through today.
Stop == next' = next + 1 /\ pc' = "idle"
ThroughToday ==
  /\ next' = next + 1
  /\ pc' = IF next + 1 <= until THEN "download" ELSE "idle"

Advance ==
  /\ next' = next + 1
  /\ pc' = IF next + 1 < until THEN "download" ELSE "idle"

\* 501: there is no imagery yet.  The loop goes on with the next date.
Unavailable ==
  /\ pc = "download" /\ next \notin available
  /\ Advance
  /\ UNCHANGED <<today, available, store, recorded, until, kills>>

download_and_clip ==
  /\ pc = "download" /\ next \in available
  /\ clipped' = clipped \union {next}
  /\ pc' = "pmtiles"
  /\ UNCHANGED <<today, available, tiles, recorded, next, until, kills>>

\* Regression: the row is added before the pmtiles are there.
Early == {"pmtiles", "record"}

create_pmtiles_layer ==
  /\ pc = "pmtiles"
  /\ tiles' = tiles \union {next}
  /\ pc' = "record"
  /\ UNCHANGED <<today, available, clipped, recorded, next, until, kills>>

Recordable == {"record"}

save_processed_snow ==
  /\ pc \in Recordable
  /\ recorded' = Append(recorded, next)
  /\ Advance
  /\ UNCHANGED <<today, available, store, until, kills>>

\* Any other error, the end of the pod, or the next day's job replacing this one.
JobFails ==
  /\ pc # "idle" /\ kills < MaxKills
  /\ kills' = kills + 1
  /\ pc' = "idle"
  /\ UNCHANGED <<today, available, store, recorded, next, until>>

JobStep ==
  \/ Unavailable
  \/ download_and_clip
  \/ create_pmtiles_layer
  \/ save_processed_snow

Next ==
  \/ DayPasses
  \/ \E d \in Dates : Publish(d)
  \/ JobStarts
  \/ JobStep
  \/ JobFails

Spec == Init /\ [][Next]_vars

\* The job is scheduled every day, and one that is not killed goes on.
FairSpec == Spec /\ WF_vars(JobStarts) /\ WF_vars(JobStep)

-----------------------------------------------------------------------------
TypeOK ==
  /\ today \in Dates
  /\ available \subseteq Dates /\ clipped \subseteq Dates /\ tiles \subseteq Dates
  /\ recorded \in Seq(Dates)
  /\ pc \in {"idle", "download", "pmtiles", "record"}
  /\ next \in 0 .. LastDay /\ until \in 0 .. LastDay
  /\ kills \in 0 .. MaxKills

(* A date that is recorded has its raster and its pmtiles, wherever a job  *)
(* was killed: process_hfi.py masks with the raster of the last one.       *)
RecordedDatesAreStored == RecordedDates \subseteq clipped \intersect tiles

(* Dates are recorded in their order and once each, although a date is     *)
(* done again by every job until it is recorded.                           *)
RecordedInOrder ==
  \A i, j \in DOMAIN recorded : i < j => recorded[i] < recorded[j]

(* What a killed job left in the object store is not stale for ever: its   *)
(* date comes after the last recorded one, so a later job does it again.   *)
(* (Dates before the first recorded one are left to the first job.)        *)
UnrecordedRastersAreRedone ==
  recorded # <<>> =>
    \A d \in clipped \union tiles :
      recorded[1] <= d => (d \in RecordedDates \/ last_processed < d)

(* Imagery that is there when no job is running, of a date after the last  *)
(* recorded one, is processed in the end, whatever earlier dates lack.     *)
AvailableDatesAreRecorded ==
  \A d \in Dates :
    (pc = "idle" /\ recorded # <<>> /\ last_processed < d /\ d \in available)
      ~> d \in RecordedDates

(* "Stop processing at the current date and exit the job.  We'll try again *)
(* later.": a date without imagery is not passed over for good.            *)
NoDateIsSkipped ==
  \A d \in Dates :
    recorded # <<>> /\ recorded[1] < d /\ d < last_processed => d \in RecordedDates
=============================================================================
