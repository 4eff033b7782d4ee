----------------------------- MODULE StoresProofs -----------------------------
(***************************************************************************)
(* What is in the stores whenever imagery and model files appear and       *)
(* wherever jobs die: of the snow job, however many days it runs and       *)
(* however far back the first one goes; of C-Haines, for any number of     *)
(* environments that write to the bucket, of runs and of predictions.      *)
(***************************************************************************)
EXTENDS MCStores, TLAPS, WellFoundedInduction

\* The date recorded last: the one the job's query finds.
Latest == recorded[Len(recorded)]

\* No job is sent further back than there are days, nor works on the future.
JobDates ==
  /\ Backfill < today
  /\ pc # "idle" => /\ next \in Dates /\ next < until /\ until <= today
                    /\ recorded # <<>> => Latest < next

\* What a job has stored of the date it works on.
StoredSoFar ==
  /\ pc = "pmtiles" => next \in clipped
  /\ pc = "record" => next \in clipped \intersect tiles
  /\ tiles \subseteq clipped /\ clipped \subseteq available

\* Of the dates after the last recorded one, a job leaves none behind it that
\* has a raster: those it has passed over had no imagery.
NothingLeftBehind ==
  /\ pc # "idle" /\ recorded # <<>> =>
       \A d \in clipped : Latest < d => next <= d
  /\ recorded # <<>> =>
       \A d \in clipped : recorded[1] <= d => (d \in RecordedDates \/ Latest < d)

IInv ==
  /\ TypeOK /\ JobDates /\ StoredSoFar
  /\ RecordedDatesAreStored /\ RecordedInOrder /\ NothingLeftBehind
-----------------------------------------------------------------------------
(* Of dates in ascending order the query's answer is the last one.         *)
LEMMA QueryFindsLatest ==
  ASSUME TypeOK, RecordedInOrder, recorded # <<>>
  PROVE  /\ last_processed = Latest /\ Latest \in RecordedDates /\ Latest \in Dates
         /\ \A e \in RecordedDates : e <= Latest
<1>1. /\ recorded \in Seq(Dates) /\ Len(recorded) \in Nat \ {0}
      /\ DOMAIN recorded = 1 .. Len(recorded)
  BY DEF TypeOK
<1>2. Latest \in RecordedDates /\ Latest \in Dates
  BY <1>1 DEF Latest, RecordedDates
<1>3. ASSUME NEW e \in RecordedDates PROVE e <= Latest
  <2>1. PICK i \in DOMAIN recorded : e = recorded[i]
    BY DEF RecordedDates
  <2>2. CASE i = Len(recorded)
    BY <2>1, <2>2, <1>2, BoundsAssumption DEF Latest, Dates
  <2>3. CASE i < Len(recorded)
    <3>1. Len(recorded) \in DOMAIN recorded
      BY <1>1
    <3>2. recorded[i] < recorded[Len(recorded)]
      BY <2>1, <2>3, <3>1 DEF RecordedInOrder
    <3>3. recorded[i] \in Int /\ recorded[Len(recorded)] \in Int
      BY <1>1, <2>1, <3>1, BoundsAssumption DEF Dates
    <3> QED
      BY <2>1, <3>2, <3>3 DEF Latest
  <2> QED
    BY <1>1, <2>1, <2>2, <2>3
<1>4. RecordedDates \subseteq Int
  BY <1>1, BoundsAssumption DEF RecordedDates, Dates
<1>5. \A d \in RecordedDates : (\A e \in RecordedDates : e <= d) => d = Latest
  BY <1>2, <1>3, <1>4
<1>6. last_processed = CHOOSE d \in RecordedDates : \A e \in RecordedDates : e <= d
  BY DEF last_processed
<1>7. last_processed = Latest
  BY <1>2, <1>3, <1>5, <1>6
<1> QED
  BY <1>2, <1>3, <1>7

(* A row that is added is the latest, and the first one only of none.      *)
LEMMA RowAdded ==
  ASSUME TypeOK, next \in Dates, recorded' = Append(recorded, next)
  PROVE  /\ recorded' \in Seq(Dates) /\ recorded' # <<>>
         /\ Latest' = next
         /\ RecordedDates' = RecordedDates \union {next}
         /\ recorded'[1] = IF recorded = <<>> THEN next ELSE recorded[1]
         /\ DOMAIN recorded' = DOMAIN recorded \union {Len(recorded) + 1}
         /\ \A i \in DOMAIN recorded : recorded'[i] = recorded[i]
         /\ recorded'[Len(recorded) + 1] = next
<1>1. /\ recorded \in Seq(Dates) /\ Len(recorded) \in Nat
      /\ DOMAIN recorded = 1 .. Len(recorded)
  BY DEF TypeOK
<1>2. /\ recorded' \in Seq(Dates) /\ recorded' # <<>>
      /\ Len(recorded') = Len(recorded) + 1
      /\ DOMAIN recorded' = 1 .. (Len(recorded) + 1)
  BY <1>1
<1>3. /\ \A i \in DOMAIN recorded : recorded'[i] = recorded[i]
      /\ recorded'[Len(recorded) + 1] = next
  BY <1>1
<1>4. DOMAIN recorded' = DOMAIN recorded \union {Len(recorded) + 1}
  BY <1>1, <1>2
<1>5. RecordedDates' = RecordedDates \union {next}
  BY <1>3, <1>4 DEF RecordedDates
<1>6. recorded'[1] = IF recorded = <<>> THEN next ELSE recorded[1]
  BY <1>1
<1> QED
  BY <1>2, <1>3, <1>4, <1>5, <1>6 DEF Latest

(* The first job starts within the days there are, a later one after what  *)
(* is recorded.                                                            *)
LEMMA FirstDateIsNew ==
  ASSUME TypeOK, RecordedInOrder, Backfill < today
  PROVE  /\ FirstDate \in Int /\ 1 <= FirstDate
         /\ recorded # <<>> => FirstDate = Latest + 1
<1>1. today \in Dates
  BY DEF TypeOK
<1>2. CASE recorded = <<>>
  <2>1. FirstDate = today - Backfill
    BY <1>2 DEF FirstDate, last_processed
  <2> QED
    BY <1>1, <1>2, <2>1, BoundsAssumption DEF Dates
<1>3. CASE recorded # <<>>
  <2>1. last_processed = Latest /\ Latest \in Dates
    BY <1>3, QueryFindsLatest
  <2>2. Latest \in Int /\ 1 <= Latest
    BY <2>1, BoundsAssumption DEF Dates
  <2>3. FirstDate = Latest + 1
    BY <2>1, <2>2 DEF FirstDate
  <2> QED
    BY <1>3, <2>2, <2>3
<1> QED
  BY <1>2, <1>3

(* The job's date moves on by one and stays before its end.                *)
LEMMA AdvanceStaysInRange ==
  ASSUME TypeOK, JobDates, pc # "idle", Advance
  PROVE  /\ next' = next + 1 /\ next' \in 0 .. LastDay
         /\ pc' \in {"idle", "download"}
         /\ pc' # "idle" => next' \in Dates /\ next' < until
<1>1. /\ next \in Dates /\ next < until /\ until \in 0 .. LastDay
      /\ next' = next + 1 /\ pc' = IF next + 1 < until THEN "download" ELSE "idle"
  BY DEF TypeOK, JobDates, Advance
<1> QED
  BY <1>1, BoundsAssumption DEF Dates
-----------------------------------------------------------------------------
LEMMA InitIInv == Init => IInv
<1> SUFFICES ASSUME Init PROVE IInv
  OBVIOUS
<1>1. TypeOK
  BY BoundsAssumption DEF Init, TypeOK, Dates
<1>2. JobDates /\ StoredSoFar /\ NothingLeftBehind
  BY BoundsAssumption DEF Init, JobDates, StoredSoFar, NothingLeftBehind
<1>3. RecordedDatesAreStored /\ RecordedInOrder
  BY DEF Init, RecordedDatesAreStored, RecordedInOrder, RecordedDates
<1> QED
  BY <1>1, <1>2, <1>3 DEF IInv

(* A step that adds no row leaves what is said of the rows as it was.      *)
LEMMA RowsUnchanged ==
  ASSUME recorded' = recorded
  PROVE  /\ RecordedDates' = RecordedDates /\ Latest' = Latest
         /\ RecordedInOrder' <=> RecordedInOrder
  BY DEF RecordedDates, Latest, RecordedInOrder

LEMMA DayPassesIInv == ASSUME IInv, DayPasses PROVE IInv'
<1>1. /\ today' = today + 1 /\ today < LastDay
      /\ UNCHANGED <<available, clipped, tiles, recorded, pc, next, until, kills>>
  BY DEF DayPasses, store
<1>2. RecordedDates' = RecordedDates /\ Latest' = Latest /\ RecordedInOrder'
  BY <1>1, RowsUnchanged DEF IInv
<1>3. TypeOK'
  BY <1>1, BoundsAssumption DEF IInv, TypeOK, Dates
<1>4. JobDates'
  BY <1>1, <1>2, BoundsAssumption DEF IInv, TypeOK, JobDates, Dates
<1>5. StoredSoFar' /\ RecordedDatesAreStored' /\ NothingLeftBehind'
  BY <1>1, <1>2 DEF IInv, StoredSoFar, RecordedDatesAreStored, NothingLeftBehind
<1> QED
  BY <1>2, <1>3, <1>4, <1>5 DEF IInv

LEMMA PublishIInv == ASSUME IInv, NEW d \in Dates, Publish(d) PROVE IInv'
<1>1. /\ available' = available \union {d}
      /\ UNCHANGED <<today, clipped, tiles, recorded, pc, next, until, kills>>
  BY DEF Publish, store
<1>2. RecordedDates' = RecordedDates /\ Latest' = Latest /\ RecordedInOrder'
  BY <1>1, RowsUnchanged DEF IInv
<1>3. TypeOK'
  BY <1>1 DEF IInv, TypeOK
<1>4. JobDates' /\ StoredSoFar' /\ RecordedDatesAreStored' /\ NothingLeftBehind'
  BY <1>1, <1>2
  DEF IInv, JobDates, StoredSoFar, RecordedDatesAreStored, NothingLeftBehind
<1> QED
  BY <1>2, <1>3, <1>4 DEF IInv

LEMMA JobStartsIInv == ASSUME IInv, JobStarts PROVE IInv'
<1>1. /\ pc = "idle" /\ FirstDate < today
      /\ pc' = "download" /\ next' = FirstDate /\ until' = today
      /\ UNCHANGED <<today, available, clipped, tiles, recorded, kills>>
  BY DEF JobStarts, store
<1>2. RecordedDates' = RecordedDates /\ Latest' = Latest /\ RecordedInOrder'
  BY <1>1, RowsUnchanged DEF IInv
<1>3. /\ FirstDate \in Int /\ 1 <= FirstDate
      /\ recorded # <<>> => FirstDate = Latest + 1
  BY FirstDateIsNew DEF IInv, JobDates
<1>4. today \in Int /\ today <= LastDay /\ 1 <= today
  BY BoundsAssumption DEF IInv, TypeOK, Dates
<1>5. FirstDate \in Dates /\ FirstDate \in 0 .. LastDay
  BY <1>1, <1>3, <1>4, BoundsAssumption DEF Dates
<1>6. recorded # <<>> => Latest \in Int
  BY QueryFindsLatest, BoundsAssumption DEF IInv, Dates
<1>7. TypeOK'
  BY <1>1, <1>4, <1>5, BoundsAssumption DEF IInv, TypeOK
<1>8. JobDates'
  BY <1>1, <1>2, <1>3, <1>4, <1>5, <1>6 DEF IInv, JobDates
<1>9. StoredSoFar' /\ RecordedDatesAreStored'
  BY <1>1, <1>2 DEF IInv, StoredSoFar, RecordedDatesAreStored
<1>10. NothingLeftBehind'
  <2>1. clipped \subseteq Int
    BY BoundsAssumption DEF IInv, TypeOK, Dates
  <2> QED
    BY <1>1, <1>2, <1>3, <1>6, <2>1 DEF IInv, NothingLeftBehind
<1> QED
  BY <1>2, <1>7, <1>8, <1>9, <1>10 DEF IInv

LEMMA UnavailableIInv == ASSUME IInv, Unavailable PROVE IInv'
<1>1. /\ pc = "download" /\ next \notin available /\ Advance
      /\ UNCHANGED <<today, available, clipped, tiles, recorded, until, kills>>
  BY DEF Unavailable, store
<1>2. RecordedDates' = RecordedDates /\ Latest' = Latest /\ RecordedInOrder'
  BY <1>1, RowsUnchanged DEF IInv
<1>3. /\ next' = next + 1 /\ next' \in 0 .. LastDay
      /\ pc' \in {"idle", "download"}
      /\ pc' # "idle" => next' \in Dates /\ next' < until
  BY <1>1, AdvanceStaysInRange DEF IInv
<1>4. recorded # <<>> => Latest \in Int
  BY QueryFindsLatest, BoundsAssumption DEF IInv, Dates
<1>5. next \in Int /\ next \in Dates
  BY <1>1, BoundsAssumption DEF IInv, TypeOK, JobDates
<1>6. TypeOK'
  BY <1>1, <1>3 DEF IInv, TypeOK
<1>7. JobDates'
  BY <1>1, <1>2, <1>3, <1>4, <1>5 DEF IInv, JobDates
<1>8. StoredSoFar' /\ RecordedDatesAreStored'
  BY <1>1, <1>2, <1>3 DEF IInv, StoredSoFar, RecordedDatesAreStored
<1>9. NothingLeftBehind'
  <2>1. clipped \subseteq Int /\ next \notin clipped
    BY <1>1, BoundsAssumption DEF IInv, TypeOK, StoredSoFar, Dates
  <2>2. ASSUME recorded # <<>>, NEW d \in clipped, Latest < d PROVE next + 1 <= d
    <3>1. next <= d
      BY <1>1, <2>2 DEF IInv, NothingLeftBehind
    <3> QED
      BY <2>1, <3>1, <1>5
  <2> QED
    BY <1>1, <1>2, <1>3, <2>2 DEF IInv, NothingLeftBehind
<1> QED
  BY <1>2, <1>6, <1>7, <1>8, <1>9 DEF IInv

LEMMA DownloadIInv == ASSUME IInv, download_and_clip PROVE IInv'
<1>1. /\ pc = "download" /\ next \in available /\ clipped' = clipped \union {next}
      /\ pc' = "pmtiles"
      /\ UNCHANGED <<today, available, tiles, recorded, next, until, kills>>
  BY DEF download_and_clip
<1>2. RecordedDates' = RecordedDates /\ Latest' = Latest /\ RecordedInOrder'
  BY <1>1, RowsUnchanged DEF IInv
<1>3. /\ next \in Dates /\ next \in Int
      /\ recorded # <<>> => Latest < next
  BY <1>1, BoundsAssumption DEF IInv, JobDates, Dates
<1>4. TypeOK'
  BY <1>1, <1>3 DEF IInv, TypeOK
<1>5. JobDates' /\ StoredSoFar' /\ RecordedDatesAreStored'
  BY <1>1, <1>2 DEF IInv, JobDates, StoredSoFar, RecordedDatesAreStored
<1>6. NothingLeftBehind'
  BY <1>1, <1>2, <1>3 DEF IInv, NothingLeftBehind
<1> QED
  BY <1>2, <1>4, <1>5, <1>6 DEF IInv

LEMMA PmtilesIInv == ASSUME IInv, create_pmtiles_layer PROVE IInv'
<1>1. /\ pc = "pmtiles" /\ tiles' = tiles \union {next} /\ pc' = "record"
      /\ UNCHANGED <<today, available, clipped, recorded, next, until, kills>>
  BY DEF create_pmtiles_layer
<1>2. RecordedDates' = RecordedDates /\ Latest' = Latest /\ RecordedInOrder'
  BY <1>1, RowsUnchanged DEF IInv
<1>3. next \in Dates /\ next \in clipped
  BY <1>1 DEF IInv, JobDates, StoredSoFar
<1>4. TypeOK'
  BY <1>1, <1>3 DEF IInv, TypeOK
<1>5. JobDates' /\ StoredSoFar' /\ RecordedDatesAreStored'
  BY <1>1, <1>2, <1>3 DEF IInv, JobDates, StoredSoFar, RecordedDatesAreStored
<1>6. NothingLeftBehind'
  BY <1>1, <1>2 DEF IInv, NothingLeftBehind
<1> QED
  BY <1>2, <1>4, <1>5, <1>6 DEF IInv

LEMMA SaveIInv == ASSUME IInv, save_processed_snow PROVE IInv'
<1>1. /\ pc = "record" /\ recorded' = Append(recorded, next) /\ Advance
      /\ UNCHANGED <<today, available, clipped, tiles, until, kills>>
  BY DEF save_processed_snow, Recordable, store
<1>2. /\ next' = next + 1 /\ next' \in 0 .. LastDay
      /\ pc' \in {"idle", "download"}
      /\ pc' # "idle" => next' \in Dates /\ next' < until
  BY <1>1, AdvanceStaysInRange DEF IInv
<1>3. /\ next \in Dates /\ next \in Int /\ next \in clipped \intersect tiles
      /\ recorded # <<>> => Latest < next
  BY <1>1, BoundsAssumption DEF IInv, JobDates, StoredSoFar, Dates
<1>4. /\ recorded' \in Seq(Dates) /\ recorded' # <<>> /\ Latest' = next
      /\ RecordedDates' = RecordedDates \union {next}
      /\ recorded'[1] = IF recorded = <<>> THEN next ELSE recorded[1]
      /\ DOMAIN recorded' = DOMAIN recorded \union {Len(recorded) + 1}
      /\ \A i \in DOMAIN recorded : recorded'[i] = recorded[i]
      /\ recorded'[Len(recorded) + 1] = next
  BY <1>1, <1>3, RowAdded DEF IInv
<1>5. TypeOK'
  BY <1>1, <1>2, <1>4 DEF IInv, TypeOK
<1>6. JobDates'
  BY <1>1, <1>2, <1>3, <1>4 DEF IInv, JobDates
<1>7. StoredSoFar' /\ RecordedDatesAreStored'
  BY <1>1, <1>2, <1>3, <1>4 DEF IInv, StoredSoFar, RecordedDatesAreStored
<1>8. RecordedInOrder'
  <2> SUFFICES ASSUME NEW i \in DOMAIN recorded', NEW j \in DOMAIN recorded', i < j
               PROVE  recorded'[i] < recorded'[j]
    BY DEF RecordedInOrder
  <2>1. Len(recorded) \in Nat /\ DOMAIN recorded = 1 .. Len(recorded)
    BY DEF IInv, TypeOK
  <2>2. i \in DOMAIN recorded
    BY <1>4, <2>1
  <2>3. CASE j \in DOMAIN recorded
    BY <1>4, <2>2, <2>3 DEF IInv, RecordedInOrder
  <2>4. CASE j = Len(recorded) + 1
    <3>1. recorded # <<>> /\ recorded[i] \in RecordedDates
      BY <2>1, <2>2 DEF RecordedDates
    <3>2. recorded[i] <= Latest /\ Latest \in Int /\ recorded[i] \in Int
      BY <3>1, <2>2, QueryFindsLatest, BoundsAssumption DEF IInv, TypeOK, Dates
    <3>3. recorded[i] < next
      BY <1>3, <3>1, <3>2
    <3> QED
      BY <1>4, <2>2, <2>4, <3>3
  <2> QED
    BY <1>4, <2>3, <2>4
<1>9. NothingLeftBehind'
  <2>1. clipped \subseteq Int
    BY BoundsAssumption DEF IInv, TypeOK, Dates
  <2>2. ASSUME NEW d \in clipped, next < d PROVE next + 1 <= d
    BY <1>3, <2>1, <2>2
  <2>3. ASSUME NEW d \in clipped, recorded'[1] <= d
        PROVE  d \in RecordedDates' \/ next < d
    <3>1. CASE recorded = <<>>
      BY <1>3, <1>4, <2>1, <2>3, <3>1
    <3>2. CASE recorded # <<>>
      <4>1. d \in RecordedDates \/ Latest < d
        BY <1>4, <2>3, <3>2 DEF IInv, NothingLeftBehind
      <4>2. Latest < d => next <= d
        BY <1>1, <3>2 DEF IInv, NothingLeftBehind
      <4> QED
        BY <1>3, <1>4, <2>1, <4>1, <4>2
    <3> QED
      BY <3>1, <3>2
  <2> QED
    BY <1>1, <1>2, <1>4, <2>2, <2>3 DEF NothingLeftBehind
<1> QED
  BY <1>5, <1>6, <1>7, <1>8, <1>9 DEF IInv

LEMMA JobFailsIInv == ASSUME IInv, JobFails PROVE IInv'
<1>1. /\ kills < MaxKills /\ kills' = kills + 1 /\ pc' = "idle"
      /\ UNCHANGED <<today, available, clipped, tiles, recorded, next, until>>
  BY DEF JobFails, store
<1>2. RecordedDates' = RecordedDates /\ Latest' = Latest /\ RecordedInOrder'
  BY <1>1, RowsUnchanged DEF IInv
<1>3. TypeOK'
  BY <1>1, BoundsAssumption DEF IInv, TypeOK
<1>4. JobDates' /\ StoredSoFar' /\ RecordedDatesAreStored' /\ NothingLeftBehind'
  BY <1>1, <1>2
  DEF IInv, JobDates, StoredSoFar, RecordedDatesAreStored, NothingLeftBehind
<1> QED
  BY <1>2, <1>3, <1>4 DEF IInv

LEMMA NextIInv == IInv /\ [Next]_vars => IInv'
<1> SUFFICES ASSUME IInv, [Next]_vars PROVE IInv'
  OBVIOUS
<1>1. CASE UNCHANGED vars
  <2>1. /\ UNCHANGED <<today, available, clipped, tiles, recorded, pc, next, until, kills>>
        /\ RecordedDates' = RecordedDates /\ Latest' = Latest /\ RecordedInOrder'
    BY <1>1, RowsUnchanged DEF IInv, vars, store
  <2> QED
    BY <2>1 DEF IInv, TypeOK, JobDates, StoredSoFar, RecordedDatesAreStored,
                NothingLeftBehind
<1>2. CASE Next
  BY <1>2, DayPassesIInv, PublishIInv, JobStartsIInv, UnavailableIInv, DownloadIInv,
     PmtilesIInv, SaveIInv, JobFailsIInv DEF Next, JobStep
<1> QED
  BY <1>1, <1>2

LEMMA Inductive == Spec => []IInv
  BY InitIInv, NextIInv, PTL DEF Spec
-----------------------------------------------------------------------------
(* Every variable keeps its type: no job leaves the days there are.        *)
THEOREM TypeCorrect == Spec => []TypeOK
<1>1. IInv => TypeOK
  BY DEF IInv
<1> QED
  BY <1>1, Inductive, PTL

(* A recorded date has its raster and its pmtiles (_run_viirs_snow stores, *)
(* then records), wherever jobs were killed.                               *)
THEOREM StoredBeforeRecorded == Spec => []RecordedDatesAreStored
<1>1. IInv => RecordedDatesAreStored
  BY DEF IInv
<1> QED
  BY <1>1, Inductive, PTL

(* No date has two rows in processed_snow, although each job does again    *)
(* what the last one did not record.                                       *)
THEOREM OncePerDate == Spec => []RecordedInOrder
<1>1. IInv => RecordedInOrder
  BY DEF IInv
<1> QED
  BY <1>1, Inductive, PTL

(* A raster a killed job left is of a date a later job does again.         *)
THEOREM LeftoversAreRedone == Spec => []UnrecordedRastersAreRedone
<1>1. IInv => UnrecordedRastersAreRedone
  <2> SUFFICES ASSUME IInv, recorded # <<>>, NEW d \in clipped \union tiles,
                      recorded[1] <= d
               PROVE  d \in RecordedDates \/ last_processed < d
    BY DEF UnrecordedRastersAreRedone
  <2>1. d \in clipped /\ last_processed = Latest
    BY QueryFindsLatest DEF IInv, StoredSoFar
  <2> QED
    BY <2>1 DEF IInv, NothingLeftBehind
<1> QED
  BY <1>1, Inductive, PTL
-----------------------------------------------------------------------------

(* A weather model has runs, and runs have predictions.                    *)
HainesParameters ==
  /\ Predictions \in Nat \ {0}
  /\ RunHours \in Seq(0 .. 23) /\ Len(RunHours) \in Nat \ {0}
  /\ FirstHour \in Nat /\ LastHour \in Nat /\ FirstHour <= LastHour
  /\ Step \in Nat /\ MaxFaults \in Nat

Times == FirstHour .. LastHour
Count == Len(RunHours) * Predictions
-----------------------------------------------------------------------------
(* Counting through the predictions of a run, and then those of the next.  *)
LEMMA Division ==
  ASSUME NEW n \in Nat, NEW d \in Nat \ {0}
  PROVE  n \div d \in Nat /\ n % d \in 0 .. d - 1 /\ n = d * (n \div d) + (n % d)
<1>1. n \div d \in Int /\ n % d \in 0 .. d - 1 /\ n = d * (n \div d) + (n % d)
  OBVIOUS
<1>2. \A x \in Int : x <= -1 => d * x <= -d
  OBVIOUS
<1> QED
  BY <1>1, <1>2

LEMMA Positions ==
  ASSUME NEW d \in Nat \ {0}, NEW l \in Nat, NEW m \in Nat, m < l * d
  PROVE  /\ m \div d \in 0 .. l - 1 /\ m % d \in 0 .. d - 1
         /\ \/ (m + 1) % d = 0
            \/ (m + 1) % d = (m % d) + 1 /\ (m + 1) \div d = m \div d
<1> DEFINE q == m \div d
           r == m % d
           q1 == (m + 1) \div d
           r1 == (m + 1) % d
<1>2. /\ q \in Nat /\ r \in 0 .. d - 1 /\ m = d * q + r
      /\ q1 \in Nat /\ r1 \in 0 .. d - 1 /\ m + 1 = d * q1 + r1
  <2>1. m + 1 \in Nat
    OBVIOUS
  <2> QED
    BY <2>1, Division
<1> HIDE DEF q, r, q1, r1
<1>3. \A n \in Nat \ {0}, x, y \in Int : -n < n * (x - y) /\ n * (x - y) < n => x = y
  OBVIOUS
<1>4. \A n, x, y \in Int : n * (x - y) = n * x - n * y /\ n * x \in Int
  OBVIOUS
<1>5. d * (q1 - q) = (r + 1) - r1
  BY <1>2, <1>4
<1>6. q < l
  <2>1. \A n, x, y \in Nat : x >= y => n * x >= y * n
    OBVIOUS
  <2> QED
    BY <1>2, <2>1
<1>7. r1 = 0 \/ (q1 = q /\ r1 = r + 1)
  <2> SUFFICES ASSUME r1 # 0 PROVE q1 = q /\ r1 = r + 1
    OBVIOUS
  <2>1. -d < d * (q1 - q) /\ d * (q1 - q) < d
    BY <1>2, <1>5
  <2>2. q1 = q
    BY <1>2, <1>3, <2>1
  <2> QED
    BY <1>2, <2>2
<1> QED
  BY <1>2, <1>6, <1>7 DEF q, r, q1, r1

LEMMA Counted == ASSUME HainesParameters PROVE Count \in Nat \ {0}
<1>1. \A x, y \in Nat \ {0} : x * y \in Nat \ {0}
  OBVIOUS
<1> QED
  BY <1>1 DEF HainesParameters, Count

LEMMA PayloadsInOrder ==
  ASSUME HainesParameters, NEW at \in Times, NEW i \in 1 .. Count
  PROVE  LET its == Haines!Payloads(at)
         IN  /\ its[i].run \in Haines!Runs /\ its[i].prediction \in 0 .. Predictions - 1
             /\ i = 1 => its[i].prediction = 0
             /\ i # Count => \/ its[i + 1].prediction = 0
                             \/ /\ its[i + 1].run = its[i].run
                                /\ its[i + 1].prediction = its[i].prediction + 1
<1> DEFINE P(n) == Haines!make_model_run_download_urls(at, RunHours[(n - 1) \div Predictions + 1], (n - 1) % Predictions)
           its == Haines!Payloads(at)
<1>1. \A n \in 1 .. Count : its[n] = P(n)
  BY DEF Haines!Payloads, Count
<1>2. \A n : /\ P(n).prediction = (n - 1) % Predictions
             /\ P(n).run = Haines!adjust_model_day(at, RunHours[(n - 1) \div Predictions + 1])
  BY DEF Haines!make_model_run_download_urls
<1> HIDE DEF P, its
<1>3. Count \in Nat \ {0} /\ Predictions \in Nat \ {0} /\ Len(RunHours) \in Nat
  BY Counted DEF HainesParameters
<1>4. /\ (i - 1) \div Predictions \in 0 .. Len(RunHours) - 1
      /\ (i - 1) % Predictions \in 0 .. Predictions - 1
      /\ \/ ((i - 1) + 1) % Predictions = 0
         \/ /\ ((i - 1) + 1) % Predictions = ((i - 1) % Predictions) + 1
            /\ ((i - 1) + 1) \div Predictions = (i - 1) \div Predictions
  <2>1. i - 1 \in Nat /\ i - 1 < Len(RunHours) * Predictions
    BY <1>3 DEF Count
  <2> QED
    BY <1>3, <2>1, Positions
<1>5. its[i].run \in Haines!Runs
  <2>1. (i - 1) \div Predictions + 1 \in DOMAIN RunHours
    BY <1>3, <1>4 DEF HainesParameters
  <2> QED
    BY <1>1, <1>2, <2>1 DEF Haines!Runs, Times
<1>6. its[i].prediction = (i - 1) % Predictions
  BY <1>1, <1>2
<1>7. i = 1 => its[i].prediction = 0
  BY <1>3, <1>6
<1>8. ASSUME i # Count
      PROVE  \/ its[i + 1].prediction = 0
             \/ its[i + 1].run = its[i].run /\ its[i + 1].prediction = its[i].prediction + 1
  <2>1. i + 1 \in 1 .. Count /\ (i + 1) - 1 = (i - 1) + 1
    BY <1>3, <1>8
  <2>2. /\ its[i + 1].prediction = ((i - 1) + 1) % Predictions
        /\ its[i + 1].run = Haines!adjust_model_day(at, RunHours[((i - 1) + 1) \div Predictions + 1])
    BY <1>1, <1>2, <2>1
  <2>3. its[i].run = Haines!adjust_model_day(at, RunHours[(i - 1) \div Predictions + 1])
    BY <1>1, <1>2
  <2> QED
    BY <1>4, <1>6, <2>2, <2>3
<1> QED
  BY <1>4, <1>5, <1>6, <1>7, <1>8 DEF its
-----------------------------------------------------------------------------
(* The inductive invariant.  Where a job is at work on a prediction, both  *)
(* objects of all earlier predictions of the run are stored, and of its own*)
(* the ones that are not left to save.                                     *)
PayloadOf(w) == Haines!Payloads(w.at)[w.i]

WorkOk(w, stored) ==
  /\ w.saving # {} => w.i # 0
  /\ w.i # 0 =>
       /\ w.at \in Times
       /\ \A type \in Haines!ObjectType, q \in 0 .. PayloadOf(w).prediction - 1 :
            [type |-> type, run |-> PayloadOf(w).run, prediction |-> q] \in stored
       /\ w.saving # {} => \A type \in Haines!ObjectType \ w.saving : Haines!Object(type, PayloadOf(w)) \in stored

NoGap(o, stored) ==
  \A type \in Haines!ObjectType, q \in 0 .. o.prediction - 1 :
    [type |-> type, run |-> o.run, prediction |-> q] \in stored

HainesInv ==
  /\ Haines!TypeOK
  /\ \A j \in Environments : WorkOk(job[j], objects)
  /\ \A o \in objects : NoGap(o, objects)

Work0 == [at : Times \union {None}, i : 0 .. Count, saving : SUBSET Haines!ObjectType]

LEMMA IdleIsOk ==
  ASSUME HainesParameters, NEW stored PROVE Haines!Idle \in Work0 /\ WorkOk(Haines!Idle, stored)
<1>1. Haines!Idle \in Work0
  BY Counted DEF Haines!Idle, Work0
<1> QED
  BY <1>1 DEF Haines!Idle, WorkOk

LEMMA HainesInitially == ASSUME HainesParameters, Haines!Init PROVE HainesInv
<1>1. Haines!TypeOK
  BY IdleIsOk, SMTT(30) DEF Haines!Init, Haines!TypeOK, HainesParameters, Work0, Times, Count
<1> QED
  BY <1>1, IdleIsOk DEF Haines!Init, HainesInv

(* A job that has both objects of a prediction goes on to the next.        *)
LEMMA AdvancedIsOk ==
  ASSUME HainesParameters, NEW j \in Environments, NEW stored, job[j] \in Work0, job[j].i # 0,
         WorkOk(job[j], stored), \A type \in Haines!ObjectType : Haines!Object(type, PayloadOf(job[j])) \in stored
  PROVE  Haines!Advanced(j) \in Work0 /\ WorkOk(Haines!Advanced(j), stored)
<1> DEFINE w == job[j]
           p == PayloadOf(w)
<1>1. CASE w.i = Count
  BY <1>1, IdleIsOk DEF Haines!Advanced, Count
<1>2. CASE w.i # Count
  <2> DEFINE v == [w EXCEPT !.i = @ + 1, !.saving = {}]
             n == PayloadOf(v)
  <2>1. v = Haines!Advanced(j)
    BY <1>2 DEF Haines!Advanced, Count
  <2>2. w.at \in Times /\ w.i \in 1 .. Count
    <3>1. w.at \in Times
      BY DEF WorkOk
    <3>2. w.i \in 0 .. Count /\ w.i # 0 /\ Count \in Nat
      BY Counted DEF Work0
    <3> QED
      BY <3>1, <3>2
  <2>3. v \in Work0 /\ v.at = w.at /\ v.i = w.i + 1 /\ v.saving = {}
    <3>1. v.at = w.at /\ v.i = w.i + 1 /\ v.saving = {}
      BY DEF Work0
    <3>2. DOMAIN v = {"at", "i", "saving"} /\ v = [x \in DOMAIN v |-> v[x]]
      BY DEF Work0
    <3>3. w.i + 1 \in 0 .. Count /\ w.at \in Times \union {None} /\ {} \in SUBSET Haines!ObjectType
      BY <1>2, <2>2, Counted
    <3> HIDE DEF v
    <3>4. v.at \in Times \union {None} /\ v.i \in 0 .. Count /\ v.saving \in SUBSET Haines!ObjectType
      BY <3>1, <3>3
    <3>5. v \in Work0
      BY <3>2, <3>4 DEF Work0
    <3> QED
      BY <3>1, <3>5
  <2>4. /\ p.prediction \in 0 .. Predictions - 1
        /\ n.prediction = 0 \/ (n.run = p.run /\ n.prediction = p.prediction + 1)
    BY <1>2, <2>2, <2>3, PayloadsInOrder DEF PayloadOf
  <2>5. \A type \in Haines!ObjectType, q \in 0 .. n.prediction - 1 :
          [type |-> type, run |-> n.run, prediction |-> q] \in stored
    <3> SUFFICES ASSUME NEW type \in Haines!ObjectType, NEW q \in 0 .. n.prediction - 1
                 PROVE  [type |-> type, run |-> n.run, prediction |-> q] \in stored
      OBVIOUS
    <3>1. n.run = p.run /\ n.prediction = p.prediction + 1
      BY <2>4
    <3>2. q \in 0 .. p.prediction - 1 \/ q = p.prediction
      BY <2>4, <3>1
    <3>3. Haines!Object(type, p) = [type |-> type, run |-> p.run, prediction |-> p.prediction]
      BY DEF Haines!Object
    <3> QED
      BY <3>1, <3>2, <3>3 DEF WorkOk
  <2> HIDE DEF v, n
  <2>6. WorkOk(v, stored)
    BY <2>2, <2>3, <2>5 DEF WorkOk, n
  <2> QED
    BY <2>1, <2>3, <2>6
<1> QED
  BY <1>1, <1>2

(* What stays true while objects are added.                                *)
LEMMA Grows ==
  ASSUME NEW S, NEW T, S \subseteq T
  PROVE  /\ \A w : WorkOk(w, S) => WorkOk(w, T)
         /\ \A o : NoGap(o, S) => NoGap(o, T)
  BY DEF WorkOk, NoGap

(* A step of one job.                                                      *)
LEMMA OneJob ==
  ASSUME HainesParameters, HainesInv, NEW j \in Environments, NEW w \in Work0,
         job' = [job EXCEPT ![j] = w], WorkOk(w, objects'),
         objects \subseteq objects',
         objects' \subseteq [type : Haines!ObjectType, run : Haines!Runs, prediction : 0 .. Predictions - 1],
         \A o \in objects' \ objects : NoGap(o, objects'),
         UNCHANGED <<now, published>>, faults' \in 0 .. MaxFaults
  PROVE  HainesInv'
<1>1. job \in [Environments -> Work0]
  BY DEF HainesInv, Haines!TypeOK, Work0, Times, Count
<1>2. job' \in [Environments -> Work0]
  BY <1>1
<1>3. Haines!TypeOK'
  BY <1>2 DEF HainesInv, Haines!TypeOK, Work0, Times, Count
<1>4. \A k \in Environments : WorkOk(job'[k], objects')
  <2> SUFFICES ASSUME NEW k \in Environments PROVE WorkOk(job'[k], objects')
    OBVIOUS
  <2>1. CASE k = j
    BY <1>1, <2>1
  <2>2. CASE k # j
    BY <1>1, <2>2, Grows DEF HainesInv
  <2> QED
    BY <2>1, <2>2
<1>5. \A o \in objects' : NoGap(o, objects')
  BY Grows DEF HainesInv
<1> QED
  BY <1>3, <1>4, <1>5 DEF HainesInv

LEMMA Saving ==
  ASSUME HainesParameters, HainesInv, NEW j \in Environments, NEW type \in Haines!ObjectType, Haines!Save(j, type)
  PROVE  HainesInv'
<1> DEFINE w == job[j]
           p == PayloadOf(w)
           after == IF w.saving = {type} THEN Haines!Advanced(j) ELSE [w EXCEPT !.saving = w.saving \ {type}]
<1>1. job \in [Environments -> Work0] /\ w \in Work0
  BY DEF HainesInv, Haines!TypeOK, Work0, Times, Count
<1>2. type \in w.saving /\ objects' = objects \union {Haines!Object(type, p)} /\ job' = [job EXCEPT ![j] = after]
  <2>1. type \in w.saving /\ objects' = objects \union {Haines!Object(type, p)}
    BY DEF Haines!Save, Haines!Payload, PayloadOf
  <2>2. job' = [job EXCEPT ![j] = after]
    BY DEF Haines!Save
  <2> QED
    BY <2>1, <2>2
<1>3. WorkOk(w, objects) /\ WorkOk(w, objects')
  BY <1>2, Grows DEF HainesInv
<1>4. w.i \in 1 .. Count /\ w.i # 0 /\ w.at \in Times
  <2>1. w.i # 0 /\ w.at \in Times
    BY <1>2, <1>3 DEF WorkOk
  <2>2. w.i \in 0 .. Count /\ Count \in Nat
    BY <1>1, Counted DEF Work0
  <2> QED
    BY <2>1, <2>2
<1>5. \A t \in Haines!ObjectType \ (w.saving \ {type}) : Haines!Object(t, p) \in objects'
  BY <1>2, <1>3, <1>4 DEF WorkOk
<1>6. after \in Work0 /\ WorkOk(after, objects')
  <2>1. CASE w.saving = {type}
    <3>1. \A t \in Haines!ObjectType : Haines!Object(t, p) \in objects'
      BY <1>5, <2>1
    <3>2. Haines!Advanced(j) \in Work0 /\ WorkOk(Haines!Advanced(j), objects')
      BY <1>1, <1>3, <1>4, <3>1, AdvancedIsOk
    <3> QED
      BY <2>1, <3>2
  <2>2. CASE w.saving # {type}
    <3> DEFINE v == [w EXCEPT !.saving = w.saving \ {type}]
    <3>0. v = [at |-> w.at, i |-> w.i, saving |-> w.saving \ {type}]
      <4> HIDE DEF w
      <4> QED
        BY <1>1 DEF Work0
    <3>1. v \in Work0
      BY <1>1, <3>0 DEF Work0
    <3>2. v.at = w.at /\ v.i = w.i /\ v.saving = w.saving \ {type} /\ v = after
      BY <2>2, <3>0
    <3>3. PayloadOf(v) = p
      BY <3>2 DEF PayloadOf
    <3>4. WorkOk(v, objects')
      BY <1>3, <1>4, <1>5, <3>2, <3>3 DEF WorkOk
    <3> QED
      BY <3>1, <3>2, <3>4
  <2> QED
    BY <2>1, <2>2
<1>7. p.run \in Haines!Runs /\ p.prediction \in 0 .. Predictions - 1
  BY <1>4, PayloadsInOrder DEF PayloadOf
<1>8. Haines!Object(type, p) \in [type : Haines!ObjectType, run : Haines!Runs, prediction : 0 .. Predictions - 1]
  BY <1>7 DEF Haines!Object
<1>9. NoGap(Haines!Object(type, p), objects')
  BY <1>3, <1>4 DEF NoGap, WorkOk, Haines!Object
<1>10. /\ objects \subseteq [type : Haines!ObjectType, run : Haines!Runs, prediction : 0 .. Predictions - 1]
       /\ faults' \in 0 .. MaxFaults /\ UNCHANGED <<now, published>>
  BY DEF Haines!Save, HainesInv, Haines!TypeOK
<1> HIDE DEF after, w
<1> QED
  BY <1>2, <1>6, <1>8, <1>9, <1>10, OneJob

(* Every step keeps the invariant.                                         *)
LEMMA HainesInductive ==
  ASSUME HainesParameters, HainesInv, [Haines!Next]_Haines!vars PROVE HainesInv'
<1>1. /\ Haines!TypeOK /\ job \in [Environments -> Work0] /\ \A j \in Environments : WorkOk(job[j], objects)
      /\ objects \subseteq [type : Haines!ObjectType, run : Haines!Runs, prediction : 0 .. Predictions - 1]
      /\ \A j \in Environments : Haines!Idle \in Work0 /\ WorkOk(Haines!Idle, objects)
  BY IdleIsOk DEF HainesInv, Haines!TypeOK, Work0, Times, Count
<1>2. CASE Haines!Tick
  BY <1>2 DEF Haines!Tick, HainesInv, Haines!TypeOK, HainesParameters
<1>3. ASSUME NEW run \in Haines!Runs, NEW p \in 0 .. Predictions - 1, Haines!Publish(run, p) PROVE HainesInv'
  BY <1>3 DEF Haines!Publish, HainesInv, Haines!TypeOK
<1>4. ASSUME NEW j \in Environments, Haines!JobStarts(j) PROVE HainesInv'
  <2> DEFINE w == [at |-> now, i |-> 1, saving |-> {}]
  <2>1. w \in Work0
    BY <1>1, Counted DEF Work0, Haines!TypeOK, Times
  <2>2. now \in Times /\ PayloadOf(w).prediction = 0
    BY <1>1, Counted, PayloadsInOrder DEF PayloadOf, Haines!TypeOK, Times
  <2>3. WorkOk(w, objects)
    BY <2>2 DEF WorkOk
  <2> HIDE DEF w
  <2> QED
    BY <1>1, <1>4, <2>1, <2>3, OneJob DEF Haines!JobStarts, Haines!TypeOK, w
<1>5. ASSUME NEW j \in Environments, Haines!Skip(j) PROVE HainesInv'
  <2>1. \A type \in Haines!ObjectType : Haines!Object(type, PayloadOf(job[j])) \in objects
    BY <1>5 DEF Haines!Skip, Haines!_assets_exist, Haines!Payload, PayloadOf
  <2>2. Haines!Advanced(j) \in Work0 /\ WorkOk(Haines!Advanced(j), objects)
    BY <1>1, <1>5, <2>1, AdvancedIsOk DEF Haines!Skip, Haines!Looking
  <2> QED
    BY <1>1, <1>5, <2>2, OneJob DEF Haines!Skip, Haines!TypeOK
<1>6. ASSUME NEW j \in Environments, Haines!Download(j) PROVE HainesInv'
  <2> DEFINE w == job[j]
             v == [w EXCEPT !.saving = Haines!ObjectType]
  <2>1. v = [at |-> w.at, i |-> w.i, saving |-> Haines!ObjectType] /\ v \in Work0
    BY <1>1 DEF Work0
  <2>2. v.at = w.at /\ v.i = w.i /\ v.saving = Haines!ObjectType
    BY <2>1
  <2>3. PayloadOf(v) = PayloadOf(w) /\ w.i # 0 /\ job' = [job EXCEPT ![j] = v]
    BY <1>6, <2>2 DEF PayloadOf, Haines!Download, Haines!Looking
  <2> HIDE DEF v
  <2>4. WorkOk(v, objects)
    BY <1>1, <2>2, <2>3 DEF WorkOk
  <2> QED
    BY <1>1, <1>6, <2>1, <2>3, <2>4, OneJob DEF Haines!Download, Haines!TypeOK
<1>7. ASSUME NEW j \in Environments, Haines!DownloadFails(j) PROVE HainesInv'
  BY <1>1, <1>7, OneJob DEF Haines!DownloadFails, Haines!NoneOfTheRest, Haines!TypeOK
<1>8. ASSUME NEW j \in Environments, Haines!save_as_kml_to_s3(j) \/ Haines!save_as_geojson_to_s3(j) PROVE HainesInv'
  BY <1>8, Saving DEF Haines!save_as_kml_to_s3, Haines!save_as_geojson_to_s3, Haines!ObjectType
<1>9. ASSUME NEW j \in Environments, Haines!JobDies(j) PROVE HainesInv'
  <2>1. faults' \in 0 .. MaxFaults
    BY <1>1, <1>9 DEF Haines!JobDies, Haines!TypeOK, HainesParameters
  <2> QED
    BY <1>1, <1>9, <2>1, OneJob DEF Haines!JobDies, Haines!TypeOK
<1>10. CASE UNCHANGED Haines!vars
  BY <1>10 DEF Haines!vars, HainesInv, Haines!TypeOK
<1> QED
  BY <1>2, <1>3, <1>4, <1>5, <1>6, <1>7, <1>8, <1>9, <1>10 DEF Haines!Next, Haines!Work
-----------------------------------------------------------------------------
(* Readers never find a later prediction of a run without all earlier ones,*)
(* although a prediction is stored in two steps, jobs of several           *)
(* environments store the same ones, and each may end between any two.     *)
LEMMA NoGaps == ASSUME HainesInv PROVE Haines!PredictionsHaveNoGaps
<1> DEFINE Stored(type, run) == {o.prediction : o \in {x \in objects : x.type = type /\ x.run = run}}
<1>1. \A o \in objects : o = [type |-> o.type, run |-> o.run, prediction |-> o.prediction]
  BY DEF HainesInv, Haines!TypeOK
<1>2. ASSUME NEW type \in Haines!ObjectType, NEW other \in Haines!ObjectType, NEW run, NEW p \in Stored(type, run)
      PROVE  0 .. p - 1 \subseteq Stored(other, run)
  <2> SUFFICES ASSUME NEW q \in 0 .. p - 1 PROVE q \in Stored(other, run)
    OBVIOUS
  <2>1. PICK o \in objects : o.type = type /\ o.run = run /\ o.prediction = p
    OBVIOUS
  <2>2. [type |-> other, run |-> run, prediction |-> q] \in objects
    BY <2>1 DEF HainesInv, NoGap
  <2> QED
    BY <2>2
<1>3. \A run : Haines!fetch_model_run_kml_streamer(run) = Stored("KML", run)
  BY DEF Haines!fetch_model_run_kml_streamer
<1>4. \A r \in Haines!fetch_model_runs(now) : r.prediction_timestamps = Stored("JSON", r.model_run_timestamp)
  BY DEF Haines!fetch_model_runs
<1> HIDE DEF Stored
<1>5. "KML" \in Haines!ObjectType /\ "JSON" \in Haines!ObjectType
  BY DEF Haines!ObjectType
<1> QED
  BY <1>2, <1>3, <1>4, <1>5 DEF Haines!PredictionsHaveNoGaps
-----------------------------------------------------------------------------
(* The three components side by side: a step of one leaves the others      *)
(* where they are.                                                         *)
StoresParameters == HainesParameters /\ MaxEdits \in Nat

StoresInv == component \in Components /\ IInv /\ HainesInv /\ FireCentres!TypeOK

LEMMA FireCentreTypes ==
  ASSUME StoresParameters, FireCentres!TypeOK, [FireCentres!Next]_FireCentres!vars
  PROVE  FireCentres!TypeOK'
<1>1. ASSUME NEW r \in Readers, FireCentres!Hydrate(r) \/ FireCentres!Put(r)
      PROVE  FireCentres!TypeOK'
  BY <1>1 DEF FireCentres!TypeOK, FireCentres!Hydrate, FireCentres!Put
<1>2. CASE FireCentres!AdminUpdates \/ FireCentres!Expire \/ UNCHANGED FireCentres!vars
  BY <1>2 DEF StoresParameters, FireCentres!TypeOK, FireCentres!AdminUpdates, FireCentres!Expire, FireCentres!vars
<1> QED
  BY <1>1, <1>2 DEF FireCentres!Next

(* The invariants of the three stores hold together, whichever of them the   *)
(* next step belongs to: the steps of one leave the variables of the others. *)
THEOREM StoresInvariant == ASSUME StoresParameters PROVE StoresSpec => []StoresInv
<1>1. StoresInit => StoresInv
  <2> SUFFICES ASSUME StoresInit PROVE StoresInv
    OBVIOUS
  <2>1. FireCentres!TypeOK
    BY DEF StoresInit, StoresParameters, FireCentres!Init, FireCentres!TypeOK
  <2> QED
    BY <2>1, InitIInv, HainesInitially DEF StoresInit, StoresInv, StoresParameters
<1>2. StoresInv /\ [StoresNext]_storesVars => StoresInv'
  <2> SUFFICES ASSUME StoresInv, [StoresNext]_storesVars PROVE StoresInv'
    OBVIOUS
  <2>1. /\ [Next]_vars /\ [Haines!Next]_Haines!vars /\ [FireCentres!Next]_FireCentres!vars
        /\ component' = component
    BY DEF StoresNext, OfViirs, OfHaines, OfFireCentres, storesVars, chainesVars, cacheVars,
       Haines!vars, FireCentres!vars
  <2> QED
    BY <2>1, NextIInv, HainesInductive, FireCentreTypes DEF StoresInv, StoresParameters
<1> QED
  BY <1>1, <1>2, PTL DEF StoresSpec

(* Every component of the stores keeps its types.                          *)
THEOREM StoresTypeCorrect == ASSUME StoresParameters PROVE StoresSpec => []StoreTypesOK
<1>1. StoresInv => StoreTypesOK
  BY DEF StoresInv, IInv, HainesInv, StoreTypesOK
<1> QED
  BY <1>1, StoresInvariant, PTL

(* A C-Haines run is shown from its first prediction on without a gap, for *)
(* the run hours of every weather model.                                   *)
THEOREM RunsAreWhole == ASSUME StoresParameters PROVE StoresSpec => []PredictionsHaveNoGaps
<1>1. StoresInv => PredictionsHaveNoGaps
  BY NoGaps DEF StoresInv, StoresParameters, PredictionsHaveNoGaps
<1> QED
  BY <1>1, StoresInvariant, PTL
=============================================================================
