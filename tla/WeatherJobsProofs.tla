--------------------------- MODULE WeatherJobsProofs ---------------------------
(***************************************************************************)
(* The jobs of MCWeatherJobs that bring weather in: that a job of NOAA     *)
(* marks the run whose files it checked, that precipitation of NAM adds up,*)
(* that no reading of WF1 is lost or counts twice, and that the rasters of *)
(* RDPS cover a day and its rows stand for objects; for any schedule, delay*)
(* of publication, rain, stations, length of a day and bounds.             *)
(***************************************************************************)
EXTENDS MCWeatherJobs, TLAPS, FiniteSetTheorems, WellFoundedInduction

\* In the East it is earlier than in UTC by at most six hours.
NoaaParameters ==
  /\ EasternOffset \in 1 .. 6
  /\ NFiles \in Nat \ {0} /\ Delay \in Nat /\ Period \in Nat /\ NoaaHours \in Nat

\* A job interpolates a run after it has started.
NamParameters == Age \in Nat /\ MaxKills \in Nat

\* That WF1 has no reading is not one, nor what a job has to write when it is through.
ReadingsParameters ==
  /\ NoReading \notin ReportedReadings /\ NoReading # {}
  /\ MaxClock \in Nat /\ MaxReports \in Nat /\ MaxVersions \in Nat

\* Objects are kept for a day or longer: 12 hours between two runs, and a retention of
\* DAYS_TO_RETAIN days.
RdpsParameters ==
  /\ Half \in Nat \ {0} /\ Retain \in Nat /\ Retain >= Rdps!Day
  /\ RdpsStarts \in Nat /\ RdpsEnds \in Nat /\ RdpsStarts <= RdpsEnds /\ MaxFaults \in Nat

-----------------------------------------------------------------------------
(* Of some natural numbers one is the least.                               *)
LEMMA LeastNumber ==
  ASSUME NEW T, T \subseteq Nat, T # {}
  PROVE  \E x \in T : \A y \in T : x <= y
<1> DEFINE R == {ss \in Nat \X Nat : ss[1] < ss[2]}
<1>1. IsWellFoundedOn(R, Nat)
  BY NatLessThanWellFounded DEF OpToRel
<1> HIDE DEF R
<1>2. PICK x \in T : \A y \in T : ~(<<y, x>> \in R)
  BY <1>1, WFMin
<1>3. ASSUME NEW y \in T PROVE x <= y
  <2>1. x \in Nat /\ y \in Nat /\ <<y, x>> \in Nat \X Nat
    OBVIOUS
  <2>2. ~(<<y, x>>[1] < <<y, x>>[2])
    BY <1>2, <2>1, Zenon DEF R
  <2> QED
    BY <2>1, <2>2
<1> QED
  BY <1>3

(* Of some numbers below a bound one is the greatest.                      *)
LEMMA GreatestNumber ==
  ASSUME NEW S, S # {}, NEW K \in Int, S \subseteq Int, \A x \in S : x <= K
  PROVE  \E x \in S : \A y \in S : y <= x
<1> DEFINE Below == {K - x : x \in S}
<1>1. Below \subseteq Nat /\ Below # {}
  <2>1. \A x \in S : K - x \in Nat
    OBVIOUS
  <2>2. Below \subseteq Nat
    BY <2>1
  <2>3. PICK x \in S : TRUE
    OBVIOUS
  <2>4. K - x \in Below
    OBVIOUS
  <2> QED
    BY <2>2, <2>4
<1> HIDE DEF Below
<1>2. PICK b \in Below : \A c \in Below : b <= c
  BY <1>1, LeastNumber
<1>3. PICK n \in S : b = K - n
  BY DEF Below
<1>4. ASSUME NEW m \in S PROVE m <= n
  <2>1. b <= K - m
    BY <1>2 DEF Below
  <2> QED
    BY <1>3, <2>1
<1> QED
  BY <1>4

(* The components count with the same operator.                            *)
LEMMA NamCount == \A S : Nam!Cardinality(S) = Cardinality(S)
  BY DEF Nam!Cardinality, Cardinality

LEMMA ReadingsCount == \A S : Actuals!Cardinality(S) = Cardinality(S)
  BY DEF Actuals!Cardinality, Cardinality

-----------------------------------------------------------------------------
(* The hours at which runs start.                                          *)
LEMMA RunHours ==
  /\ GfsAndNamRunHours \in Seq(0 .. 23) /\ Len(GfsAndNamRunHours) = 4
  /\ GfsAndNamRunHours[1] = 0 /\ GfsAndNamRunHours[2] = 6
  /\ GfsAndNamRunHours[3] = 12 /\ GfsAndNamRunHours[4] = 18
  BY DEF GfsAndNamRunHours

NamCycles == {GfsAndNamRunHours[i] : i \in 1 .. 4}

LEMMA CyclesOfADay == NamCycles \subseteq {0, 6, 12, 18}
  BY DEF GfsAndNamRunHours, NamCycles

(* Midnights.                                                              *)
LEMMA Midnights ==
  ASSUME NEW t \in Int
  PROVE  /\ Noaa!Midnight(t) \in Int /\ Noaa!Midnight(t) % 24 = 0 /\ Noaa!Midnight(t) <= t
                /\ t - 23 <= Noaa!Midnight(t)
         /\ t % 24 \in 0 .. 23 /\ Noaa!Midnight(t) + (t % 24) = t
         /\ Noaa!Midnight(t - 24) = Noaa!Midnight(t) - 24
  BY DEF Noaa!Midnight

LEMMA MidnightsGrow ==
  ASSUME NEW t \in Int, NEW u \in Int, t <= u PROVE Noaa!Midnight(t) <= Noaa!Midnight(u)
  BY DEF Noaa!Midnight

(* The two ways to find the day of a run agree, unless it starts at        *)
(* midnight and the East is behind, or the run is yet to come.             *)
LEMMA RunsOfAnHour ==
  ASSUME NoaaParameters, NEW t \in Int, NEW i \in 1 .. Len(GfsAndNamRunHours)
  PROVE  LET urls == Noaa!UrlsOf(t, GfsAndNamRunHours[i])
             mark == Noaa!RunToMark(t, GfsAndNamRunHours[i])
         IN  /\ urls \in Int /\ mark \in Int
             /\ Noaa!Midnight(urls) = Noaa!Midnight(t - EasternOffset)
             /\ urls % 24 = 0 <=> GfsAndNamRunHours[i] = 0
             /\ \/ mark = urls
                \/ urls > t
                \/ GfsAndNamRunHours[i] = 0 /\ mark = Noaa!Midnight(t)
                       /\ Noaa!Midnight(t - EasternOffset) < mark
<1> DEFINE h == GfsAndNamRunHours[i]
           east == Noaa!Midnight(t - EasternOffset)
<1>1. h \in 0 .. 23 /\ (h = 0 \/ h >= EasternOffset) /\ EasternOffset \in 1 .. 23
  <2>1. h \in 0 .. 23 /\ EasternOffset \in 1 .. 23
    <3>1. GfsAndNamRunHours \in Seq(0 .. 23) /\ EasternOffset \in 1 .. 23
      BY RunHours DEF NoaaParameters
    <3>2. \A j \in 1 .. Len(GfsAndNamRunHours) : GfsAndNamRunHours[j] \in 0 .. 23
      BY <3>1, SMTT(30)
    <3> QED
      BY <3>1, <3>2
  <2>2. h = 0 \/ h >= EasternOffset
    BY RunHours DEF NoaaParameters
  <2> QED
    BY <2>1, <2>2
<1> HIDE DEF h
<1>2. /\ Noaa!Midnight(t) \in Int /\ Noaa!Midnight(t) % 24 = 0 /\ t % 24 \in 0 .. 23
             /\ Noaa!Midnight(t) + (t % 24) = t
      /\ Noaa!Midnight(t - 24) = Noaa!Midnight(t) - 24
  BY Midnights
<1>3. east \in Int /\ east % 24 = 0 /\ east <= t - EasternOffset /\ (t - EasternOffset) - 23 <= east
  <2>1. t - EasternOffset \in Int
    BY <1>1
  <2> QED
    BY <2>1, Midnights
<1>4. \/ t % 24 >= EasternOffset /\ east = Noaa!Midnight(t)
      \/ t % 24 < EasternOffset /\ east = Noaa!Midnight(t) - 24
  BY <1>1 DEF Noaa!Midnight
<1>5. Noaa!Midnight(east + h) = east /\ ((east + h) % 24 = 0 <=> h = 0)
  BY <1>1, <1>3 DEF Noaa!Midnight
<1>6. Noaa!UrlsOf(t, h) = east + h
  BY DEF Noaa!UrlsOf
<1>7. Noaa!RunToMark(t, h) = IF t % 24 < h THEN Noaa!Midnight(t) - 24 + h ELSE Noaa!Midnight(t) + h
  <2>1. CASE t % 24 < h
    BY <1>2, <2>1 DEF Noaa!RunToMark, Noaa!adjust_model_day
  <2>2. CASE ~(t % 24 < h)
    BY <1>2, <2>2 DEF Noaa!RunToMark, Noaa!adjust_model_day
  <2> QED
    BY <2>1, <2>2
<1>8. \/ Noaa!RunToMark(t, h) = Noaa!UrlsOf(t, h)
      \/ Noaa!UrlsOf(t, h) > t
      \/ h = 0 /\ Noaa!RunToMark(t, h) = Noaa!Midnight(t) /\ east < Noaa!RunToMark(t, h)
  <2>1. CASE t % 24 >= EasternOffset
    BY <1>1, <1>2, <1>4, <1>6, <1>7, <2>1
  <2>2. CASE t % 24 < EasternOffset
    BY <1>1, <1>2, <1>4, <1>6, <1>7, <2>2
  <2> QED
    BY <1>1, <1>2, <2>1, <2>2
<1>9. Noaa!UrlsOf(t, h) \in Int /\ Noaa!RunToMark(t, h) \in Int
  <2>1. Noaa!UrlsOf(t, h) \in Int
    BY <1>1, <1>3, <1>6
  <2>2. Noaa!Midnight(t) - 24 + h \in Int /\ Noaa!Midnight(t) + h \in Int
    <3>1. Noaa!Midnight(t) \in Int
      BY <1>2
    <3>2. h \in Int
      BY <1>1
    <3> QED
      BY <3>1, <3>2
  <2> QED
    BY <1>7, <2>1, <2>2
<1> QED
  BY <1>5, <1>6, <1>8, <1>9 DEF h
-----------------------------------------------------------------------------
(* The inductive invariant.  What is stored is published, and of a day that*)
(* has begun in the East; a run with all its files is marked, or about to  *)
(* be by the job that stored the last one.                                 *)
AllIn(run) == {run} \X Noaa!Files \subseteq processed

NoaaInv ==
  /\ Noaa!TypeOK
  /\ noaaPc # "idle" => noaaNow = noaaClock
  /\ \A p \in processed : Noaa!Published(p[1])
  /\ \A run \in runRows : Noaa!Midnight(run) <= Noaa!Midnight(noaaClock - EasternOffset)
  /\ Noaa!CompleteRunsAreProcessed
  /\ \A run \in runRows :
       run % 24 # 0 /\ AllIn(run) =>
         run \in complete \/ (noaaPc = "mark" /\ run = Noaa!UrlsOf(noaaNow, GfsAndNamRunHours[slot]))

LEMMA NoaaInitially == ASSUME NoaaParameters, Noaa!Init PROVE NoaaInv
  BY RunHours DEF NoaaParameters, Noaa!Init, NoaaInv, Noaa!TypeOK, Noaa!CompleteRunsAreProcessed

LEMMA NoaaJobFires == ASSUME NoaaParameters, NoaaInv, Noaa!CronFire PROVE NoaaInv'
<1> USE DEF Noaa!CronFire, NoaaParameters
<1>1. noaaClock \in Int /\ noaaClock' \in Int /\ noaaClock <= noaaClock'
  BY DEF NoaaInv, Noaa!TypeOK
<1>2. Noaa!TypeOK'
  BY DEF NoaaInv, Noaa!TypeOK
<1>3. \A p \in processed' : Noaa!Published(p[1])'
  BY <1>1 DEF NoaaInv, Noaa!TypeOK, Noaa!Published
<1>4. Noaa!Midnight(noaaClock - EasternOffset) <= Noaa!Midnight(noaaClock' - EasternOffset)
  <2>1. noaaClock - EasternOffset \in Int /\ noaaClock' - EasternOffset \in Int
    BY <1>1
  <2>2. noaaClock - EasternOffset <= noaaClock' - EasternOffset
    BY <1>1
  <2> QED
    BY <2>1, <2>2, MidnightsGrow
<1>5. Noaa!Midnight(noaaClock - EasternOffset) \in Int /\ Noaa!Midnight(noaaClock' - EasternOffset) \in Int
  <2>1. noaaClock - EasternOffset \in Int /\ noaaClock' - EasternOffset \in Int
    BY <1>1
  <2> QED
    BY <2>1, Midnights
<1>6. \A run \in runRows' : Noaa!Midnight(run) <= Noaa!Midnight(noaaClock' - EasternOffset)
  <2> SUFFICES ASSUME NEW run \in runRows PROVE Noaa!Midnight(run) <= Noaa!Midnight(noaaClock' - EasternOffset)
    OBVIOUS
  <2>1. Noaa!Midnight(run) \in Int /\ Noaa!Midnight(run) <= Noaa!Midnight(noaaClock - EasternOffset)
    BY Midnights DEF NoaaInv, Noaa!TypeOK
  <2> QED
    BY <1>4, <1>5, <2>1
<1>7. Noaa!CompleteRunsAreProcessed'
  BY DEF NoaaInv, Noaa!CompleteRunsAreProcessed
<1> QED
  BY <1>2, <1>3, <1>6, <1>7 DEF NoaaInv, AllIn

LEMMA UrlsProcessed == ASSUME NoaaParameters, NoaaInv, Noaa!process_model_run_urls PROVE NoaaInv'
<1> DEFINE run == Noaa!UrlsOf(noaaNow, GfsAndNamRunHours[slot])
<1>1. PICK got \in SUBSET {f \in Noaa!Files : Noaa!Published(run) /\ <<run, f>> \notin processed} :
        /\ processed' = processed \union ({run} \X got)
        /\ runRows' = IF got = {} THEN runRows ELSE runRows \union {run}
  BY DEF Noaa!process_model_run_urls
<1>2. /\ noaaPc = "urls" /\ noaaPc' = "mark" /\ noaaNow = noaaClock
      /\ noaaClock' = noaaClock /\ noaaNow' = noaaNow /\ complete' = complete /\ slot' = slot
  BY DEF Noaa!process_model_run_urls, NoaaInv
<1>3. run \in Int /\ Noaa!Midnight(run) = Noaa!Midnight(noaaClock - EasternOffset)
  <2>1. slot \in 1 .. Len(GfsAndNamRunHours) /\ noaaNow \in Int
    BY DEF NoaaInv, Noaa!TypeOK, NoaaParameters
  <2> QED
    BY <1>2, <2>1, RunsOfAnHour
<1> HIDE DEF run
<1>4. Noaa!TypeOK'
  BY <1>1, <1>2, <1>3 DEF NoaaInv, Noaa!TypeOK
<1>5. \A p \in processed' : Noaa!Published(p[1])'
  <2> SUFFICES ASSUME NEW p \in processed' PROVE Noaa!Published(p[1])
    BY <1>2 DEF Noaa!Published
  <2>1. CASE p \in processed
    BY <2>1 DEF NoaaInv
  <2>2. CASE p \in {run} \X got
    BY <1>1, <2>2
  <2> QED
    BY <1>1, <2>1, <2>2
<1>6. \A r \in runRows' : Noaa!Midnight(r) <= Noaa!Midnight(noaaClock' - EasternOffset)
  <2>1. Noaa!Midnight(run) \in Int
    BY <1>3, Midnights
  <2>2. Noaa!Midnight(run) <= Noaa!Midnight(noaaClock' - EasternOffset)
    BY <1>2, <1>3, <2>1
  <2> QED
    BY <1>1, <1>2, <2>2 DEF NoaaInv
<1>7. Noaa!CompleteRunsAreProcessed'
  BY <1>1, <1>2 DEF NoaaInv, Noaa!CompleteRunsAreProcessed
<1>8. ASSUME NEW r \in runRows', r % 24 # 0, AllIn(r)', r # run PROVE r \in complete
  <2>1. r \in runRows /\ AllIn(r)
    BY <1>1, <1>8 DEF AllIn
  <2> QED
    BY <1>2, <1>8, <2>1 DEF NoaaInv
<1> QED
  BY <1>2, <1>4, <1>5, <1>6, <1>7, <1>8 DEF NoaaInv, run

LEMMA RunMarked == ASSUME NoaaParameters, NoaaInv, Noaa!mark_prediction_model_run_processed PROVE NoaaInv'
<1> DEFINE urls == Noaa!UrlsOf(noaaNow, GfsAndNamRunHours[slot])
           mark == Noaa!RunToMark(noaaNow, GfsAndNamRunHours[slot])
<1>1. /\ noaaPc = "mark" /\ noaaNow = noaaClock
      /\ noaaClock' = noaaClock /\ noaaNow' = noaaNow /\ processed' = processed /\ runRows' = runRows
      /\ complete' = IF Noaa!check_if_model_run_complete(urls) /\ mark \in runRows
                     THEN complete \union {mark} ELSE complete
  BY DEF Noaa!mark_prediction_model_run_processed, NoaaInv
<1>2. slot \in 1 .. Len(GfsAndNamRunHours) /\ noaaNow \in Int /\ noaaClock \in Int
  BY DEF NoaaInv, Noaa!TypeOK, NoaaParameters
<1>3. slot' \in 1 .. Len(GfsAndNamRunHours) /\ noaaPc' \in {"idle", "urls"}
  BY <1>2 DEF Noaa!mark_prediction_model_run_processed, Noaa!NextRunHour, NoaaParameters
<1>4. /\ urls \in Int /\ mark \in Int /\ Noaa!Midnight(urls) = Noaa!Midnight(noaaNow - EasternOffset)
      /\ urls % 24 = 0 <=> GfsAndNamRunHours[slot] = 0
      /\ \/ mark = urls
         \/ urls > noaaNow
         \/ GfsAndNamRunHours[slot] = 0 /\ mark = Noaa!Midnight(noaaNow)
                /\ Noaa!Midnight(noaaNow - EasternOffset) < mark
  BY <1>2, RunsOfAnHour
<1> HIDE DEF urls, mark
<1>5. Noaa!check_if_model_run_complete(urls) <=> AllIn(urls)
  BY DEF Noaa!check_if_model_run_complete, AllIn
<1>6. AllIn(urls) => urls <= noaaNow
  <2> SUFFICES ASSUME AllIn(urls) PROVE urls <= noaaNow
    OBVIOUS
  <2>1. <<urls, 1>> \in processed
    BY DEF AllIn, Noaa!Files, NoaaParameters
  <2>2. Noaa!Published(urls)
    BY <2>1 DEF NoaaInv
  <2> QED
    BY <1>1, <1>2, <1>4, <2>2 DEF Noaa!Published, NoaaParameters
<1>7. mark \in runRows => Noaa!Midnight(mark) <= Noaa!Midnight(noaaNow - EasternOffset)
  BY <1>1 DEF NoaaInv
<1>8. ASSUME GfsAndNamRunHours[slot] = 0, mark = Noaa!Midnight(noaaNow),
             Noaa!Midnight(noaaNow - EasternOffset) < mark, mark \in runRows
      PROVE  FALSE
  <2>1. Noaa!Midnight(mark) = mark
    BY <1>2, <1>8 DEF Noaa!Midnight
  <2>2. Noaa!Midnight(noaaNow - EasternOffset) \in Int
    BY <1>2, Midnights DEF NoaaParameters
  <2> QED
    BY <1>4, <1>7, <1>8, <2>1, <2>2
<1>9. AllIn(urls) /\ mark \in runRows => mark = urls
  BY <1>2, <1>4, <1>6, <1>8
<1>10. Noaa!TypeOK'
  BY <1>1, <1>3 DEF NoaaInv, Noaa!TypeOK
<1>11. Noaa!CompleteRunsAreProcessed'
  <2>1. \A r \in complete' : AllIn(r)
    BY <1>1, <1>5, <1>9 DEF NoaaInv, Noaa!CompleteRunsAreProcessed, AllIn
  <2> QED
    BY <1>1, <2>1 DEF Noaa!CompleteRunsAreProcessed, AllIn
<1>12. ASSUME NEW r \in runRows, r % 24 # 0, AllIn(r) PROVE r \in complete'
  <2>1. CASE r \in complete
    BY <1>1, <2>1
  <2>2. CASE r = urls
    <3>1. GfsAndNamRunHours[slot] # 0 /\ urls <= noaaNow
      BY <1>4, <1>6, <1>12, <2>2
    <3>2. mark = urls
      BY <1>2, <1>4, <3>1
    <3> QED
      BY <1>1, <1>5, <1>12, <2>2, <3>2
  <2> QED
    BY <1>12, <2>1, <2>2 DEF NoaaInv, urls
<1>13. /\ \A p \in processed' : Noaa!Published(p[1])'
       /\ \A r \in runRows' : Noaa!Midnight(r) <= Noaa!Midnight(noaaClock' - EasternOffset)
       /\ \A r \in runRows' : AllIn(r)' => AllIn(r)
  BY <1>1 DEF NoaaInv, Noaa!Published, AllIn
<1>14. noaaPc' # "idle" => noaaNow' = noaaClock'
  BY <1>1
<1> QED
  BY <1>1, <1>10, <1>11, <1>12, <1>13, <1>14 DEF NoaaInv
-----------------------------------------------------------------------------
(* It holds at the start, as time goes by, and after each step of a job.   *)
THEOREM NoaaInvariant == ASSUME NoaaParameters PROVE Noaa!Spec => []NoaaInv
<1>1. Noaa!Init => NoaaInv
  BY NoaaInitially
<1>2. NoaaInv /\ [Noaa!Next]_Noaa!vars => NoaaInv'
  <2>1. NoaaInv /\ UNCHANGED Noaa!vars => NoaaInv'
    BY DEF Noaa!vars, NoaaInv, Noaa!TypeOK, Noaa!CompleteRunsAreProcessed, AllIn, Noaa!Published
  <2> QED
    BY <2>1, NoaaJobFires, UrlsProcessed, RunMarked DEF Noaa!Next
<1> QED
  BY <1>1, <1>2, PTL DEF Noaa!Spec

(* Clock, rows and the position of the job keep their types.               *)
THEOREM NoaaTypeCorrect == ASSUME NoaaParameters PROVE Noaa!Spec => []Noaa!TypeOK
<1>1. NoaaInv => Noaa!TypeOK
  BY DEF NoaaInv
<1> QED
  BY <1>1, NoaaInvariant, PTL

(* A run that is marked complete has all its files, whatever was published *)
(* late and wherever the day of the job in UTC and in the East differ.     *)
THEOREM CompletenessNeverLies == ASSUME NoaaParameters PROVE Noaa!Spec => []Noaa!CompleteRunsAreProcessed
<1>1. NoaaInv => Noaa!CompleteRunsAreProcessed
  BY DEF NoaaInv
<1> QED
  BY <1>1, NoaaInvariant, PTL

(* A run that does not start at midnight is marked by the job that stores  *)
(* the last of its files.                                                  *)
THEOREM LaterRunsAreMarked == ASSUME NoaaParameters PROVE Noaa!Spec => []Noaa!NoLaterRunIsLeftBehind
<1>1. NoaaInv => Noaa!NoLaterRunIsLeftBehind
  BY DEF NoaaInv, Noaa!NoLaterRunIsLeftBehind, Noaa!DayIsOver, AllIn
<1> QED
  BY <1>1, NoaaInvariant, PTL
-----------------------------------------------------------------------------
(* The latest of some hours is one of them.                                *)
LEMMA LatestHour ==
  ASSUME NEW S, S # {}, NEW K \in Int, S \subseteq Int, \A x \in S : x <= K
  PROVE  Nam!Latest(S) \in S /\ \A g \in S : g <= Nam!Latest(S)
<1>1. \E x \in S : \A y \in S : y <= x
  BY GreatestNumber
<1> QED
  BY <1>1, Zenon DEF Nam!Latest

LEMMA LatestIs ==
  ASSUME NEW S, S \subseteq Int, NEW x \in S, \A g \in S : g <= x
  PROVE  Nam!Latest(S) = x
<1>1. Nam!Latest(S) \in S /\ \A g \in S : g <= Nam!Latest(S)
  BY Zenon DEF Nam!Latest
<1>2. x <= Nam!Latest(S) /\ Nam!Latest(S) <= x /\ x \in Int /\ Nam!Latest(S) \in Int
  BY <1>1
<1> QED
  BY <1>2
-----------------------------------------------------------------------------
(* What falls between two hours, and after them.                           *)
LEMMA FallenType ==
  ASSUME wet \subseteq Nam!HoursOfRain, NEW a \in Int, NEW b \in Int
  PROVE  IsFiniteSet(wet) /\ Nam!Fallen(a, b) \in Nat
<1>1. IsFiniteSet(wet)
  <2>1. -23 \in Int /\ 81 \in Int
    OBVIOUS
  <2>2. IsFiniteSet(Nam!HoursOfRain)
    BY <2>1, FS_Interval DEF Nam!HoursOfRain, Nam!LastHour
  <2> QED
    BY <2>2, FS_Subset
<1>2. Cardinality({h \in wet : a < h /\ h <= b}) \in Nat
  BY <1>1, FS_Subset, FS_CardinalityType
<1> QED
  BY <1>1, <1>2, NamCount DEF Nam!Fallen, Nam!Inch

LEMMA Rain ==
  ASSUME wet \subseteq Nam!HoursOfRain, NEW a \in Int, NEW b \in Int, NEW c \in Int, a <= b, b <= c
  PROVE  /\ Nam!Fallen(a, b) \in Nat
         /\ Nam!Fallen(a, a) = 0
         /\ Nam!Fallen(a, b) + Nam!Fallen(b, c) = Nam!Fallen(a, c)
<1> DEFINE in(x, y) == {h \in wet : x < h /\ h <= y}
<1>1. IsFiniteSet(wet)
  BY FallenType
<1>2. /\ IsFiniteSet(in(a, b)) /\ IsFiniteSet(in(b, c))
      /\ Cardinality(in(a, b)) \in Nat /\ Cardinality(in(b, c)) \in Nat
  BY <1>1, FS_Subset, FS_CardinalityType
<1>3. in(a, b) \cup in(b, c) = in(a, c) /\ in(a, b) \cap in(b, c) = {} /\ in(a, a) = {}
  <2>1. \A h \in wet : h \in Int
    BY DEF Nam!HoursOfRain, Nam!LastHour
  <2>2. \A h \in wet : (h \in in(a, b) \/ h \in in(b, c)) <=> h \in in(a, c)
    BY <2>1
  <2>3. \A h \in wet : ~(h \in in(a, b) /\ h \in in(b, c)) /\ h \notin in(a, a)
    BY <2>1
  <2>4. in(a, b) \subseteq wet /\ in(b, c) \subseteq wet /\ in(a, c) \subseteq wet /\ in(a, a) \subseteq wet
    OBVIOUS
  <2> HIDE DEF in
  <2> QED
    BY <2>2, <2>3, <2>4
<1>4. Cardinality(in(a, c)) = Cardinality(in(a, b)) + Cardinality(in(b, c)) - Cardinality({})
  <2> HIDE DEF in
  <2> QED
    BY <1>2, <1>3, FS_Union
<1>5. Cardinality({}) = 0
  BY FS_EmptySet
<1>6. /\ Nam!Fallen(a, b) = 3 * Cardinality(in(a, b)) /\ Nam!Fallen(b, c) = 3 * Cardinality(in(b, c))
      /\ Nam!Fallen(a, c) = 3 * Cardinality(in(a, c)) /\ Nam!Fallen(a, a) = 3 * Cardinality(in(a, a))
  BY NamCount DEF Nam!Fallen, Nam!Inch
<1> HIDE DEF in
<1> QED
  BY <1>2, <1>3, <1>4, <1>5, <1>6

(* The accumulation hour before an hour of the run.                        *)
Start(h) == IF h % Nam!Interval = 0 THEN h - Nam!Interval ELSE h - (h % Nam!Interval)

(* Of the hours of a run the accumulation hour before each is one, and     *)
(* those of a run at midnight begin with its first day.                    *)
LEMMA HoursOfARun ==
  ASSUME cycle \in {0, 6, 12, 18}
  PROVE  /\ Nam!Hours \subseteq 0 .. Nam!LastHour /\ 0 \in Nam!Hours
         /\ Nam!Interval \in {3, 12}
         /\ \A h \in Nam!Hours : h # 0 => Start(h) \in Nam!Hours
         /\ cycle = 0 => \A h \in Nam!Hours : (24 <= h => h - 24 \in Nam!Hours) /\ (h % 24 = 20 => h = 20)
<1>1. CASE cycle = 0
  BY <1>1 DEF Nam!Hours, Nam!ForecastHours, Nam!Accumulated, Nam!Interval, Start, Nam!LastHour
<1>2. CASE cycle = 6
  BY <1>2 DEF Nam!Hours, Nam!ForecastHours, Nam!Accumulated, Nam!Interval, Start, Nam!LastHour
<1>3. CASE cycle = 12
  BY <1>3 DEF Nam!Hours, Nam!ForecastHours, Nam!Accumulated, Nam!Interval, Start, Nam!LastHour
<1>4. CASE cycle = 18
  BY <1>4 DEF Nam!Hours, Nam!ForecastHours, Nam!Accumulated, Nam!Interval, Start, Nam!LastHour
<1> QED
  BY <1>1, <1>2, <1>3, <1>4

LEMMA AccumulationHours ==
  ASSUME cycle \in {0, 6, 12, 18}, NEW h \in Int
  PROVE  /\ Nam!IsAccumulationHour(h) <=> h % Nam!Interval = 0
         /\ Nam!HourOfDay(h) \in 0 .. 23
         /\ Start(h) \in Int /\ Start(h) < h /\ h - 12 <= Start(h)
         /\ h >= 0 /\ cycle = 0 => Nam!HourOfDay(h) = h % 24
         /\ Nam!HourOfDay(h) = (cycle + h) % 24
  BY DEF Nam!IsAccumulationHour, Nam!HourOfDay, Nam!Interval, Start

(* What an hour's file holds is what its sum still lacks.                  *)
LEMMA Amounts ==
  ASSUME cycle \in {0, 6, 12, 18}, wet \subseteq Nam!HoursOfRain, NEW h \in Nam!Hours
  PROVE  /\ Nam!NamAmount(h) \in Nat
         /\ h # 0 => Nam!Fallen(0, Start(h)) + Nam!NamAmount(h) = Nam!Fallen(0, h)
         /\ h = 0 => Nam!NamAmount(h) = 0
<1>1. h \in 0 .. Nam!LastHour /\ (h # 0 => Start(h) \in Nam!Hours) /\ Nam!Hours \subseteq 0 .. Nam!LastHour
  BY HoursOfARun
<1>2. h \in Int /\ h >= 0
  BY <1>1 DEF Nam!LastHour
<1>3. CASE h = 0
  BY <1>3 DEF Nam!NamAmount
<1>4. CASE h # 0
  <2>1. Start(h) \in Int /\ 0 <= Start(h) /\ Start(h) < h
    <3>1. Start(h) \in 0 .. Nam!LastHour
      BY <1>1, <1>4
    <3>2. Start(h) < h
      BY <1>2, AccumulationHours
    <3> QED
      BY <3>1, <3>2 DEF Nam!LastHour
  <2>2. Nam!NamAmount(h) = Nam!Fallen(Start(h), h)
    BY <1>4 DEF Nam!NamAmount, Start
  <2>3. Nam!Fallen(0, Start(h)) + Nam!Fallen(Start(h), h) = Nam!Fallen(0, h)
    BY <1>2, <2>1, Rain
  <2>4. Nam!Fallen(Start(h), h) \in Nat
    BY <1>2, <2>1, Rain
  <2> QED
    BY <1>4, <2>2, <2>3, <2>4
<1> QED
  BY <1>3, <1>4

(* The accumulation hours up to one that was processed.                    *)
LastAccumulation(h) == h - (h % Nam!Interval)

LEMMA NextSum ==
  ASSUME cycle \in {0, 6, 12, 18}, NEW d \in Nam!Hours, NEW h \in Nam!Hours, d < h,
         \A g \in Nam!Hours : d < g => h <= g
  PROVE  /\ LastAccumulation(d) = Start(h) /\ 0 <= LastAccumulation(d)
         /\ h - 12 <= d
<1>1. /\ Nam!Interval \in {3, 12} /\ d \in 0 .. Nam!LastHour /\ h \in 0 .. Nam!LastHour
      /\ h # 0 => Start(h) \in Nam!Hours
  BY HoursOfARun
<1>2. d \in Int /\ h \in Int /\ 0 <= d /\ 0 < h
  BY <1>1 DEF Nam!LastHour
<1>3. Start(h) \in Nam!Hours /\ Start(h) \in Int /\ Start(h) < h /\ h - 12 <= Start(h)
  BY <1>1, <1>2, AccumulationHours
<1>4. Start(h) <= d
  BY <1>2, <1>3
<1>5. CASE Nam!Interval = 3
  BY <1>2, <1>3, <1>4, <1>5 DEF Start, LastAccumulation
<1>6. CASE Nam!Interval = 12
  BY <1>2, <1>3, <1>4, <1>6 DEF Start, LastAccumulation
<1> QED
  BY <1>1, <1>2, <1>3, <1>4, <1>5, <1>6
-----------------------------------------------------------------------------
(* The hours of predictions: those of the files, and the noons between two.*)
NoonOf(g) ==
  /\ g \notin Nam!Hours /\ g - 2 \in Nam!Hours /\ g + 1 \in Nam!Hours
  /\ Nam!HourOfDay(g - 2) = 18
  /\ \A k \in Nam!Hours : k <= g - 2 \/ g + 1 <= k

PredictionHours == {g \in 0 .. Nam!LastHour : g \in Nam!Hours \/ NoonOf(g)}

DeltaIsRight(p, h) ==
  LET earlier == {g \in DOMAIN p : g < h}
  IN p[h].delta = p[h].apcp - IF earlier = {} THEN 0 ELSE p[Nam!Latest(earlier)].apcp

RowIsRight(p, h) ==
  /\ p[h].apcp = Nam!FallenSinceStart(h)
  /\ h \in Nam!Hours /\ (cycle = 0 \/ h - 24 \in Nam!Hours) => p[h].pastDay = Nam!Fallen(h - 24, h)

(* A row is put without a change of the others.                            *)
LEMMA PutRow ==
  ASSUME NEW p, NEW h, NEW value
  PROVE  /\ DOMAIN Nam!Put(p, h, value) = DOMAIN p \cup {h}
         /\ \A g \in DOMAIN p : g # h => Nam!Put(p, h, value)[g] = p[g]
         /\ Nam!Put(p, h, value)[h].apcp = value
         /\ Nam!Put(p, h, value)[h].delta = Nam!DeltaPrecipitation(p, h, value)
         /\ Nam!Put(p, h, value)[h].pastDay =
              IF h - 24 \in DOMAIN p THEN Nam!Distance(value, p[h - 24].apcp)
              ELSE Nam!ActualPrecipitation(h) + value
  BY DEF Nam!Put

(* Its difference is right, and so are those of the rows before.           *)
LEMMA PutDelta ==
  ASSUME NEW p, NEW h \in 0 .. Nam!LastHour, NEW value \in Nat, Nam!RowsOK(p)
  PROVE  /\ DeltaIsRight(Nam!Put(p, h, value), h)
         /\ \A g \in DOMAIN p : g < h /\ DeltaIsRight(p, g) => DeltaIsRight(Nam!Put(p, h, value), g)
<1> DEFINE q == Nam!Put(p, h, value)
           earlier(r, g) == {e \in DOMAIN r : e < g}
<1>1. /\ DOMAIN q = DOMAIN p \cup {h} /\ \A g \in DOMAIN p : g # h => q[g] = p[g]
      /\ q[h].apcp = value /\ q[h].delta = Nam!DeltaPrecipitation(p, h, value)
  BY DEF Nam!Put
<1> HIDE DEF q
<1>2. h \in Int /\ DOMAIN p \subseteq Int /\ \A g \in DOMAIN p : g <= Nam!LastHour
  BY DEF Nam!RowsOK, Nam!LastHour
<1>3. ASSUME NEW g \in Int, g <= h, earlier(p, g) # {}
      PROVE  Nam!Latest(earlier(p, g)) \in earlier(p, g)
  <2>1. earlier(p, g) \subseteq Int /\ \A e \in earlier(p, g) : e <= g
    BY <1>2
  <2> HIDE DEF earlier
  <2> QED
    BY <1>3, <2>1, LatestHour
<1>4. \A g \in Int : g <= h => earlier(q, g) = earlier(p, g)
  BY <1>1, <1>2
<1>5. \A g \in Int : g <= h /\ earlier(p, g) # {}
          => q[Nam!Latest(earlier(p, g))].apcp = p[Nam!Latest(earlier(p, g))].apcp
  <2> SUFFICES ASSUME NEW g \in Int, g <= h, earlier(p, g) # {}
               PROVE  q[Nam!Latest(earlier(p, g))] = p[Nam!Latest(earlier(p, g))]
    OBVIOUS
  <2>1. Nam!Latest(earlier(p, g)) \in DOMAIN p /\ Nam!Latest(earlier(p, g)) < g
    BY <1>3
  <2> QED
    BY <1>1, <1>2, <2>1
<1>6. DeltaIsRight(q, h)
  <2>1. CASE earlier(p, h) = {}
    BY <1>1, <1>2, <1>4, <2>1 DEF DeltaIsRight, Nam!DeltaPrecipitation
  <2>2. CASE earlier(p, h) # {}
    <3>1. q[h].delta = value - p[Nam!Latest(earlier(p, h))].apcp
      BY <1>1, <2>2 DEF Nam!DeltaPrecipitation
    <3>2. earlier(q, h) = earlier(p, h) /\ q[Nam!Latest(earlier(p, h))].apcp = p[Nam!Latest(earlier(p, h))].apcp
      BY <1>2, <1>4, <1>5, <2>2
    <3> QED
      BY <1>1, <2>2, <3>1, <3>2 DEF DeltaIsRight
  <2> QED
    BY <2>1, <2>2
<1>7. ASSUME NEW g \in DOMAIN p, g < h, DeltaIsRight(p, g) PROVE DeltaIsRight(q, g)
  <2>1. g \in Int /\ g <= h /\ q[g] = p[g]
    BY <1>1, <1>2, <1>7
  <2>2. earlier(q, g) = earlier(p, g)
    BY <1>4, <2>1
  <2>3. CASE earlier(p, g) = {}
    BY <1>7, <2>1, <2>2, <2>3 DEF DeltaIsRight
  <2>4. CASE earlier(p, g) # {}
    <3>1. q[Nam!Latest(earlier(p, g))].apcp = p[Nam!Latest(earlier(p, g))].apcp
      BY <1>5, <2>1, <2>4
    <3> QED
      BY <1>7, <2>1, <2>2, <2>4, <3>1 DEF DeltaIsRight
  <2> QED
    BY <2>3, <2>4
<1> QED
  BY <1>6, <1>7 DEF q

LEMMA PutTypes ==
  ASSUME NamParameters, cycle \in NamCycles, wet \subseteq Nam!HoursOfRain, NEW p, Nam!RowsOK(p),
         NEW h \in 0 .. Nam!LastHour, NEW value \in Nat
  PROVE  Nam!RowsOK(Nam!Put(p, h, value))
<1> DEFINE q == Nam!Put(p, h, value)
<1>1. /\ DOMAIN q = DOMAIN p \cup {h} /\ \A g \in DOMAIN p : g # h => q[g] = p[g]
      /\ q[h].apcp = value /\ q[h].delta = Nam!DeltaPrecipitation(p, h, value)
      /\ q[h].pastDay = IF h - 24 \in DOMAIN p THEN Nam!Distance(value, p[h - 24].apcp)
                        ELSE Nam!ActualPrecipitation(h) + value
  BY DEF Nam!Put
<1> HIDE DEF q
<1>2. DOMAIN p \subseteq Int /\ h \in Int /\ \A g \in DOMAIN p : p[g].apcp \in Nat
  BY DEF Nam!RowsOK, Nam!LastHour
<1>3. q[h].delta \in Int
  <2> DEFINE earlier == {g \in DOMAIN p : g < h}
  <2>1. earlier # {} => Nam!Latest(earlier) \in earlier
    <3>1. earlier \subseteq Int /\ \A e \in earlier : e <= h
      BY <1>2
    <3> HIDE DEF earlier
    <3> QED
      BY <1>2, <3>1, LatestHour
  <2>2. CASE earlier = {}
    BY <1>1, <2>2 DEF Nam!DeltaPrecipitation
  <2>3. CASE earlier # {}
    <3>1. p[Nam!Latest(earlier)].apcp \in Nat
      BY <1>2, <2>1, <2>3
    <3> QED
      BY <1>1, <2>3, <3>1 DEF Nam!DeltaPrecipitation
  <2> QED
    BY <2>2, <2>3
<1>4. q[h].pastDay \in Nat
  <2>1. CASE h - 24 \in DOMAIN p
    BY <1>1, <1>2, <2>1 DEF Nam!Distance
  <2>2. Nam!ActualPrecipitation(h) \in Nat
    <3>1. \A a, b \in Int : Nam!Fallen(a, b) \in Nat
      BY FallenType
    <3>2. Nam!HourOfDay(h) \in Int
      <4>1. cycle + h \in Int
        BY CyclesOfADay DEF Nam!LastHour
      <4> QED
        BY <4>1 DEF Nam!HourOfDay
    <3> DEFINE upto == IF h - Nam!HourOfDay(h) > Age THEN Age ELSE h - Nam!HourOfDay(h)
    <3>3. h - 24 \in Int /\ upto \in Int
      BY <1>2, <3>2 DEF NamParameters
    <3>4. Nam!Fallen(h - 24, upto) \in Nat
      BY <3>1, <3>3, Zenon
    <3> QED
      BY <3>4 DEF Nam!ActualPrecipitation
  <2> QED
    BY <1>1, <2>1, <2>2
<1>5. \A g \in DOMAIN q : g \in 0 .. Nam!LastHour /\ q[g].apcp \in Nat /\ q[g].pastDay \in Nat
          /\ q[g].delta \in Int
  BY <1>1, <1>3, <1>4 DEF Nam!RowsOK
<1> QED
  BY <1>5 DEF Nam!RowsOK, q
-----------------------------------------------------------------------------
(* The inductive invariant.  A job has put right the rows up to the last   *)
(* hour it processed; those after it may be an earlier attempt's.          *)
Processing ==
  /\ sAmount \in [Nam!Hours -> Nat]
  /\ done \in Nam!Hours \cup {-1}
  /\ DOMAIN sPredictions \subseteq PredictionHours
  /\ \A h \in DOMAIN sPredictions : h <= done => DeltaIsRight(sPredictions, h)
  /\ \A h \in Nam!Hours : h <= done => h \in DOMAIN sPredictions

\* Before a job was killed no row is an earlier attempt's.
FirstAttempt ==
  /\ (namPc = "idle" /\ ~interpolated) \/ namPc = "process" =>
       predictions = Nam!NoRows /\ amount = [h \in Nam!Hours |-> Nam!NamAmount(h)]
  /\ namPc = "process" =>
       /\ cumulative = IF done = -1 THEN 0 ELSE Nam!Fallen(0, LastAccumulation(done))
       /\ \A h \in Nam!Hours : sAmount[h] = IF h <= done THEN Nam!Fallen(0, h) ELSE Nam!NamAmount(h)
       /\ \A h \in DOMAIN sPredictions : h <= done /\ RowIsRight(sPredictions, h)
  /\ \A h \in DOMAIN predictions : RowIsRight(predictions, h)

NamInv ==
  /\ Nam!TypeOK
  /\ DOMAIN predictions \subseteq PredictionHours
  /\ \A h \in DOMAIN predictions : DeltaIsRight(predictions, h)
  /\ namPc = "process" => Processing
  /\ kills = 0 => FirstAttempt

LEMMA NamRun == ASSUME NamParameters, Nam!TypeOK PROVE cycle \in {0, 6, 12, 18} /\ wet \subseteq Nam!HoursOfRain
  BY CyclesOfADay DEF Nam!TypeOK, NamCycles

LEMMA NamInitially == ASSUME NamParameters, Nam!Init PROVE NamInv
<1>1. cycle \in NamCycles /\ cycle \in {0, 6, 12, 18} /\ wet \subseteq Nam!HoursOfRain
  BY CyclesOfADay DEF Nam!Init, NamCycles
<1>2. \A h \in Nam!Hours : Nam!NamAmount(h) \in Nat
  BY <1>1, Amounts
<1>3. amount \in [Nam!Hours -> Nat] /\ amount = [h \in Nam!Hours |-> Nam!NamAmount(h)]
  BY <1>2 DEF Nam!Init
<1>4. DOMAIN predictions = {} /\ DOMAIN sPredictions = {} /\ predictions = Nam!NoRows
  BY DEF Nam!Init, Nam!NoRows
<1>5. Nam!TypeOK
  <2>1. Nam!RowsOK(predictions) /\ Nam!RowsOK(sPredictions)
    BY <1>4 DEF Nam!RowsOK
  <2>2. done \in -1 .. Nam!LastHour /\ cumulative \in Nat /\ kills \in 0 .. MaxKills
    BY DEF NamParameters, Nam!Init, Nam!LastHour
  <2>3. interpolated \in BOOLEAN /\ namPc \in {"idle", "process", "mark"}
    BY DEF Nam!Init
  <2> QED
    BY <1>1, <1>3, <2>1, <2>2, <2>3 DEF Nam!TypeOK, NamCycles
<1>6. FirstAttempt
  BY <1>3, <1>4 DEF FirstAttempt, Nam!Init
<1> QED
  BY <1>4, <1>5, <1>6 DEF NamInv, Nam!Init

LEMMA JobStart == ASSUME NamParameters, NamInv, Nam!JobStarts PROVE NamInv'
<1>1. /\ namPc = "idle" /\ ~interpolated /\ namPc' = "process" /\ done' = -1 /\ cumulative' = 0
      /\ sAmount' = amount /\ sPredictions' = predictions
      /\ cycle' = cycle /\ wet' = wet /\ amount' = amount /\ predictions' = predictions
      /\ interpolated' = interpolated /\ kills' = kills
  BY DEF Nam!JobStarts, Nam!world, Nam!tables
<1>2. Nam!TypeOK'
  BY <1>1 DEF NamInv, Nam!TypeOK, NamCycles, Nam!Hours, Nam!RowsOK, Nam!LastHour
<1>3. Nam!Hours \subseteq 0 .. Nam!LastHour
  BY NamRun, HoursOfARun DEF NamInv
<1>4. DOMAIN predictions \subseteq 0 .. Nam!LastHour
  BY DEF NamInv, PredictionHours
<1>5. Processing'
  <2>1. sAmount' \in [Nam!Hours -> Nat]
    BY <1>1 DEF NamInv, Nam!TypeOK, NamCycles
  <2>2. (\A h \in Nam!Hours : ~(h <= done')) /\ \A h \in DOMAIN sPredictions' : ~(h <= done')
    BY <1>1, <1>3, <1>4 DEF Nam!LastHour
  <2>3. Nam!Hours' = Nam!Hours /\ PredictionHours' = PredictionHours
    BY <1>1 DEF Nam!Hours, PredictionHours, NoonOf, Nam!HourOfDay
  <2> QED
    BY <1>1, <2>1, <2>2, <2>3 DEF Processing, NamInv
<1>6. kills = 0 => FirstAttempt'
  <2> SUFFICES ASSUME kills = 0 PROVE FirstAttempt'
    OBVIOUS
  <2>1. predictions = Nam!NoRows /\ amount = [h \in Nam!Hours |-> Nam!NamAmount(h)]
    BY <1>1 DEF NamInv, FirstAttempt
  <2>2. DOMAIN predictions = {}
    BY <2>1 DEF Nam!NoRows
  <2>3. \A h \in Nam!Hours : ~(h <= done') /\ sAmount'[h] = Nam!NamAmount(h)
    BY <1>1, <1>3, <2>1 DEF Nam!LastHour
  <2>4. Nam!Hours' = Nam!Hours /\ \A h \in Nam!Hours : Nam!NamAmount(h)' = Nam!NamAmount(h)
    BY <1>1 DEF Nam!Hours, Nam!NamAmount, Nam!Fallen, Nam!Interval
  <2> QED
    BY <1>1, <2>1, <2>2, <2>3, <2>4 DEF FirstAttempt
<1> QED
  BY <1>1, <1>2, <1>5, <1>6 DEF NamInv, PredictionHours, NoonOf, Nam!HourOfDay, Nam!Hours, DeltaIsRight

LEMMA JobDeath == ASSUME NamParameters, NamInv, Nam!JobDies PROVE NamInv'
<1>1. /\ namPc' = "idle" /\ done' = -1 /\ cumulative' = 0 /\ kills' = kills + 1 /\ kills < MaxKills
      /\ sAmount' = Nam!NoRows /\ sPredictions' = Nam!NoRows
      /\ cycle' = cycle /\ wet' = wet /\ amount' = amount /\ predictions' = predictions
      /\ interpolated' = interpolated
  BY DEF Nam!JobDies, Nam!JobGone, Nam!world, Nam!tables
<1>2. Nam!RowsOK(sPredictions)'
  BY <1>1 DEF Nam!RowsOK, Nam!NoRows
<1>3. Nam!TypeOK'
  BY <1>1, <1>2 DEF NamParameters, NamInv, Nam!TypeOK, NamCycles, Nam!Hours, Nam!RowsOK, Nam!LastHour
<1>4. kills' # 0
  BY <1>1 DEF NamInv, Nam!TypeOK, NamCycles
<1> QED
  BY <1>1, <1>3, <1>4 DEF NamInv, PredictionHours, NoonOf, Nam!HourOfDay, Nam!Hours, DeltaIsRight

LEMMA Committed == ASSUME NamParameters, NamInv, Nam!Commit PROVE NamInv'
<1>1. /\ namPc = "process" /\ namPc' = "mark" /\ amount' = sAmount /\ predictions' = sPredictions
      /\ cycle' = cycle /\ wet' = wet /\ interpolated' = interpolated /\ done' = done
      /\ cumulative' = cumulative /\ sAmount' = sAmount /\ sPredictions' = sPredictions /\ kills' = kills
      /\ \A h \in Nam!Hours : h <= done
  BY DEF Nam!Commit, Nam!world
<1>2. Processing
  BY <1>1 DEF NamInv
<1>3. Nam!TypeOK'
  BY <1>1, <1>2 DEF NamInv, Nam!TypeOK, NamCycles, Nam!Hours, Nam!RowsOK, Nam!LastHour, Processing
<1>4. Nam!Hours \subseteq 0 .. Nam!LastHour
  BY NamRun, HoursOfARun DEF NamInv
<1>5. ASSUME NEW h \in DOMAIN sPredictions PROVE DeltaIsRight(sPredictions, h)
  <2>1. h \in 0 .. Nam!LastHour /\ (h \in Nam!Hours \/ h + 1 \in Nam!Hours)
    BY <1>2 DEF Processing, PredictionHours, NoonOf
  <2>2. done \in Int
    BY DEF NamInv, Nam!TypeOK, NamCycles, Nam!LastHour
  <2>3. h <= done
    BY <1>1, <1>4, <2>1, <2>2 DEF Nam!LastHour
  <2> QED
    BY <1>2, <2>3 DEF Processing
<1>6. kills = 0 => FirstAttempt'
  BY <1>1 DEF NamInv, FirstAttempt, RowIsRight, Nam!Fallen, Nam!FallenSinceStart, Nam!Hours
<1>7. DOMAIN predictions' \subseteq PredictionHours'
  BY <1>1, <1>2 DEF Processing, PredictionHours, NoonOf, Nam!HourOfDay, Nam!Hours
<1> QED
  BY <1>1, <1>3, <1>5, <1>6, <1>7 DEF NamInv, DeltaIsRight

LEMMA Marked == ASSUME NamParameters, NamInv, Nam!mark_model_run_interpolated PROVE NamInv'
<1>1. /\ namPc = "mark" /\ namPc' = "idle" /\ done' = -1 /\ cumulative' = 0 /\ kills' = kills
      /\ sAmount' = Nam!NoRows /\ sPredictions' = Nam!NoRows /\ interpolated' = TRUE
      /\ cycle' = cycle /\ wet' = wet /\ amount' = amount /\ predictions' = predictions
  BY DEF Nam!mark_model_run_interpolated, Nam!JobGone, Nam!world
<1>2. Nam!RowsOK(sPredictions)'
  BY <1>1 DEF Nam!RowsOK, Nam!NoRows
<1>3. Nam!TypeOK'
  BY <1>1, <1>2 DEF NamParameters, NamInv, Nam!TypeOK, NamCycles, Nam!Hours, Nam!RowsOK, Nam!LastHour
<1>4. kills = 0 => FirstAttempt'
  BY <1>1 DEF NamInv, FirstAttempt, RowIsRight, Nam!Fallen, Nam!FallenSinceStart, Nam!Hours
<1> QED
  BY <1>1, <1>3, <1>4 DEF NamInv, PredictionHours, NoonOf, Nam!HourOfDay, Nam!Hours, DeltaIsRight

(* One more hour, with the noon before it when the two are around one.     *)
LEMMA HourProcessed == ASSUME NamParameters, NamInv, NEW h \in Nam!Hours, Nam!ProcessPrediction(h) PROVE NamInv'
<1> DEFINE current == cumulative + sAmount[h]
           before == {g \in Nam!Hours : g < h}
           between == before # {} /\ Nam!AroundNoon(Nam!Latest(before), h)
           noonSum == (sAmount[Nam!Latest(before)] + 2 * current) \div 3
           atNoon == IF between THEN Nam!Put(sPredictions, Nam!Latest(before) + 2, noonSum) ELSE sPredictions
<1>1. /\ namPc = "process" /\ done < h /\ \A g \in Nam!Hours : done < g => h <= g
      /\ cumulative' = IF Nam!IsAccumulationHour(h) THEN current ELSE cumulative
      /\ sAmount' = [sAmount EXCEPT ![h] = current]
      /\ sPredictions' = Nam!Put(atNoon, h, current)
      /\ done' = h
      /\ cycle' = cycle /\ wet' = wet /\ amount' = amount /\ predictions' = predictions
      /\ interpolated' = interpolated /\ namPc' = namPc /\ kills' = kills
  BY DEF Nam!ProcessPrediction, Nam!world, Nam!tables
<1>2. Nam!TypeOK /\ Processing /\ cycle \in {0, 6, 12, 18} /\ wet \subseteq Nam!HoursOfRain
  BY <1>1, NamRun DEF NamInv
<1>3. /\ Nam!Hours \subseteq 0 .. 81 /\ 0 \in Nam!Hours /\ h \in Int /\ 0 <= h /\ h <= 81
      /\ done \in Int /\ -1 <= done /\ (done # -1 => done \in Nam!Hours)
  <2>1. Nam!Hours \subseteq 0 .. 81 /\ 0 \in Nam!Hours
    BY <1>2, HoursOfARun DEF Nam!LastHour
  <2> QED
    BY <1>2, <2>1 DEF Processing
<1>4. current \in Nat /\ sAmount \in [Nam!Hours -> Nat]
  BY <1>2 DEF Processing, Nam!TypeOK, NamCycles
<1>5. /\ \A g \in Nam!Hours : g < h => g <= done
      /\ before # {} <=> done \in Nam!Hours
      /\ before # {} => Nam!Latest(before) = done
  <2>1. \A g \in Nam!Hours : g < h => g <= done
    BY <1>1, <1>3
  <2>2. ASSUME before # {} PROVE done \in Nam!Hours /\ Nam!Latest(before) = done
    <3>1. PICK g \in Nam!Hours : g < h
      BY <2>2
    <3>2. g <= done /\ 0 <= g
      BY <1>3, <2>1, <3>1
    <3>3. done # -1
      BY <1>3, <3>2
    <3>4. done \in before
      BY <1>1, <1>3, <3>3
    <3>5. before \subseteq Int /\ \A e \in before : e <= done
      <4>1. before \subseteq Nam!Hours /\ \A e \in before : e < h
        OBVIOUS
      <4> HIDE DEF before
      <4> QED
        BY <1>3, <2>1, <4>1
    <3> HIDE DEF before
    <3> QED
      BY <1>3, <3>3, <3>4, <3>5, LatestIs
  <2>3. done \in Nam!Hours => done \in before
    BY <1>1
  <2> QED
    BY <2>1, <2>2, <2>3
<1>6. between => /\ done \in Nam!Hours /\ Nam!Latest(before) = done
                 /\ h = done + 3 /\ NoonOf(done + 2)
  <2> SUFFICES ASSUME between PROVE h = done + 3 /\ NoonOf(done + 2)
    BY <1>5
  <2>1. done \in Nam!Hours /\ Nam!HourOfDay(done) = 18 /\ Nam!HourOfDay(h) = 21
    BY <1>5 DEF Nam!AroundNoon
  <2>2. h - 12 <= done
    BY <1>1, <1>2, <2>1, NextSum
  <2>3. h = done + 3
    BY <1>1, <1>2, <1>3, <2>1, <2>2 DEF Nam!HourOfDay
  <2>4. \A k \in Nam!Hours : k <= done \/ h <= k
    BY <1>1, <1>3
  <2>5. done + 2 \notin Nam!Hours
    BY <1>3, <2>3, <2>4
  <2>6. (done + 2) - 2 = done /\ (done + 2) + 1 = h
    BY <1>3, <2>3
  <2> QED
    BY <2>1, <2>3, <2>4, <2>5, <2>6 DEF NoonOf
<1>7. ASSUME NEW g \in PredictionHours, done < g, g < h PROVE between /\ g = done + 2
  <2>1. g \in Int /\ g \notin Nam!Hours /\ NoonOf(g)
    BY <1>1, <1>3, <1>7 DEF PredictionHours, Nam!LastHour
  <2>2. /\ g - 2 \in Nam!Hours /\ g + 1 \in Nam!Hours /\ Nam!HourOfDay(g - 2) = 18
        /\ \A k \in Nam!Hours : k <= g - 2 \/ g + 1 <= k
    BY <2>1 DEF NoonOf
  <2>3. g - 2 <= done /\ h <= g + 1
    BY <1>1, <1>3, <1>7, <2>1, <2>2
  <2>4. done \in Nam!Hours
    BY <1>3, <2>1, <2>2, <2>3
  <2>5. done = g - 2 /\ h = done + 3
    BY <1>3, <1>7, <2>1, <2>2, <2>3, <2>4
  <2>6. Nam!HourOfDay(done) = 18 /\ Nam!HourOfDay(h) = 21
    BY <1>2, <1>3, <2>2, <2>5 DEF Nam!HourOfDay
  <2> QED
    BY <1>3, <1>5, <2>1, <2>4, <2>5, <2>6 DEF Nam!AroundNoon
<1>8. between => noonSum \in Nat /\ done + 2 \in 0 .. Nam!LastHour /\ done + 2 \in PredictionHours
  <2> SUFFICES ASSUME between PROVE noonSum \in Nat /\ done + 2 \in 0 .. Nam!LastHour
                          /\ done + 2 \in PredictionHours
    OBVIOUS
  <2>1. sAmount[Nam!Latest(before)] \in Nat
    BY <1>4, <1>6
  <2>2. done + 2 \in 0 .. Nam!LastHour
    BY <1>3, <1>6 DEF Nam!LastHour
  <2>3. noonSum \in Nat
    <3> HIDE DEF current, before
    <3> QED
      BY <1>4, <2>1
  <2> QED
    BY <1>6, <2>2, <2>3 DEF PredictionHours
<1>9. /\ Nam!RowsOK(atNoon) /\ DOMAIN atNoon \subseteq PredictionHours
      /\ DOMAIN sPredictions \subseteq DOMAIN atNoon
      /\ \A g \in DOMAIN atNoon : g < h => DeltaIsRight(atNoon, g)
  <2>1. CASE ~between
    <3>1. atNoon = sPredictions
      BY <2>1
    <3>2. \A g \in DOMAIN sPredictions : g < h => g <= done
      BY <1>2, <1>3, <1>7, <2>1 DEF Processing, PredictionHours, Nam!LastHour
    <3> HIDE DEF atNoon, between
    <3> QED
      BY <1>2, <3>1, <3>2 DEF Processing, Nam!TypeOK, NamCycles
  <2>2. CASE between
    <3>1. atNoon = Nam!Put(sPredictions, done + 2, noonSum) /\ noonSum \in Nat /\ done + 2 \in 0 .. Nam!LastHour
      BY <1>6, <1>8, <2>2
    <3>2. done + 2 \in PredictionHours
      BY <1>8, <2>2
    <3> HIDE DEF atNoon, noonSum
    <3>3. Nam!RowsOK(sPredictions) /\ cycle \in NamCycles
      BY <1>2 DEF Nam!TypeOK, NamCycles
    <3>4. Nam!RowsOK(atNoon)
      BY <1>2, <3>1, <3>3, PutTypes
    <3>5. DOMAIN atNoon = DOMAIN sPredictions \cup {done + 2}
      BY <3>1 DEF Nam!Put
    <3>6. /\ DeltaIsRight(atNoon, done + 2)
          /\ \A g \in DOMAIN sPredictions : g < done + 2 /\ DeltaIsRight(sPredictions, g)
                 => DeltaIsRight(atNoon, g)
      BY <3>1, <3>3, PutDelta
    <3>7. ASSUME NEW g \in DOMAIN atNoon, g < h, g # done + 2 PROVE DeltaIsRight(atNoon, g)
      <4>1. g \in DOMAIN sPredictions /\ g \in PredictionHours /\ g \in Int
        BY <1>2, <3>5, <3>7 DEF Processing, PredictionHours
      <4>2. g <= done
        <5>1. ~(done < g)
          BY <1>7, <3>7, <4>1, Zenon
        <5> QED
          BY <1>3, <4>1, <5>1
      <4>3. g < done + 2 /\ DeltaIsRight(sPredictions, g)
        BY <1>2, <1>3, <4>1, <4>2 DEF Processing
      <4> QED
        BY <3>6, <4>1, <4>3
    <3> QED
      BY <1>2, <3>2, <3>4, <3>5, <3>6, <3>7 DEF Processing
  <2> QED
    BY <2>1, <2>2
<1>10. /\ DOMAIN sPredictions' = DOMAIN atNoon \cup {h} /\ Nam!RowsOK(sPredictions')
       /\ \A g \in DOMAIN atNoon : g # h => sPredictions'[g] = atNoon[g]
       /\ sPredictions'[h].apcp = current
       /\ sPredictions'[h].pastDay =
            IF h - 24 \in DOMAIN atNoon THEN Nam!Distance(current, atNoon[h - 24].apcp)
            ELSE Nam!ActualPrecipitation(h) + current
       /\ DeltaIsRight(sPredictions', h)
       /\ \A g \in DOMAIN atNoon : g < h => DeltaIsRight(sPredictions', g)
  <2> HIDE DEF current, atNoon
  <2>1. h \in 0 .. Nam!LastHour /\ cycle \in NamCycles
    BY <1>2, <1>3 DEF Nam!LastHour, Nam!TypeOK, NamCycles
  <2>2. Nam!RowsOK(Nam!Put(atNoon, h, current))
    BY <1>2, <1>4, <1>9, <2>1, PutTypes
  <2>3. /\ DeltaIsRight(Nam!Put(atNoon, h, current), h)
        /\ \A g \in DOMAIN atNoon : g < h /\ DeltaIsRight(atNoon, g)
               => DeltaIsRight(Nam!Put(atNoon, h, current), g)
    BY <1>4, <1>9, <2>1, PutDelta
  <2>4. /\ DOMAIN Nam!Put(atNoon, h, current) = DOMAIN atNoon \cup {h}
        /\ \A g \in DOMAIN atNoon : g # h => Nam!Put(atNoon, h, current)[g] = atNoon[g]
        /\ Nam!Put(atNoon, h, current)[h].apcp = current
        /\ Nam!Put(atNoon, h, current)[h].pastDay =
             IF h - 24 \in DOMAIN atNoon THEN Nam!Distance(current, atNoon[h - 24].apcp)
             ELSE Nam!ActualPrecipitation(h) + current
    BY DEF Nam!Put
  <2> QED
    BY <1>1, <1>9, <2>2, <2>3, <2>4
<1>11. sAmount' \in [Nam!Hours -> Nat] /\ sAmount'[h] = current /\ \A g \in Nam!Hours : g # h
           => sAmount'[g] = sAmount[g]
  <2> HIDE DEF current
  <2> QED
    BY <1>1, <1>4
<1>12. Nam!Hours' = Nam!Hours /\ PredictionHours' = PredictionHours
  BY <1>1 DEF Nam!Hours, PredictionHours, NoonOf, Nam!HourOfDay
<1>13. Nam!TypeOK'
  <2>1. cumulative' \in Nat /\ done' \in -1 .. Nam!LastHour
    BY <1>1, <1>2, <1>3, <1>4 DEF Nam!TypeOK, NamCycles, Nam!LastHour
  <2>2. Nam!RowsOK(predictions)' /\ Nam!RowsOK(sPredictions)'
    BY <1>1, <1>2, <1>10 DEF Nam!TypeOK, NamCycles, Nam!RowsOK
  <2> QED
    BY <1>1, <1>2, <1>12, <2>1, <2>2 DEF Nam!TypeOK, NamCycles
<1>14. Processing'
  <2>1. h \in PredictionHours
    BY <1>3 DEF PredictionHours, Nam!LastHour
  <2>2. ASSUME NEW g \in DOMAIN sPredictions', g <= h PROVE DeltaIsRight(sPredictions', g)
    <3>1. CASE g = h
      BY <1>10, <3>1
    <3>2. CASE g # h
      <4>1. g \in DOMAIN atNoon
        BY <1>10, <3>2
      <4>2. g < h
        <5>1. g \in PredictionHours
          BY <1>9, <4>1
        <5> QED
          BY <1>3, <2>2, <3>2, <5>1 DEF PredictionHours
      <4> QED
        BY <1>10, <4>1, <4>2
    <3> QED
      BY <3>1, <3>2
  <2>3. \A g \in Nam!Hours : g <= h => g \in DOMAIN sPredictions'
    BY <1>2, <1>3, <1>5, <1>9, <1>10 DEF Processing
  <2>4. DOMAIN sPredictions' \subseteq PredictionHours
    BY <1>9, <1>10, <2>1
  <2>5. \A g \in DOMAIN sPredictions' : g <= done' => DeltaIsRight(sPredictions, g)'
    BY <1>1, <2>2 DEF DeltaIsRight
  <2> QED
    BY <1>1, <1>11, <1>12, <2>3, <2>4, <2>5 DEF Processing
<1> HIDE DEF current, atNoon, before, noonSum, between
<1>15. ASSUME kills = 0 PROVE FirstAttempt'
  <2>1. /\ predictions = Nam!NoRows /\ amount = [g \in Nam!Hours |-> Nam!NamAmount(g)]
        /\ cumulative = IF done = -1 THEN 0 ELSE Nam!Fallen(0, LastAccumulation(done))
        /\ \A g \in Nam!Hours : sAmount[g] = IF g <= done THEN Nam!Fallen(0, g) ELSE Nam!NamAmount(g)
        /\ \A g \in DOMAIN sPredictions : g <= done /\ RowIsRight(sPredictions, g)
    BY <1>1, <1>15 DEF NamInv, FirstAttempt
  <2>2. done = -1 => h = 0
    BY <1>1, <1>3
  <2>3. done \in Nam!Hours => LastAccumulation(done) = Start(h)
    BY <1>1, <1>2, NextSum
  <2>4. current = Nam!Fallen(0, h)
    <3>1. sAmount[h] = Nam!NamAmount(h)
      BY <1>1, <1>3, <2>1
    <3>2. CASE done = -1
      <4>1. Nam!Fallen(0, 0) = 0
        BY <1>2, Rain
      <4>2. Nam!NamAmount(h) = 0
        BY <1>2, <2>2, <3>2, Amounts
      <4> QED
        BY <2>1, <2>2, <3>1, <3>2, <4>1, <4>2 DEF current
    <3>3. CASE done # -1
      <4>1. done \in Nam!Hours /\ h # 0
        BY <1>1, <1>3, <3>3
      <4>2. Nam!Fallen(0, Start(h)) + Nam!NamAmount(h) = Nam!Fallen(0, h)
        BY <1>2, <4>1, Amounts
      <4> QED
        BY <2>1, <2>3, <3>1, <3>3, <4>1, <4>2 DEF current
    <3> QED
      BY <3>2, <3>3
  <2>5. cumulative' = Nam!Fallen(0, LastAccumulation(h))
    <3>1. Nam!IsAccumulationHour(h) <=> h % Nam!Interval = 0
      BY <1>2, <1>3, AccumulationHours
    <3>2. CASE h % Nam!Interval = 0
      BY <1>1, <1>3, <2>4, <3>1, <3>2 DEF LastAccumulation
    <3>3. CASE h % Nam!Interval # 0
      <4>1. done # -1
        <5>1. Nam!Interval \in {3, 12}
          BY <1>2, HoursOfARun
        <5>2. h # 0
          BY <3>3, <5>1
        <5> QED
          BY <2>2, <5>2
      <4>2. LastAccumulation(done) = LastAccumulation(h)
        BY <1>3, <2>3, <3>3, <4>1 DEF Start, LastAccumulation
      <4> QED
        BY <1>1, <2>1, <3>1, <3>3, <4>1, <4>2
    <3> QED
      BY <3>2, <3>3
  <2>6. \A g \in Nam!Hours : sAmount'[g] = IF g <= h THEN Nam!Fallen(0, g) ELSE Nam!NamAmount(g)
    <3> SUFFICES ASSUME NEW g \in Nam!Hours
                 PROVE  sAmount'[g] = IF g <= h THEN Nam!Fallen(0, g) ELSE Nam!NamAmount(g)
      OBVIOUS
    <3>1. CASE g = h
      BY <1>3, <1>11, <2>4, <3>1
    <3>2. CASE g # h
      <4>1. g <= h <=> g <= done
        BY <1>1, <1>3, <1>5, <3>2
      <4> QED
        BY <1>11, <2>1, <3>2, <4>1
    <3> QED
      BY <3>1, <3>2
  <2>7. \A g \in DOMAIN atNoon : g < h /\ RowIsRight(atNoon, g)
    <3>1. CASE ~between
      <4>1. atNoon = sPredictions
        BY <3>1 DEF atNoon
      <4> QED
        BY <1>1, <1>3, <2>1, <4>1 , <1>2 DEF Processing, PredictionHours
    <3>2. CASE between
      <4>1. atNoon = Nam!Put(sPredictions, done + 2, noonSum)
        BY <1>6, <3>2 DEF atNoon
      <4>2. /\ DOMAIN atNoon = DOMAIN sPredictions \cup {done + 2}
            /\ \A g \in DOMAIN sPredictions : g # done + 2 => atNoon[g] = sPredictions[g]
            /\ atNoon[done + 2].apcp = noonSum
        BY <4>1 DEF Nam!Put
      <4>3. done \in Nam!Hours /\ h = done + 3 /\ done + 2 \notin Nam!Hours
        BY <1>6, <3>2 DEF NoonOf
      <4>4. noonSum = (Nam!Fallen(0, done) + 2 * Nam!Fallen(0, h)) \div 3
        <5>1. sAmount[done] = Nam!Fallen(0, done)
          BY <1>3, <2>1, <4>3
        <5> QED
          BY <1>6, <2>4, <3>2, <5>1 DEF noonSum
      <4>5. Nam!FallenSinceStart(done + 2) = noonSum
        <5>1. (done + 2) - 2 = done /\ (done + 2) + 1 = h
          BY <1>3, <4>3
        <5> QED
          BY <4>3, <4>4, <5>1 DEF Nam!FallenSinceStart
      <4>6. RowIsRight(atNoon, done + 2) /\ done + 2 < h
        BY <1>3, <4>2, <4>3, <4>5 DEF RowIsRight
      <4>7. ASSUME NEW g \in DOMAIN sPredictions, g # done + 2 PROVE g < h /\ RowIsRight(atNoon, g)
        <5>1. atNoon[g] = sPredictions[g] /\ g <= done /\ RowIsRight(sPredictions, g)
          BY <2>1, <4>2, <4>7
        <5>2. g \in Int
          BY <1>2 DEF Processing, PredictionHours
        <5> QED
          BY <1>3, <4>3, <5>1, <5>2 DEF RowIsRight
      <4> QED
        BY <4>2, <4>6, <4>7
    <3> QED
      BY <3>1, <3>2
  <2>8. RowIsRight(sPredictions', h)
    <3>1. Nam!FallenSinceStart(h) = Nam!Fallen(0, h)
      BY DEF Nam!FallenSinceStart
    <3>2. ASSUME h - 24 \in Nam!Hours PROVE sPredictions'[h].pastDay = Nam!Fallen(h - 24, h)
      <4>1. 0 <= h - 24 /\ h - 24 < h /\ h - 24 <= done
        BY <1>3, <1>5, <3>2
      <4>2. h - 24 \in DOMAIN atNoon
        BY <1>2, <1>9, <3>2, <4>1 DEF Processing
      <4>3. atNoon[h - 24].apcp = Nam!Fallen(0, h - 24)
        BY <2>7, <3>2, <4>2 DEF RowIsRight, Nam!FallenSinceStart
      <4>4. /\ Nam!Fallen(0, h - 24) \in Nat /\ Nam!Fallen(h - 24, h) \in Nat
            /\ Nam!Fallen(0, h - 24) + Nam!Fallen(h - 24, h) = Nam!Fallen(0, h)
        <5>1. h - 24 \in Int /\ h \in Int /\ 0 \in Int /\ h - 24 <= h /\ h <= h
          BY <1>3
        <5>2. Nam!Fallen(h - 24, h) \in Nat
          BY <1>2, <5>1, Rain
        <5> QED
          BY <1>2, <4>1, <5>1, <5>2, Rain
      <4>5. sPredictions'[h].pastDay = Nam!Distance(Nam!Fallen(0, h), Nam!Fallen(0, h - 24))
        BY <1>10, <2>4, <4>2, <4>3
      <4> QED
        BY <4>4, <4>5 DEF Nam!Distance
    <3>3. ASSUME cycle = 0, h - 24 \notin Nam!Hours PROVE sPredictions'[h].pastDay = Nam!Fallen(h - 24, h)
      <4>1. h < 24
        BY <1>2, <1>3, <3>3, HoursOfARun
      <4>2. h - 24 \notin DOMAIN atNoon
        BY <1>3, <1>9, <4>1 DEF PredictionHours
      <4>3. h - Nam!HourOfDay(h) = 0
        BY <1>3, <3>3, <4>1 DEF Nam!HourOfDay
      <4>4. Nam!ActualPrecipitation(h) = Nam!Fallen(h - 24, 0)
        BY <4>3 DEF Nam!ActualPrecipitation, NamParameters
      <4>5. Nam!Fallen(h - 24, 0) + Nam!Fallen(0, h) = Nam!Fallen(h - 24, h)
        <5>1. h - 24 \in Int /\ h - 24 <= 0 /\ 0 <= h /\ h \in Int /\ 0 \in Int
          BY <1>3, <4>1
        <5> QED
          BY <1>2, <5>1, Rain
      <4> QED
        BY <1>10, <2>4, <4>2, <4>4, <4>5
    <3> QED
      BY <1>10, <2>4, <3>1, <3>2, <3>3 DEF RowIsRight
  <2>9. \A g \in DOMAIN sPredictions' : g <= h /\ RowIsRight(sPredictions', g)
    <3> SUFFICES ASSUME NEW g \in DOMAIN sPredictions' PROVE g <= h /\ RowIsRight(sPredictions', g)
      OBVIOUS
    <3>1. CASE g = h
      BY <1>3, <2>8, <3>1
    <3>2. CASE g # h
      <4>1. g \in DOMAIN atNoon /\ sPredictions'[g] = atNoon[g]
        BY <1>10, <3>2
      <4>2. g < h /\ RowIsRight(atNoon, g) /\ g \in Int
        BY <1>9, <2>7, <4>1 DEF PredictionHours
      <4> QED
        BY <1>3, <4>1, <4>2 DEF RowIsRight
    <3> QED
      BY <3>1, <3>2
  <2>10. /\ \A a, b : Nam!Fallen(a, b)' = Nam!Fallen(a, b)
         /\ \A g : Nam!NamAmount(g)' = Nam!NamAmount(g)
         /\ \A g : LastAccumulation(g)' = LastAccumulation(g)
    BY <1>1 DEF Nam!NamAmount, LastAccumulation, Nam!Interval, Nam!Fallen
  <2>11. \A g \in DOMAIN sPredictions' : RowIsRight(sPredictions, g)'
    BY <1>1, <2>9 DEF RowIsRight, Nam!FallenSinceStart, Nam!Fallen, Nam!Hours
  <2>12. DOMAIN predictions' = {}
    BY <1>1, <2>1 DEF Nam!NoRows
  <2>13. predictions' = Nam!NoRows /\ amount' = [g \in Nam!Hours' |-> Nam!NamAmount(g)']
    BY <1>1, <1>12, <2>1, <2>10
  <2>14. cumulative' = Nam!Fallen(0, LastAccumulation(h))' /\ done' # -1
    BY <1>1, <1>3, <2>5, <2>10
  <2>15. \A g \in Nam!Hours' : sAmount'[g] = IF g <= done' THEN Nam!Fallen(0, g)' ELSE Nam!NamAmount(g)'
    BY <1>1, <1>12, <2>6, <2>10
  <2> QED
    BY <1>1, <2>9, <2>11, <2>12, <2>13, <2>14, <2>15 DEF FirstAttempt
<1>16. DOMAIN predictions' \subseteq PredictionHours'
           /\ \A g \in DOMAIN predictions' : DeltaIsRight(predictions, g)'
  BY <1>1, <1>12 DEF NamInv, DeltaIsRight
<1> QED
  BY <1>1, <1>13, <1>14, <1>15, <1>16 DEF NamInv
-----------------------------------------------------------------------------
(* From the start on and after each hour, commit and kill.                *)
THEOREM NamInvariant == ASSUME NamParameters PROVE Nam!Spec => []NamInv
<1>1. Nam!Init => NamInv
  BY NamInitially
<1>2. NamInv /\ [Nam!Next]_Nam!vars => NamInv'
  <2>1. ASSUME NamInv, UNCHANGED Nam!vars PROVE NamInv'
    <3>1. UNCHANGED <<cycle, wet, amount, predictions, interpolated, namPc, done, cumulative, sAmount, sPredictions, kills>>
      BY <2>1 DEF Nam!vars, Nam!world, Nam!tables, Nam!job
    <3>2. Nam!Hours' = Nam!Hours /\ PredictionHours' = PredictionHours
      BY <3>1 DEF Nam!Hours, PredictionHours, NoonOf, Nam!HourOfDay
    <3>3. Nam!TypeOK'
      BY <2>1, <3>1, <3>2 DEF NamInv, Nam!TypeOK, NamCycles, Nam!RowsOK
    <3>4. namPc' = "process" => Processing'
      BY <2>1, <3>1, <3>2 DEF NamInv, Processing, DeltaIsRight
    <3>5. \A g \in DOMAIN predictions' : DeltaIsRight(predictions, g)'
      BY <2>1, <3>1 DEF NamInv, DeltaIsRight
    <3>6. /\ \A g : Nam!NamAmount(g)' = Nam!NamAmount(g) /\ LastAccumulation(g)' = LastAccumulation(g)
          /\ \A a, b : Nam!Fallen(a, b)' = Nam!Fallen(a, b)
      BY <3>1 DEF Nam!NamAmount, LastAccumulation, Nam!Interval, Nam!Fallen
    <3>7. /\ \A g : RowIsRight(predictions, g)' <=> RowIsRight(predictions, g)
          /\ \A g : RowIsRight(sPredictions, g)' <=> RowIsRight(sPredictions, g)
      BY <3>1, <3>2, <3>6 DEF RowIsRight, Nam!FallenSinceStart
    <3>8. kills' = 0 => FirstAttempt'
      BY <2>1, <3>1, <3>2, <3>6, <3>7 DEF NamInv, FirstAttempt
    <3> QED
      BY <2>1, <3>1, <3>2, <3>3, <3>4, <3>5, <3>8 DEF NamInv
  <2> QED
    BY <2>1, JobStart, JobDeath, HourProcessed, Committed, Marked DEF Nam!Next
<1> QED
  BY <1>1, <1>2, PTL DEF Nam!Spec

(* Whatever the rain, the differences of a NAM run are to the prediction   *)
(* just before, also after a job was killed; and the sums of a first       *)
(* attempt are those since the start of the run, and its last 24 hours.    *)
THEOREM NamAddsUp ==
  ASSUME NamParameters
  PROVE  Nam!Spec => [](/\ Nam!TypeOK /\ Nam!DeltasAddUp
                        /\ Nam!FirstAttemptIsCumulative /\ Nam!FirstAttemptMeasuresPastDay)
<1>0. NamInv => Nam!TypeOK
  BY DEF NamInv
<1>1. NamInv => Nam!DeltasAddUp
  BY DEF NamInv, Nam!DeltasAddUp, DeltaIsRight
<1>2. NamInv => Nam!FirstAttemptIsCumulative /\ Nam!FirstAttemptMeasuresPastDay
  BY DEF NamInv, FirstAttempt, RowIsRight, Nam!FirstAttemptIsCumulative,
     Nam!FirstAttemptMeasuresPastDay, Nam!PredictionsAreCumulative
<1> QED
  BY <1>0, <1>1, <1>2, NamInvariant, PTL
-----------------------------------------------------------------------------
Stored(x) == \E r \in actuals : <<r.station, r.hour>> = x

\* Readings that their hour's job will find.
OnTimeIsReadable ==
  \A x \in onTime :
    /\ x \in Stations \X Actuals!Hours /\ x[2] <= readingsClock /\ reported[x] # NoReading
    /\ Actuals!parse_hourly_actual(x[1], x[2], reported[x]) # NoReading

\* What the job of a kind has yet to write.
HourlyJob ==
  /\ ran = readingsClock
  /\ \A row \in job : row.station \in Stations /\ row.hour \in Actuals!Hours /\ row.raw \in ReportedReadings
  /\ \A x \in onTime : readingsClock - 3 < x[2] => Stored(x) \/ \E row \in job : <<row.station, row.hour>> = x

NoonJob ==
  /\ ran = readingsClock
  /\ job \subseteq [station : Stations, update : 1 .. MaxVersions, created : {readingsClock}]
  /\ \A row, other \in job : row.station = other.station => row = other
  /\ \A row \in job : /\ row.update <= noon[row.station]
                      /\ \A r \in noons : r.station = row.station
                             => r.created < readingsClock /\ r.update <= row.update

JobIsSound ==
  job # NoReading =>
    /\ kind = "hourly" => HourlyJob
    /\ kind = "noon" => NoonJob
    /\ kind = "curing" => job = Actuals!CuringRows

\* A reading has one row.
OneRowPerHour ==
  \A r, q \in actuals : r.station = q.station /\ r.hour = q.hour => r = q

\* Forecasts that were stored later are not older.
NoonsInOrder ==
  /\ \A r \in noons : r.update <= noon[r.station] /\ r.created <= ran
  /\ \A r, q \in noons : r.station = q.station =>
       /\ r.created <= q.created => r.update <= q.update
       /\ r.created = q.created => r = q

ReadingsInv ==
  /\ Actuals!TypeOK
  /\ ran <= readingsClock /\ \A c \in endedWell : c <= ran
  /\ OnTimeIsReadable /\ Actuals!MissedRunsLoseNothing
  /\ JobIsSound /\ OneRowPerHour /\ NoonsInOrder /\ Actuals!GrassCuringIsWhole
-----------------------------------------------------------------------------
(* A row is named by its station and hour.                                 *)
LEMMA Parsed ==
  ASSUME NEW s, NEW h, NEW raw, Actuals!parse_hourly_actual(s, h, raw) # NoReading
  PROVE  /\ Actuals!parse_hourly_actual(s, h, raw).station = s
         /\ Actuals!parse_hourly_actual(s, h, raw).hour = h
         /\ Actuals!parse_hourly_actual(s, h, raw).raw = raw
<1>1. Actuals!parse_hourly_actual(s, h, raw) = [station |-> s, hour |-> h, raw |-> raw, valid |-> Actuals!Flags(raw)]
  BY DEF Actuals!parse_hourly_actual
<1> QED
  BY <1>1

LEMMA HourlyRowsAre ==
  ASSUME ReadingsParameters, Actuals!TypeOK
  PROVE  /\ \A row \in Actuals!HourlyRows : row.station \in Stations
                /\ row.hour \in Actuals!Hours /\ row.raw \in ReportedReadings
         /\ \A x \in Stations \X Actuals!Hours :
              readingsClock - 3 < x[2] /\ x[2] <= readingsClock /\ reported[x] # NoReading
                  /\ Actuals!parse_hourly_actual(x[1], x[2], reported[x]) # NoReading
                => \E row \in Actuals!HourlyRows : <<row.station, row.hour>> = x
<1> DEFINE due == {x \in Stations \X Actuals!Hours
        : Actuals!_get_start_date(readingsClock) < x[2] /\ x[2] <= readingsClock /\ reported[x] # NoReading}
           row(x) == Actuals!parse_hourly_actual(x[1], x[2], reported[x])
<1>1. Actuals!HourlyRows = {row(x) : x \in due} \ {NoReading}
  BY DEF Actuals!HourlyRows
<1>2. \A x \in due : x \in Stations \X Actuals!Hours /\ x[1] \in Stations
          /\ x[2] \in Actuals!Hours /\ reported[x] \in ReportedReadings
  BY DEF Actuals!TypeOK
<1>3. \A x \in due : row(x) # NoReading
          => row(x).station = x[1] /\ row(x).hour = x[2] /\ row(x).raw = reported[x]
  BY Parsed
<1>4. ASSUME NEW x \in Stations \X Actuals!Hours, readingsClock - 3 < x[2], x[2] <= readingsClock,
             reported[x] # NoReading, row(x) # NoReading
      PROVE  \E r \in Actuals!HourlyRows : <<r.station, r.hour>> = x
  <2>1. x \in due
    BY <1>4 DEF Actuals!_get_start_date
  <2>2. row(x) \in Actuals!HourlyRows
    BY <1>1, <1>4, <2>1
  <2>3. <<row(x).station, row(x).hour>> = x
    BY <1>3, <1>4, <2>1
  <2> QED
    BY <2>2, <2>3
<1> HIDE DEF due, row
<1>5. \A r \in Actuals!HourlyRows : \E x \in due : r = row(x) /\ row(x) # NoReading
  BY <1>1
<1>6. \A r \in Actuals!HourlyRows : r.station \in Stations /\ r.hour \in Actuals!Hours
          /\ r.raw \in ReportedReadings
  BY <1>2, <1>3, <1>5
<1> QED
  BY <1>4, <1>6 DEF row
-----------------------------------------------------------------------------
LEMMA ReadingsInitially == ASSUME ReadingsParameters, Actuals!Init PROVE ReadingsInv
<1> USE DEF Actuals!Init
<1>1. Actuals!TypeOK
  BY DEF ReadingsParameters, Actuals!TypeOK, Actuals!Hours
<1>2. OnTimeIsReadable /\ Actuals!MissedRunsLoseNothing /\ JobIsSound /\ OneRowPerHour
          /\ NoonsInOrder /\ Actuals!GrassCuringIsWhole
  BY DEF OnTimeIsReadable, Actuals!MissedRunsLoseNothing, JobIsSound, OneRowPerHour, NoonsInOrder,
     Actuals!GrassCuringIsWhole
<1> QED
  BY <1>1, <1>2 DEF ReadingsInv

LEMMA Reported ==
  ASSUME ReadingsParameters, ReadingsInv, NEW s \in Stations, NEW h \in Actuals!Hours,
         NEW raw \in ReportedReadings, Actuals!Report(s, h, raw)
  PROVE  ReadingsInv'
<1>1. /\ kind = "hourly" /\ h <= readingsClock /\ reports < MaxReports
      /\ reported' = [reported EXCEPT ![<<s, h>>] = raw] /\ reports' = reports + 1
      /\ onTime' = IF h = readingsClock /\ ran < readingsClock /\ reported[<<s, h>>] = NoReading
             /\ Actuals!parse_hourly_actual(s, h, raw) # NoReading
                   THEN onTime \union {<<s, h>>} ELSE onTime \ {<<s, h>>}
      /\ kind' = kind /\ readingsClock' = readingsClock /\ noon' = noon /\ actuals' = actuals
      /\ noons' = noons
      /\ curing' = curing /\ job' = job /\ ran' = ran /\ endedWell' = endedWell
  BY DEF Actuals!Report
<1>2. Actuals!TypeOK
  BY DEF ReadingsInv
<1>3. /\ <<s, h>> \in Stations \X Actuals!Hours /\ reported'[<<s, h>>] = raw
      /\ \A x \in Stations \X Actuals!Hours : x # <<s, h>> => reported'[x] = reported[x]
  BY <1>1, <1>2 DEF Actuals!TypeOK
<1>4. Actuals!TypeOK'
  BY <1>1, <1>2, <1>3 DEF Actuals!TypeOK, ReadingsParameters
<1>5. \A x \in onTime' : x # <<s, h>> => x \in onTime
  BY <1>1
<1>6. <<s, h>> \in onTime'
          => h = readingsClock /\ ran < readingsClock /\ Actuals!parse_hourly_actual(s, h, raw) # NoReading
  BY <1>1
<1>7. OnTimeIsReadable'
  <2> SUFFICES ASSUME NEW x \in onTime'
               PROVE  /\ x \in Stations \X Actuals!Hours /\ x[2] <= readingsClock /\ reported'[x] # NoReading
                      /\ Actuals!parse_hourly_actual(x[1], x[2], reported'[x]) # NoReading
    BY <1>1 DEF OnTimeIsReadable, Actuals!parse_hourly_actual, Actuals!Flags, Actuals!get_valid_flags
  <2>1. CASE x = <<s, h>>
    BY <1>1, <1>3, <1>6, <2>1 DEF ReadingsParameters
  <2>2. CASE x # <<s, h>>
    BY <1>3, <1>5, <2>2 DEF ReadingsInv, OnTimeIsReadable
  <2> QED
    BY <2>1, <2>2
<1>8. Actuals!MissedRunsLoseNothing'
  <2> SUFFICES ASSUME NEW x \in onTime', NEW c \in endedWell, x[2] <= c, c <= x[2] + 2 PROVE Stored(x)
    BY <1>1 DEF Actuals!MissedRunsLoseNothing, Stored
  <2>1. CASE x = <<s, h>>
    <3>1. c <= ran /\ x[2] = readingsClock /\ ran < readingsClock
      BY <1>6, <2>1 DEF ReadingsInv
    <3>2. c \in Int /\ ran \in Int /\ readingsClock \in Int
      BY <1>2 DEF Actuals!TypeOK, Actuals!Hours
    <3> QED
      BY <3>1, <3>2
  <2>2. CASE x # <<s, h>>
    BY <1>5, <2>2 DEF ReadingsInv, Actuals!MissedRunsLoseNothing, Stored
  <2> QED
    BY <2>1, <2>2
<1>9. JobIsSound'
  <2> SUFFICES ASSUME job # NoReading PROVE HourlyJob'
    BY <1>1 DEF JobIsSound
  <2>1. HourlyJob
    BY <1>1 DEF ReadingsInv, JobIsSound
  <2>2. \A x \in onTime' : x \in onTime
    <3>1. ~(ran < readingsClock)
      BY <1>2, <2>1 DEF HourlyJob, Actuals!TypeOK, Actuals!Hours
    <3> QED
      BY <1>5, <1>6, <3>1
  <2> QED
    BY <1>1, <2>1, <2>2 DEF HourlyJob, Stored
<1>10. OneRowPerHour' /\ NoonsInOrder' /\ Actuals!GrassCuringIsWhole'
  BY <1>1 DEF ReadingsInv, OneRowPerHour, NoonsInOrder, Actuals!GrassCuringIsWhole
<1> QED
  BY <1>1, <1>4, <1>7, <1>8, <1>9, <1>10 DEF ReadingsInv

LEMMA NoonUpdated ==
  ASSUME ReadingsParameters, ReadingsInv, NEW s \in Stations, Actuals!UpdateNoon(s) PROVE ReadingsInv'
<1>1. /\ kind = "noon" /\ noon[s] < MaxVersions /\ noon' = [noon EXCEPT ![s] = @ + 1]
      /\ kind' = kind /\ readingsClock' = readingsClock /\ reported' = reported
      /\ actuals' = actuals /\ noons' = noons
      /\ curing' = curing /\ job' = job /\ ran' = ran /\ reports' = reports /\ onTime' = onTime
      /\ endedWell' = endedWell
  BY DEF Actuals!UpdateNoon
<1>2. Actuals!TypeOK
  BY DEF ReadingsInv
<1>3. Actuals!TypeOK' /\ \A t \in Stations : noon[t] \in Int /\ noon'[t] \in Int /\ noon[t] <= noon'[t]
  BY <1>1, <1>2 DEF Actuals!TypeOK, ReadingsParameters
<1>4. NoonsInOrder'
  <2>1. \A r \in noons : r.station \in Stations /\ r.update \in Int
    BY <1>2 DEF Actuals!TypeOK
  <2>2. \A r \in noons : r.update <= noon'[r.station]
    BY <1>3, <2>1 DEF ReadingsInv, NoonsInOrder
  <2> QED
    BY <1>1, <2>2 DEF ReadingsInv, NoonsInOrder
<1>5. JobIsSound'
  <2> SUFFICES ASSUME job # NoReading PROVE NoonJob'
    BY <1>1 DEF JobIsSound
  <2>1. NoonJob
    BY <1>1 DEF ReadingsInv, JobIsSound
  <2>2. \A row \in job : row.station \in Stations /\ row.update \in Int
    BY <2>1 DEF NoonJob
  <2>3. \A row \in job : row.update <= noon'[row.station]
    BY <1>3, <2>1, <2>2 DEF NoonJob
  <2> QED
    BY <1>1, <2>1, <2>3 DEF NoonJob
<1>6. OnTimeIsReadable' /\ Actuals!MissedRunsLoseNothing' /\ OneRowPerHour' /\ Actuals!GrassCuringIsWhole'
  BY <1>1 DEF ReadingsInv, OnTimeIsReadable, Actuals!MissedRunsLoseNothing, OneRowPerHour,
     Actuals!GrassCuringIsWhole,
       Actuals!parse_hourly_actual, Actuals!Flags, Actuals!get_valid_flags
<1> QED
  BY <1>1, <1>3, <1>4, <1>5, <1>6 DEF ReadingsInv

LEMMA Ticked == ASSUME ReadingsParameters, ReadingsInv, Actuals!Tick PROVE ReadingsInv'
<1>1. /\ readingsClock < MaxClock /\ readingsClock' = readingsClock + 1 /\ job' = NoReading
      /\ kind' = kind /\ reported' = reported /\ noon' = noon /\ actuals' = actuals /\ noons' = noons
      /\ curing' = curing /\ ran' = ran /\ reports' = reports /\ onTime' = onTime
      /\ endedWell' = endedWell
  BY DEF Actuals!Tick
<1>2. Actuals!TypeOK
  BY DEF ReadingsInv
<1>3. readingsClock \in Int /\ ran \in Int /\ readingsClock <= readingsClock'
          /\ readingsClock' \in Actuals!Hours
  BY <1>1, <1>2 DEF Actuals!TypeOK, Actuals!Hours, ReadingsParameters
<1>4. Actuals!TypeOK'
  BY <1>1, <1>2, <1>3 DEF Actuals!TypeOK
<1>5. OnTimeIsReadable'
  <2>1. \A x \in onTime : x[2] \in Int
    BY <1>2 DEF Actuals!TypeOK, Actuals!Hours
  <2> QED
    BY <1>1, <1>3, <2>1 DEF ReadingsInv, OnTimeIsReadable, Actuals!parse_hourly_actual,
       Actuals!Flags, Actuals!get_valid_flags
<1>6. ran' <= readingsClock'
  BY <1>1, <1>3 DEF ReadingsInv
<1>7. Actuals!MissedRunsLoseNothing' /\ OneRowPerHour' /\ Actuals!GrassCuringIsWhole'
          /\ NoonsInOrder' /\ JobIsSound'
  BY <1>1 DEF ReadingsInv, Actuals!MissedRunsLoseNothing, OneRowPerHour,
     Actuals!GrassCuringIsWhole, NoonsInOrder, JobIsSound
<1> QED
  BY <1>1, <1>4, <1>5, <1>6, <1>7 DEF ReadingsInv

LEMMA HourlyStarted == ASSUME ReadingsParameters, ReadingsInv, Actuals!HourlyStarts PROVE ReadingsInv'
<1>1. /\ kind = "hourly" /\ job = NoReading /\ ran < readingsClock /\ ran' = readingsClock
             /\ job' = Actuals!HourlyRows
      /\ kind' = kind /\ readingsClock' = readingsClock /\ reported' = reported /\ noon' = noon
      /\ actuals' = actuals /\ noons' = noons
      /\ curing' = curing /\ reports' = reports /\ onTime' = onTime /\ endedWell' = endedWell
  BY DEF Actuals!HourlyStarts
<1>2. Actuals!TypeOK
  BY DEF ReadingsInv
<1>3. readingsClock \in Int /\ ran \in Int
  BY <1>2 DEF Actuals!TypeOK, Actuals!Hours
<1>4. Actuals!TypeOK'
  BY <1>1, <1>2 DEF Actuals!TypeOK, Actuals!Hours
<1>5. \A c \in endedWell' : c <= ran'
  BY <1>1, <1>2, <1>3 DEF ReadingsInv, Actuals!TypeOK, Actuals!Hours
<1>6. NoonsInOrder'
  <2>1. \A r \in noons : r.created \in Int
    BY <1>2 DEF Actuals!TypeOK, Actuals!Hours
  <2> QED
    BY <1>1, <1>3, <2>1 DEF ReadingsInv, NoonsInOrder
<1>7. JobIsSound'
  <2>1. /\ \A row \in Actuals!HourlyRows : row.station \in Stations
               /\ row.hour \in Actuals!Hours /\ row.raw \in ReportedReadings
        /\ \A x \in Stations \X Actuals!Hours :
             readingsClock - 3 < x[2] /\ x[2] <= readingsClock /\ reported[x] # NoReading
                 /\ Actuals!parse_hourly_actual(x[1], x[2], reported[x]) # NoReading
               => \E row \in Actuals!HourlyRows : <<row.station, row.hour>> = x
    BY <1>2, HourlyRowsAre
  <2>2. \A x \in onTime : readingsClock - 3 < x[2]
            => \E row \in Actuals!HourlyRows : <<row.station, row.hour>> = x
    BY <2>1 DEF ReadingsInv, OnTimeIsReadable
  <2> QED
    BY <1>1, <2>1, <2>2 DEF JobIsSound, HourlyJob
<1>8. OnTimeIsReadable' /\ Actuals!MissedRunsLoseNothing' /\ OneRowPerHour'
          /\ Actuals!GrassCuringIsWhole' /\ ran' <= readingsClock'
  BY <1>1, <1>3 DEF ReadingsInv, OnTimeIsReadable, Actuals!MissedRunsLoseNothing, OneRowPerHour,
     Actuals!GrassCuringIsWhole,
       Actuals!parse_hourly_actual, Actuals!Flags, Actuals!get_valid_flags
<1> QED
  BY <1>4, <1>5, <1>6, <1>7, <1>8 DEF ReadingsInv

LEMMA NoonStarted == ASSUME ReadingsParameters, ReadingsInv, Actuals!NoonStarts PROVE ReadingsInv'
<1>1. /\ kind = "noon" /\ job = NoReading /\ ran < readingsClock /\ ran' = readingsClock
             /\ job' = Actuals!NoonRows
      /\ kind' = kind /\ readingsClock' = readingsClock /\ reported' = reported /\ noon' = noon
      /\ actuals' = actuals /\ noons' = noons
      /\ curing' = curing /\ reports' = reports /\ onTime' = onTime /\ endedWell' = endedWell
  BY DEF Actuals!NoonStarts
<1>2. Actuals!TypeOK
  BY DEF ReadingsInv
<1>3. readingsClock \in Int /\ ran \in Int /\ \A r \in noons : r.created \in Int
  BY <1>2 DEF Actuals!TypeOK, Actuals!Hours
<1>4. Actuals!TypeOK'
  BY <1>1, <1>2 DEF Actuals!TypeOK, Actuals!Hours
<1>5. \A c \in endedWell' : c <= ran'
  BY <1>1, <1>2, <1>3 DEF ReadingsInv, Actuals!TypeOK, Actuals!Hours
<1>6. NoonsInOrder' /\ \A r \in noons : r.created < readingsClock
  BY <1>1, <1>3 DEF ReadingsInv, NoonsInOrder
<1>7. NoonJob'
  <2>1. \A row \in Actuals!NoonRows : /\ row.station \in Stations /\ row.update = noon[row.station] /\ row.update > 0
                              /\ row = [station |-> row.station, update |-> row.update, created |-> readingsClock]
    BY DEF Actuals!NoonRows
  <2>2. \A row \in Actuals!NoonRows : row.update \in 1 .. MaxVersions
    BY <1>2, <2>1 DEF Actuals!TypeOK, ReadingsParameters
  <2>3. \A row, other \in Actuals!NoonRows : row.station = other.station => row = other
    BY <2>1
  <2>4. \A row \in Actuals!NoonRows : \A r \in noons : r.station = row.station
            => r.created < readingsClock /\ r.update <= row.update
    BY <1>6, <2>1 DEF ReadingsInv, NoonsInOrder
  <2>5. \A row \in Actuals!NoonRows : row.update <= noon[row.station]
    BY <2>1, <2>2
  <2>6. Actuals!NoonRows \subseteq [station : Stations, update : 1 .. MaxVersions, created : {readingsClock}]
    BY <2>1, <2>2
  <2> QED
    BY <1>1, <2>3, <2>4, <2>5, <2>6 DEF NoonJob
<1>8. OnTimeIsReadable' /\ Actuals!MissedRunsLoseNothing' /\ OneRowPerHour'
          /\ Actuals!GrassCuringIsWhole' /\ ran' <= readingsClock'
  BY <1>1, <1>3 DEF ReadingsInv, OnTimeIsReadable, Actuals!MissedRunsLoseNothing, OneRowPerHour,
     Actuals!GrassCuringIsWhole,
       Actuals!parse_hourly_actual, Actuals!Flags, Actuals!get_valid_flags
<1> QED
  BY <1>1, <1>4, <1>5, <1>6, <1>7, <1>8 DEF ReadingsInv, JobIsSound

LEMMA CuringStarted == ASSUME ReadingsParameters, ReadingsInv, Actuals!CuringStarts PROVE ReadingsInv'
<1>1. /\ kind = "curing" /\ job = NoReading /\ job' = Actuals!CuringRows /\ ran' = ran
      /\ kind' = kind /\ readingsClock' = readingsClock /\ reported' = reported /\ noon' = noon
      /\ actuals' = actuals /\ noons' = noons
      /\ curing' = curing /\ reports' = reports /\ onTime' = onTime /\ endedWell' = endedWell
  BY DEF Actuals!CuringStarts
<1>2. Actuals!TypeOK'
  BY <1>1 DEF ReadingsInv, Actuals!TypeOK
<1>3. JobIsSound'
  BY <1>1 DEF JobIsSound, Actuals!CuringRows, Actuals!Today
<1> QED
  BY <1>1, <1>2, <1>3 DEF ReadingsInv, OnTimeIsReadable, Actuals!MissedRunsLoseNothing,
     OneRowPerHour, Actuals!GrassCuringIsWhole,
       NoonsInOrder, Actuals!parse_hourly_actual, Actuals!Flags, Actuals!get_valid_flags

LEMMA ActualSaved ==
  ASSUME ReadingsParameters, ReadingsInv, job # NoReading, NEW row \in job, Actuals!save_hourly_actual(row)
  PROVE  ReadingsInv'
<1>1. /\ kind = "hourly" /\ job' = job \ {row}
      /\ actuals' = IF \E r \in actuals : <<r.station, r.hour>> = <<row.station, row.hour>>
                    THEN actuals ELSE actuals \union {row}
      /\ kind' = kind /\ readingsClock' = readingsClock /\ reported' = reported /\ noon' = noon
      /\ noons' = noons /\ ran' = ran
      /\ curing' = curing /\ reports' = reports /\ onTime' = onTime /\ endedWell' = endedWell
  BY DEF Actuals!save_hourly_actual
<1>2. Actuals!TypeOK /\ HourlyJob
  BY <1>1 DEF ReadingsInv, JobIsSound
<1>3. row.station \in Stations /\ row.hour \in Actuals!Hours /\ row.raw \in ReportedReadings
  BY <1>2 DEF HourlyJob
<1>4. Actuals!TypeOK'
  BY <1>1, <1>2, <1>3 DEF Actuals!TypeOK
<1>5. Stored(<<row.station, row.hour>>)' /\ \A x : Stored(x) => Stored(x)'
  BY <1>1 DEF Stored
<1>6. JobIsSound'
  <2>1. \A x \in onTime : readingsClock - 3 < x[2] => Stored(x)' \/ \E r \in job' : <<r.station, r.hour>> = x
    <3> SUFFICES ASSUME NEW x \in onTime, readingsClock - 3 < x[2], ~Stored(x)'
                 PROVE  \E r \in job' : <<r.station, r.hour>> = x
      OBVIOUS
    <3>1. PICK r \in job : <<r.station, r.hour>> = x
      BY <1>2, <1>5 DEF HourlyJob
    <3>2. r # row
      BY <1>5, <3>1
    <3> QED
      BY <1>1, <3>1, <3>2
  <2> QED
    BY <1>1, <1>2, <2>1 DEF JobIsSound, HourlyJob
<1>7. OneRowPerHour'
  BY <1>1 DEF ReadingsInv, OneRowPerHour
<1>8. Actuals!MissedRunsLoseNothing'
  BY <1>1, <1>5 DEF ReadingsInv, Actuals!MissedRunsLoseNothing, Stored
<1> QED
  BY <1>1, <1>4, <1>6, <1>7, <1>8 DEF ReadingsInv, OnTimeIsReadable, Actuals!GrassCuringIsWhole,
       NoonsInOrder, Actuals!parse_hourly_actual, Actuals!Flags, Actuals!get_valid_flags

LEMMA NoonSaved ==
  ASSUME ReadingsParameters, ReadingsInv, job # NoReading, NEW row \in job, Actuals!save_noon_forecast(row)
  PROVE  ReadingsInv'
<1>1. /\ kind = "noon" /\ job' = job \ {row}
      /\ noons' = IF \E r \in noons : <<r.station, r.update>> = <<row.station, row.update>>
                  THEN noons ELSE noons \union {row}
      /\ kind' = kind /\ readingsClock' = readingsClock /\ reported' = reported /\ noon' = noon
      /\ actuals' = actuals /\ ran' = ran
      /\ curing' = curing /\ reports' = reports /\ onTime' = onTime /\ endedWell' = endedWell
  BY DEF Actuals!save_noon_forecast
<1>2. Actuals!TypeOK /\ NoonJob
  BY <1>1 DEF ReadingsInv, JobIsSound
<1>3. /\ row \in [station : Stations, update : 1 .. MaxVersions, created : {readingsClock}]
             /\ ran = readingsClock /\ readingsClock \in Actuals!Hours
      /\ row.update <= noon[row.station]
      /\ \A r \in noons : r.station = row.station => r.created < readingsClock /\ r.update <= row.update
  BY <1>2 DEF NoonJob, Actuals!TypeOK
<1>4. noons' \subseteq noons \union {row}
  BY <1>1
<1>5. \A r \in noons \union {row} : r.station \in Stations /\ r.update \in Int /\ r.created \in Int
  BY <1>2, <1>3 DEF Actuals!TypeOK, Actuals!Hours
<1>6. Actuals!TypeOK'
  BY <1>1, <1>2, <1>3, <1>4 DEF Actuals!TypeOK
<1>7. JobIsSound'
  <2>1. \A other \in job' : other \in job /\ other # row /\ other.station # row.station
    BY <1>1, <1>2 DEF NoonJob
  <2>2. \A other \in job' : \A r \in noons' : r.station = other.station => r \in noons
    BY <1>4, <2>1
  <2> QED
    BY <1>1, <1>2, <2>1, <2>2 DEF JobIsSound, NoonJob
<1>8. NoonsInOrder'
  <2>1. \A r \in noons' : r.update <= noon[r.station] /\ r.created <= ran
    BY <1>3, <1>4, <1>5 DEF ReadingsInv, NoonsInOrder, Actuals!Hours
  <2>2. ASSUME NEW r \in noons', NEW q \in noons', r.station = q.station
        PROVE  (r.created <= q.created => r.update <= q.update) /\ (r.created = q.created => r = q)
    <3>1. CASE r \in noons /\ q \in noons
      BY <2>2, <3>1 DEF ReadingsInv, NoonsInOrder
    <3>2. CASE r = row
      BY <1>3, <1>4, <1>5, <2>2, <3>2
    <3>3. CASE q = row
      BY <1>3, <1>4, <1>5, <2>2, <3>3
    <3> QED
      BY <1>4, <3>1, <3>2, <3>3
  <2> QED
    BY <1>1, <2>1, <2>2 DEF NoonsInOrder
<1> QED
  BY <1>1, <1>6, <1>7, <1>8 DEF ReadingsInv, OnTimeIsReadable, Actuals!GrassCuringIsWhole,
     Actuals!MissedRunsLoseNothing,
       OneRowPerHour, Actuals!parse_hourly_actual, Actuals!Flags, Actuals!get_valid_flags

LEMMA CuringCommitted == ASSUME ReadingsParameters, ReadingsInv, Actuals!CommitCuring PROVE ReadingsInv'
<1>1. /\ kind = "curing" /\ job # NoReading /\ curing' = curing \union job /\ job' = NoReading
      /\ kind' = kind /\ readingsClock' = readingsClock /\ reported' = reported /\ noon' = noon
      /\ actuals' = actuals /\ noons' = noons
      /\ ran' = ran /\ reports' = reports /\ onTime' = onTime /\ endedWell' = endedWell
  BY DEF Actuals!CommitCuring
<1>2. job = Actuals!CuringRows /\ Actuals!TypeOK
  BY <1>1 DEF ReadingsInv, JobIsSound
<1>3. Actuals!Today(readingsClock) \in Actuals!Hours
  <2>1. readingsClock \in 0 .. MaxClock
    BY <1>2 DEF Actuals!TypeOK, Actuals!Hours
  <2> QED
    BY <2>1 DEF Actuals!Today, Actuals!HoursPerDay, Actuals!Hours, ReadingsParameters
<1>4. Actuals!TypeOK'
  BY <1>1, <1>2, <1>3 DEF Actuals!TypeOK, Actuals!CuringRows
<1>5. Actuals!GrassCuringIsWhole'
  <2>1. \A s \in Stations : [station |-> s, day |-> Actuals!Today(readingsClock)] \in job
    BY <1>2 DEF Actuals!CuringRows
  <2>2. \A r \in job : r.day = Actuals!Today(readingsClock)
    BY <1>2 DEF Actuals!CuringRows
  <2> QED
    BY <1>1, <2>1, <2>2 DEF ReadingsInv, Actuals!GrassCuringIsWhole
<1> QED
  BY <1>1, <1>4, <1>5 DEF ReadingsInv, OnTimeIsReadable, Actuals!MissedRunsLoseNothing,
     OneRowPerHour, NoonsInOrder,
       JobIsSound, Actuals!parse_hourly_actual, Actuals!Flags, Actuals!get_valid_flags

LEMMA JobEnded == ASSUME ReadingsParameters, ReadingsInv, Actuals!JobEnds PROVE ReadingsInv'
<1>1. /\ kind \in {"hourly", "noon"} /\ job = {} /\ job' = NoReading
      /\ endedWell' = IF kind = "hourly" THEN endedWell \union {readingsClock} ELSE endedWell
      /\ kind' = kind /\ readingsClock' = readingsClock /\ reported' = reported /\ noon' = noon
      /\ actuals' = actuals /\ noons' = noons
      /\ curing' = curing /\ ran' = ran /\ reports' = reports /\ onTime' = onTime
  BY DEF Actuals!JobEnds
<1>2. Actuals!TypeOK /\ job # NoReading /\ ran = readingsClock
  BY <1>1 DEF ReadingsInv, ReadingsParameters, JobIsSound, HourlyJob, NoonJob
<1>3. Actuals!TypeOK'
  BY <1>1, <1>2 DEF Actuals!TypeOK
<1>4. \A c \in endedWell' : c <= ran'
  BY <1>1, <1>2 DEF ReadingsInv, Actuals!TypeOK, Actuals!Hours
<1>5. Actuals!MissedRunsLoseNothing'
  <2> SUFFICES ASSUME NEW x \in onTime, NEW c \in endedWell', x[2] <= c, c <= x[2] + 2 PROVE Stored(x)
    BY <1>1 DEF Actuals!MissedRunsLoseNothing, Stored
  <2>1. CASE c \in endedWell
    BY <2>1 DEF ReadingsInv, Actuals!MissedRunsLoseNothing, Stored
  <2>2. CASE kind = "hourly" /\ c = readingsClock
    <3>1. readingsClock - 3 < x[2]
      BY <1>2, <2>2 DEF Actuals!TypeOK, Actuals!Hours
    <3> QED
      BY <1>1, <1>2, <2>2, <3>1 DEF ReadingsInv, JobIsSound, HourlyJob
  <2> QED
    BY <1>1, <2>1, <2>2
<1> QED
  BY <1>1, <1>3, <1>4, <1>5 DEF ReadingsInv, OnTimeIsReadable, Actuals!GrassCuringIsWhole,
     OneRowPerHour, NoonsInOrder,
       JobIsSound, Actuals!parse_hourly_actual, Actuals!Flags, Actuals!get_valid_flags

LEMMA JobDied == ASSUME ReadingsParameters, ReadingsInv, Actuals!JobDies PROVE ReadingsInv'
<1>1. /\ job' = NoReading
      /\ kind' = kind /\ readingsClock' = readingsClock /\ reported' = reported /\ noon' = noon
      /\ actuals' = actuals /\ noons' = noons
      /\ curing' = curing /\ ran' = ran /\ reports' = reports /\ onTime' = onTime
      /\ endedWell' = endedWell
  BY DEF Actuals!JobDies
<1>2. Actuals!TypeOK'
  BY <1>1 DEF ReadingsInv, Actuals!TypeOK
<1> QED
  BY <1>1, <1>2 DEF ReadingsInv, OnTimeIsReadable, Actuals!GrassCuringIsWhole, OneRowPerHour,
     NoonsInOrder,
       Actuals!MissedRunsLoseNothing, JobIsSound, Actuals!parse_hourly_actual, Actuals!Flags, Actuals!get_valid_flags
-----------------------------------------------------------------------------
(* A station has at most one row for each hour between two.                *)
LEMMA RainOnce == ASSUME Actuals!TypeOK, OneRowPerHour PROVE Actuals!RainIsCountedOnce
<1> SUFFICES ASSUME NEW s \in Stations, NEW t \in Actuals!Hours, NEW u \in Actuals!Hours
             PROVE  Actuals!get_accumulated_precipitation(s, t, u) \in {NoReading} \union (0 .. Actuals!Max({0, u - t}))
  BY DEF Actuals!RainIsCountedOnce
<1> DEFINE its == {r \in actuals : r.station = s /\ t < r.hour /\ r.hour <= u}
           f == [r \in its |-> r.hour]
<1>1. t \in Int /\ u \in Int /\ \A r \in actuals : r.hour \in Int
  BY DEF Actuals!TypeOK, Actuals!Hours
<1>2. f \in Injection(its, (t + 1) .. u)
  <2>1. f \in [its -> (t + 1) .. u]
    BY <1>1
  <2>2. \A r, q \in its : f[r] = f[q] => r = q
    BY DEF OneRowPerHour
  <2> QED
    BY <2>1, <2>2 DEF Injection, IsInjective
<1> HIDE DEF its, f
<1>3. IsFiniteSet((t + 1) .. u) /\ Cardinality((t + 1) .. u) = IF t + 1 > u THEN 0 ELSE u - t
  <2>1. t + 1 \in Int /\ u - (t + 1) + 1 = u - t
    BY <1>1
  <2> QED
    BY <1>1, <2>1, FS_Interval
<1>4. Cardinality(its) \in Nat /\ Cardinality(its) <= IF t + 1 > u THEN 0 ELSE u - t
  <2>1. IsFiniteSet(its) /\ Cardinality(its) <= Cardinality((t + 1) .. u)
    BY <1>2, <1>3, FS_Injection
  <2> QED
    BY <1>3, <2>1, FS_CardinalityType
<1>5. Actuals!Max({0, u - t}) = IF u - t > 0 THEN u - t ELSE 0
  <2> DEFINE m == IF u - t > 0 THEN u - t ELSE 0
  <2>1. m \in {0, u - t} /\ \A y \in {0, u - t} : m >= y
    BY <1>1
  <2>2. \A x \in {0, u - t} : (\A y \in {0, u - t} : x >= y) => x = m
    BY <1>1
  <2>3. Actuals!Max({0, u - t}) \in {0, u - t} /\ \A y \in {0, u - t} : Actuals!Max({0, u - t}) >= y
    <3> HIDE DEF m
    <3> QED
      BY <2>1, Zenon DEF Actuals!Max
  <2> QED
    BY <2>2, <2>3
<1>6. Cardinality(its) \in 0 .. Actuals!Max({0, u - t})
  BY <1>1, <1>4, <1>5
<1> QED
  BY <1>6, ReadingsCount DEF Actuals!get_accumulated_precipitation, its

(* The rows of the last job that stored one are one.                       *)
LEMMA LastNoon == ASSUME ReadingsParameters, Actuals!TypeOK, NoonsInOrder PROVE Actuals!LastNoonIsShown
<1> SUFFICES ASSUME NEW s \in Stations, {r.update : r \in {x \in noons : x.station = s}} # {}
             PROVE  Actuals!NoonShown(s) = {Actuals!Max({r.update : r \in {x \in noons : x.station = s}})}
  BY DEF Actuals!LastNoonIsShown
<1> DEFINE its == {x \in noons : x.station = s}
           stored == {r.update : r \in its}
           times == {r.created : r \in its}
<1>1. \A r \in its : r.update \in Int /\ r.created \in Int /\ r.created <= MaxClock
  BY DEF Actuals!TypeOK, Actuals!Hours, ReadingsParameters
<1>2. PICK last \in its : \A r \in its : r.created <= last.created
  <2>1. times # {} /\ times \subseteq Int /\ \A t \in times : t <= MaxClock
    BY <1>1
  <2>2. PICK t \in times : \A w \in times : w <= t
    <3>1. MaxClock \in Int
      BY DEF ReadingsParameters
    <3> HIDE DEF times
    <3> QED
      BY <2>1, <3>1, GreatestNumber
  <2> QED
    BY <2>2
<1>3. \A r \in its : r.update <= last.update /\ ((\A y \in its : y.created <= r.created) => r = last)
  <2> SUFFICES ASSUME NEW r \in its
               PROVE  r.update <= last.update /\ ((\A y \in its : y.created <= r.created) => r = last)
    OBVIOUS
  <2>1. r \in noons /\ last \in noons /\ r.station = last.station
    OBVIOUS
  <2>2. r.created = last.created => r = last
    BY <2>1 DEF NoonsInOrder
  <2>3. r.update <= last.update
    BY <1>2, <2>1 DEF NoonsInOrder
  <2> QED
    BY <1>1, <1>2, <2>2, <2>3
<1>4. Actuals!NoonShown(s) = {last.update}
  <2>1. {x \in its : \A y \in its : y.created <= x.created} = {last}
    BY <1>2, <1>3
  <2>2. Actuals!NoonShown(s) = {r.update : r \in {x \in its : \A y \in its : y.created <= x.created}}
    BY DEF Actuals!NoonShown
  <2> QED
    BY <2>1, <2>2
<1>5. Actuals!Max(stored) = last.update
  <2>1. last.update \in stored /\ stored \subseteq Int /\ \A y \in stored : last.update >= y
    BY <1>1, <1>3
  <2> HIDE DEF stored
  <2>2. Actuals!Max(stored) \in stored /\ \A y \in stored : Actuals!Max(stored) >= y
    BY <2>1, Zenon DEF Actuals!Max
  <2>3. Actuals!Max(stored) >= last.update /\ last.update >= Actuals!Max(stored)
            /\ Actuals!Max(stored) \in Int /\ last.update \in Int
    BY <2>1, <2>2
  <2> QED
    BY <2>3
<1> QED
  BY <1>4, <1>5

(* It holds at the start and after each report, hour and job.             *)
THEOREM ReadingsInvariant == ASSUME ReadingsParameters PROVE Actuals!Spec => []ReadingsInv
<1>1. Actuals!Init => ReadingsInv
  BY ReadingsInitially
<1>2. ReadingsInv /\ [Actuals!Next]_Actuals!vars => ReadingsInv'
  <2>1. ASSUME ReadingsInv, UNCHANGED Actuals!vars PROVE ReadingsInv'
    <3>1. UNCHANGED <<kind, readingsClock, reported, noon, actuals, noons, curing, job, ran, reports, onTime, endedWell>>
      BY <2>1 DEF Actuals!vars
    <3>2. Actuals!TypeOK'
      BY <2>1, <3>1 DEF ReadingsInv, Actuals!TypeOK
    <3>3. JobIsSound'
      BY <2>1, <3>1 DEF ReadingsInv, JobIsSound, HourlyJob, NoonJob, Stored, Actuals!CuringRows
    <3> QED
      BY <2>1, <3>1, <3>2, <3>3 DEF ReadingsInv, OnTimeIsReadable, Actuals!GrassCuringIsWhole,
         OneRowPerHour, NoonsInOrder,
           Actuals!MissedRunsLoseNothing, Actuals!parse_hourly_actual, Actuals!Flags, Actuals!get_valid_flags
  <2> QED
    BY <2>1, Reported, NoonUpdated, Ticked, HourlyStarted, NoonStarted, CuringStarted, ActualSaved,
       NoonSaved,
       CuringCommitted, JobEnded, JobDied DEF Actuals!Next
<1> QED
  BY <1>1, <1>2, PTL DEF Actuals!Spec

(* Whatever WF1 answers and whichever jobs are missed, replaced or die: a  *)
(* reading that was there in time is stored by the next job of three that  *)
(* ends well, once, and noon forecasts and grass curing are whole.         *)
THEOREM ReadingsKept ==
  ASSUME ReadingsParameters
  PROVE  Actuals!Spec => [](/\ Actuals!TypeOK /\ Actuals!MissedRunsLoseNothing /\ Actuals!RainIsCountedOnce
                            /\ Actuals!LastNoonIsShown /\ Actuals!GrassCuringIsWhole)
<1>1. ReadingsInv => Actuals!TypeOK /\ Actuals!MissedRunsLoseNothing /\ Actuals!GrassCuringIsWhole
  BY DEF ReadingsInv
<1>2. ReadingsInv => Actuals!RainIsCountedOnce /\ Actuals!LastNoonIsShown
  BY RainOnce, LastNoon DEF ReadingsInv
<1> QED
  BY <1>1, <1>2, ReadingsInvariant, PTL
-----------------------------------------------------------------------------
(* Days and hours.                                                         *)
LEMMA DateAndHour ==
  ASSUME RdpsParameters, NEW t \in Int
  PROVE  /\ Rdps!date(t) \in Int /\ Rdps!HourOf(t) \in 0 .. Rdps!Day - 1
         /\ t = Rdps!Day * Rdps!date(t) + Rdps!HourOf(t)
<1>1. Rdps!Day \in Nat \ {0}
  BY DEF RdpsParameters, Rdps!Day
<1>2. \A d \in Nat \ {0} : t \div d \in Int /\ t % d \in 0 .. d - 1 /\ t = d * (t \div d) + (t % d)
  OBVIOUS
<1> QED
  BY <1>1, <1>2 DEF Rdps!date, Rdps!HourOf

LEMMA DateOfHour ==
  ASSUME RdpsParameters, NEW d \in Int, NEW h \in 0 .. Rdps!Day - 1
  PROVE  Rdps!date(Rdps!Day * d + h) = d /\ Rdps!HourOf(Rdps!Day * d + h) = h /\ Rdps!Day * d + h \in Int
<1>1. Rdps!Day \in Nat \ {0}
  BY DEF RdpsParameters, Rdps!Day
<1>2. Rdps!Day * d \in Int /\ Rdps!Day * d + h \in Int
  BY <1>1
<1> DEFINE t == Rdps!Day * d + h
           q == Rdps!date(t)
           r == Rdps!HourOf(t)
<1>3. q \in Int /\ r \in 0 .. Rdps!Day - 1 /\ t = Rdps!Day * q + r
  BY <1>2, DateAndHour
<1>4. Rdps!Day * (q - d) = h - r
  BY <1>1, <1>2, <1>3
<1>5. \A n \in Nat \ {0}, x \in Int : -n < n * x /\ n * x < n => x = 0
  OBVIOUS
<1>6. -Rdps!Day < Rdps!Day * (q - d) /\ Rdps!Day * (q - d) < Rdps!Day
  BY <1>1, <1>3, <1>4
<1>7. q - d = 0
  BY <1>1, <1>3, <1>5, <1>6
<1> QED
  <2>1. q = d
    BY <1>3, <1>7
  <2>2. Rdps!Day * 0 = 0
    BY <1>1
  <2>3. h - r = 0
    BY <1>4, <1>7, <2>2
  <2>4. h = r
    BY <1>3, <2>3
  <2> QED
    BY <1>2, <2>1, <2>4

(* The last run before an hour starts at the hour less what is left over.  *)
LEMMA RunOfHour ==
  ASSUME RdpsParameters, NEW h \in 0 .. Rdps!Day - 1
  PROVE  /\ Rdps!model_run_for_hour(h) \in {0, Half} /\ Rdps!model_run_for_hour(h) \in 0 .. Rdps!Day - 1
         /\ Rdps!model_run_for_hour(h) <= h
         /\ Rdps!model_run_for_hour(h) = h <=> h \in {0, Half}
  BY DEF RdpsParameters, Rdps!Day, Rdps!model_run_for_hour

(* The two gribs that are subtracted are the hours t and t - Day of one    *)
(* model run; where that run starts at t - Day there is only the later one.*)
LEMMA KeysCoverOneDay ==
  ASSUME RdpsParameters, NEW t \in Int
  PROVE  LET keys == Rdps!get_raster_keys_to_diff(t)
             later == keys.later.grib
             earlier == keys.earlier.grib
             from == IF keys.earlier = Rdps!NoKey THEN later.run ELSE earlier.run + earlier.forecast
         IN  /\ later.run + later.forecast = t /\ from = t - Rdps!Day
             /\ keys.earlier # Rdps!NoKey => earlier.run = later.run
<1> DEFINE target == t - Rdps!Day
           h == Rdps!HourOf(target)
           run == Rdps!Day * Rdps!date(target) + Rdps!model_run_for_hour(h)
           At(x) == Rdps!Key(Rdps!date(target), Rdps!model_run_for_hour(h),
                             Rdps!Grib(run, x - Rdps!model_run_for_hour(h)))
           keys == Rdps!get_raster_keys_to_diff(t)
<1>1. Rdps!Day \in Nat \ {0} /\ target \in Int
  BY DEF RdpsParameters, Rdps!Day
<1>2. /\ Rdps!date(target) \in Int /\ h \in 0 .. Rdps!Day - 1 /\ target = Rdps!Day * Rdps!date(target) + h
  BY <1>1, DateAndHour
<1>3. /\ Rdps!model_run_for_hour(h) \in Int
      /\ Rdps!model_run_for_hour(h) = h <=> h \in {0, Half}
  BY <1>1, <1>2, RunOfHour
<1>4. keys = [earlier |-> IF h \in {0, Half} THEN Rdps!NoKey ELSE At(h), later |-> At(h + Rdps!Day)]
  BY DEF Rdps!get_raster_keys_to_diff, Rdps!compose_precip_rdps_key, Rdps!adjust_forecast_hour
<1>5. \A x \in Int : At(x).grib.run = run /\ At(x).grib.forecast = x - Rdps!model_run_for_hour(h)
  BY DEF Rdps!Key, Rdps!Grib
<1>6. run \in Int /\ h \in Int /\ h + Rdps!Day \in Int /\ Rdps!Day * Rdps!date(target) \in Int
  BY <1>1, <1>2, <1>3
<1>7. keys.later.grib.run = run /\ keys.later.grib.run + keys.later.grib.forecast = t
  <2>1. keys.later.grib.run = run /\ keys.later.grib.forecast = (h + Rdps!Day) - Rdps!model_run_for_hour(h)
    <3>1. /\ At(h + Rdps!Day).grib.run = run
          /\ At(h + Rdps!Day).grib.forecast = (h + Rdps!Day) - Rdps!model_run_for_hour(h)
      BY DEF Rdps!Key, Rdps!Grib
    <3> HIDE DEF At
    <3>2. keys.later = At(h + Rdps!Day)
      BY <1>4
    <3> QED
      BY <3>1, <3>2
  <2>2. \A p, m, x, d \in Int : t - d = p + x => (p + m) + ((x + d) - m) = t
    OBVIOUS
  <2>3. run + ((h + Rdps!Day) - Rdps!model_run_for_hour(h)) = t
    BY <1>1, <1>2, <1>3, <1>6, <2>2
  <2> QED
    BY <2>1, <2>3
<1>8. CASE h \in {0, Half}
  <2>1. keys.earlier = Rdps!NoKey /\ run = target
    BY <1>2, <1>3, <1>4, <1>8
  <2> QED
    BY <1>7, <2>1
<1>9. CASE h \notin {0, Half}
  <2>1. keys.earlier = At(h)
    BY <1>4, <1>9
  <2>2. keys.earlier.grib.run = run /\ keys.earlier.grib.run + keys.earlier.grib.forecast = target
    BY <1>2, <1>3, <1>5, <1>6, <2>1
  <2>3. keys.earlier # Rdps!NoKey
    <3>1. keys.earlier.grib.forecast # 0
      BY <1>2, <1>3, <1>5, <1>6, <1>9, <2>1
    <3>2. Rdps!NoKey.grib.forecast = 0
      BY DEF Rdps!NoKey, Rdps!Key, Rdps!Grib
    <3> QED
      BY <3>1, <3>2
  <2> QED
    BY <1>7, <2>2, <2>3
<1> QED
  BY <1>8, <1>9

(* A job asks for the run of its day, or, before that run's hour, for the  *)
(* one of the day before.                                                  *)
LEMMA RunsOfAJob ==
  ASSUME RdpsParameters, NEW t \in Nat, NEW run \in {0, Half}
  PROVE  LET start == Rdps!Day * Rdps!date(Rdps!adjust_model_day(t, run)) + run
         IN  /\ start \in Int /\ start <= t /\ -Rdps!Day <= start /\ start % Half = 0
             /\ Rdps!HourOf(start) = run
             /\ \/ Rdps!date(start) = Rdps!date(t)
                \/ run = Half /\ t >= Rdps!Day * (Rdps!date(start) + 1)
<1> DEFINE h == Rdps!HourOf(t)
           d == Rdps!date(Rdps!adjust_model_day(t, run))
<1>1. Rdps!Day \in Nat \ {0} /\ Half \in Nat \ {0} /\ Rdps!Day = 2 * Half /\ run \in 0 .. Rdps!Day - 1
  BY DEF RdpsParameters, Rdps!Day
<1>2. Rdps!date(t) \in Int /\ h \in 0 .. Rdps!Day - 1 /\ t = Rdps!Day * Rdps!date(t) + h
  BY DateAndHour
<1>3. d \in Int /\ \/ h >= run /\ d = Rdps!date(t)
                   \/ h < run /\ d = Rdps!date(t) - 1
  <2>1. CASE h < run
    <3>1. t - Rdps!Day = Rdps!Day * (Rdps!date(t) - 1) + h
      <4>1. \A n, x, r \in Int : (n * x + r) - n = n * (x - 1) + r
        OBVIOUS
      <4>2. (Rdps!Day * Rdps!date(t) + h) - Rdps!Day = Rdps!Day * (Rdps!date(t) - 1) + h
        BY <1>1, <1>2, <4>1
      <4> QED
        BY <1>1, <1>2, <4>2
    <3>2. Rdps!date(t - Rdps!Day) = Rdps!date(t) - 1
      <4>1. Rdps!date(t) - 1 \in Int
        BY <1>2
      <4>2. Rdps!date(Rdps!Day * (Rdps!date(t) - 1) + h) = Rdps!date(t) - 1
        BY <1>2, <4>1, DateOfHour
      <4> QED
        BY <3>1, <4>2
    <3> QED
      BY <1>1, <1>2, <2>1, <3>2 DEF Rdps!adjust_model_day
  <2>2. CASE ~(h < run)
    BY <1>1, <1>2, <2>2 DEF Rdps!adjust_model_day
  <2> QED
    BY <2>1, <2>2
<1>4. Rdps!date(Rdps!Day * d + run) = d /\ Rdps!HourOf(Rdps!Day * d + run) = run /\ Rdps!Day * d + run \in Int
  BY <1>1, <1>3, DateOfHour
<1>5. Rdps!date(t) >= 0
  <2>1. \A x \in Int : x <= -1 => Rdps!Day * x <= -Rdps!Day
    BY <1>1
  <2> QED
    BY <1>1, <1>2, <2>1
<1>6. Rdps!Day * d + run <= t /\ -Rdps!Day <= Rdps!Day * d + run
  <2>1. \A x \in Int : x >= 0 => Rdps!Day * x >= 0 /\ Rdps!Day * (x - 1) = Rdps!Day * x - Rdps!Day
    BY <1>1
  <2> QED
    BY <1>1, <1>2, <1>3, <1>5, <2>1
<1>7. (Rdps!Day * d + run) % Half = 0
  <2>1. \A n \in Nat \ {0}, x \in Int : (n * x) % n = 0
    OBVIOUS
  <2>2. Rdps!Day * d + run = Half * (2 * d) \/ Rdps!Day * d + run = Half * (2 * d + 1)
    <3>1. \A n, x \in Int : (2 * n) * x = n * (2 * x) /\ (2 * n) * x + n = n * (2 * x + 1)
      OBVIOUS
    <3>2. Half \in Int /\ d \in Int /\ Rdps!Day = 2 * Half
      BY <1>1, <1>3
    <3>3. Rdps!Day * d + 0 = Half * (2 * d) /\ Rdps!Day * d + Half = Half * (2 * d + 1)
      BY <3>1, <3>2
    <3> QED
      BY <3>3
  <2> QED
    BY <1>1, <1>3, <2>1, <2>2, SMTT(30)
<1>8. \/ d = Rdps!date(t)
      \/ run = Half /\ t >= Rdps!Day * (d + 1)
  BY <1>1, <1>2, <1>3
<1> QED
  BY <1>4, <1>6, <1>7, <1>8

(* The same as types: days are numbers where their hours are.              *)
LEMMA DatesAreNumbers ==
  ASSUME RdpsParameters, NEW t \in Nat
  PROVE  Rdps!date(t) \in Nat /\ Rdps!HourOf(t) \in 0 .. Rdps!Day - 1 /\ Rdps!Day * Rdps!date(t) \in Nat
<1>1. Rdps!Day \in Nat \ {0}
  BY DEF RdpsParameters, Rdps!Day
<1>2. \A d \in Nat \ {0} : t \div d \in Nat /\ t % d \in 0 .. d - 1 /\ d * (t \div d) \in Nat
  OBVIOUS
<1> QED
  BY <1>1, <1>2 DEF Rdps!date, Rdps!HourOf
-----------------------------------------------------------------------------
(* The inductive invariant.  A job works in the hour it starts in, on urls *)
(* of one run; what is in a row was put in the store, and goes only when   *)
(* it is too old for a job to ask for.                                     *)
RunOf(t, run) == Rdps!Day * Rdps!date(Rdps!adjust_model_day(t, run)) + run

JobIsOfItsHour ==
  /\ rdpsPc # "idle" => hour = now
  /\ rdpsPc \in {"download", "row"} => \A i \in 1 .. Len(queue) : queue[i].run = RunOf(now, run_hour)
  /\ rdpsPc = "row" => queue # <<>> /\ Rdps!generate_s3_key(Head(queue)) \in objects

RowOk(row) ==
  /\ row.key.grib = row.grib
  /\ row.grib.run <= row.created
  /\ \/ row.key.date = Rdps!date(row.grib.run)
     \/ row.grib.run % Rdps!Day = Half /\ row.created >= Rdps!Day * (Rdps!date(row.grib.run) + 1)
  /\ row.grib.run > hour - Rdps!Day => row.key \in objects

RdpsIInv ==
  /\ Rdps!TypeOK
  /\ JobIsOfItsHour
  /\ \A row \in saved : RowOk(row)
  /\ \A t \in DOMAIN computed : t \in Int /\ computed[t] = Rdps!get_raster_keys_to_diff(t)

LEMMA RdpsInitially ==
  ASSUME RdpsParameters, Rdps!Init PROVE RdpsIInv
<1>1. 0 \in Int /\ Half \in Nat /\ RdpsEnds \in Nat /\ hour \in Nat /\ 0 \in 0 .. hour
  BY DEF Rdps!Init, RdpsParameters
<1>4. DOMAIN computed = {}
  <2>1. \A s \in Seq({}) : DOMAIN s = 1 .. Len(s)
    OBVIOUS
  <2>2. computed \in Seq({}) /\ Len(computed) = 0
    BY DEF Rdps!Init
  <2> QED
    BY <2>1, <2>2
<1>2. Rdps!TypeOK
  <2>1. /\ hour \in RdpsStarts .. RdpsEnds /\ lastJob \in 0 .. hour /\ now \in 0 .. hour
        /\ forecast \in 0 .. 3 * Half /\ rdpsFaults \in 0 .. MaxFaults /\ run_hour \in {0, Half}
    BY <1>1 DEF Rdps!Init, RdpsParameters
  <2>2. /\ published \subseteq 0 .. hour /\ modelRuns \subseteq 0 .. hour + Half
        /\ objects \subseteq Rdps!Keys
        /\ saved \subseteq Rdps!Rows /\ deleting \subseteq Rdps!Rows
    BY DEF Rdps!Init
  <2>3. queue \in Seq(Rdps!Gribs)
    BY DEF Rdps!Init
  <2>5. downloaded \in BOOLEAN /\ rdpsPc = "idle"
    BY DEF Rdps!Init
  <2>4. DOMAIN computed = {}
    BY <1>4
  <2> QED
    BY <2>1, <2>2, <2>3, <2>4, <2>5 DEF Rdps!TypeOK
<1>3. JobIsOfItsHour
  BY DEF Rdps!Init, JobIsOfItsHour
<1> QED
  BY <1>2, <1>3, <1>4 DEF Rdps!Init, RdpsIInv

(* What is asked for in an hour is of a run that can be in the store.      *)
LEMMA UrlsOfAJob ==
  ASSUME RdpsParameters, Rdps!TypeOK, NEW t \in Nat, t <= RdpsEnds, NEW run \in {0, Half}
  PROVE  LET urls == Rdps!get_regional_model_run_download_urls(t, run)
         IN  /\ urls \in Seq(Rdps!Gribs)
             /\ \A i \in 1 .. Len(urls) : urls[i].run = RunOf(t, run)
<1> DEFINE urls == Rdps!get_regional_model_run_download_urls(t, run)
<1>1. RunOf(t, run) \in -Rdps!Day .. RdpsEnds
  BY RunsOfAJob DEF RunOf, RdpsParameters, Rdps!Day
<1>2. Rdps!MAX_MODEL_RUN_HOUR \in Nat
  BY DEF Rdps!MAX_MODEL_RUN_HOUR, RdpsParameters
<1>3. urls = [h \in 1 .. Rdps!MAX_MODEL_RUN_HOUR |-> Rdps!Grib(RunOf(t, run), h)]
  BY DEF Rdps!get_regional_model_run_download_urls, RunOf
<1>4. \A h \in 1 .. Rdps!MAX_MODEL_RUN_HOUR : Rdps!Grib(RunOf(t, run), h) \in Rdps!Gribs
  BY <1>1, <1>2 DEF Rdps!Grib, Rdps!Gribs
<1>5. urls \in Seq(Rdps!Gribs) /\ Len(urls) = Rdps!MAX_MODEL_RUN_HOUR
  BY <1>2, <1>3, <1>4
<1>6. \A h \in 1 .. Rdps!MAX_MODEL_RUN_HOUR : urls[h].run = RunOf(t, run)
  BY <1>3 DEF Rdps!Grib
<1> QED
  BY <1>5, <1>6

(* Rows and computed rasters where a step leaves them alone.               *)
LEMMA RowsStay ==
  ASSUME RdpsParameters, RdpsIInv, hour' = hour, objects \subseteq objects', saved' \subseteq saved
  PROVE  \A row \in saved' : RowOk(row)'
<1> SUFFICES ASSUME NEW row \in saved' PROVE RowOk(row)'
  OBVIOUS
<1>1. RowOk(row)
  BY DEF RdpsIInv
<1> QED
  BY <1>1 DEF RowOk

LEMMA ComputedStay ==
  ASSUME RdpsIInv, computed' = computed
  PROVE  \A t \in DOMAIN computed' : t \in Int /\ computed'[t] = Rdps!get_raster_keys_to_diff(t)
  BY DEF RdpsIInv

(* One step of a job's loop over its urls.                                 *)
LEMMA UrlDone ==
  ASSUME RdpsParameters, RdpsIInv, rdpsPc \in {"download", "row"}, queue # <<>>,
         queue' = Tail(queue), rdpsPc' = "download",
         UNCHANGED <<hour, now, run_hour>>
  PROVE  queue' \in Seq(Rdps!Gribs) /\ JobIsOfItsHour'
<1>1. queue \in Seq(Rdps!Gribs)
  BY DEF RdpsIInv, Rdps!TypeOK
<1>2. \A i \in 1 .. Len(queue) : queue[i].run = RunOf(now, run_hour)
  BY DEF RdpsIInv, JobIsOfItsHour
<1>3. /\ Tail(queue) \in Seq(Rdps!Gribs) /\ Len(Tail(queue)) = Len(queue) - 1 /\ Len(queue) \in Nat
      /\ \A i \in 1 .. Len(Tail(queue)) : Tail(queue)[i] = queue[i + 1]
  BY <1>1
<1>4. \A i \in 1 .. Len(Tail(queue)) : Tail(queue)[i].run = RunOf(now, run_hour)
  <2> SUFFICES ASSUME NEW i \in 1 .. Len(Tail(queue)) PROVE Tail(queue)[i].run = RunOf(now, run_hour)
    OBVIOUS
  <2>1. i + 1 \in 1 .. Len(queue)
    BY <1>3
  <2> QED
    BY <1>2, <1>3, <2>1
<1>5. hour = now
  BY DEF RdpsIInv, JobIsOfItsHour
<1> QED
  BY <1>3, <1>4, <1>5 DEF JobIsOfItsHour, RunOf

(* The step that writes a row.                                             *)
LEMMA RowIsWritten ==
  ASSUME RdpsParameters, RdpsIInv, Rdps!create_saved_model_run_for_sfms_url
  PROVE  LET row == [grib |-> Head(queue), key |-> Rdps!generate_s3_key(Head(queue)), created |-> hour]
         IN  row \in Rdps!Rows /\ RowOk(row)
<1> DEFINE grib == Head(queue)
           row == [grib |-> grib, key |-> Rdps!generate_s3_key(grib), created |-> hour]
<1>1. /\ rdpsPc = "row" /\ queue # <<>> /\ hour = now /\ Rdps!generate_s3_key(grib) \in objects
      /\ \A i \in 1 .. Len(queue) : queue[i].run = RunOf(now, run_hour)
  BY DEF Rdps!create_saved_model_run_for_sfms_url, RdpsIInv, JobIsOfItsHour
<1>2. /\ queue \in Seq(Rdps!Gribs) /\ objects \subseteq Rdps!Keys /\ run_hour \in {0, Half}
      /\ hour \in RdpsStarts .. RdpsEnds /\ now \in 0 .. hour
  BY DEF RdpsIInv, Rdps!TypeOK
<1>3. grib \in Rdps!Gribs /\ grib = queue[1] /\ 1 \in 1 .. Len(queue)
  BY <1>1, <1>2
<1>4. grib.run = RunOf(now, run_hour)
  BY <1>1, <1>3
<1>5. hour \in Nat /\ now \in Nat
  BY <1>2 DEF RdpsParameters
<1>6. /\ grib.run <= hour /\ Rdps!HourOf(grib.run) = run_hour
      /\ \/ Rdps!date(grib.run) = Rdps!date(now)
         \/ run_hour = Half /\ now >= Rdps!Day * (Rdps!date(grib.run) + 1)
  BY <1>1, <1>2, <1>4, <1>5, RunsOfAJob DEF RunOf
<1>7. row \in Rdps!Rows
  BY <1>1, <1>2, <1>3, <1>5 DEF Rdps!Rows
<1>8. row.key = Rdps!Key(Rdps!date(now), run_hour, grib)
  BY DEF Rdps!generate_s3_key
<1>9. row.key.grib = row.grib /\ row.key.date = Rdps!date(now)
  BY <1>8 DEF Rdps!Key
<1> HIDE DEF grib
<1>10. row.key \in objects /\ row.grib = grib /\ row.created = hour
  BY <1>1
<1> HIDE DEF row
<1>11. RowOk(row)
  BY <1>1, <1>6, <1>9, <1>10 DEF RowOk, Rdps!HourOf
<1> QED
  BY <1>7, <1>11 DEF row, grib

-----------------------------------------------------------------------------
(* Every step keeps the invariant.                                         *)
LEMMA RdpsInductive ==
  ASSUME RdpsParameters, RdpsIInv, [Rdps!Next]_Rdps!vars PROVE RdpsIInv'
<1> DEFINE ComputedOk == \A t \in DOMAIN computed : t \in Int /\ computed[t] = Rdps!get_raster_keys_to_diff(t)
           RowsOk == \A row \in saved : RowOk(row)
<1> USE DEF Rdps!TypeOK
<1>0. /\ hour \in Nat /\ now \in Nat /\ lastJob \in Nat /\ Half \in Nat /\ Rdps!Day \in Nat /\ Retain \in Nat
      /\ RdpsStarts \in Nat /\ RdpsEnds \in Nat /\ MaxFaults \in Nat /\ 3 * Half \in Nat
  BY DEF RdpsIInv, RdpsParameters, Rdps!Day
<1>T. /\ Rdps!TypeOK /\ JobIsOfItsHour /\ RowsOk /\ ComputedOk
  BY DEF RdpsIInv
<1>Q. ASSUME Rdps!TypeOK', JobIsOfItsHour', RowsOk', ComputedOk' PROVE RdpsIInv'
  BY <1>Q DEF RdpsIInv
<1>1. CASE Rdps!Tick
  <2> USE <1>1 DEF Rdps!Tick
  <2>1. Rdps!TypeOK'
    BY <1>0, <1>T DEF Rdps!jobVars, Rdps!bounds, Rdps!Rows
  <2>2. JobIsOfItsHour'
    BY <1>T DEF JobIsOfItsHour
  <2>3. RowsOk'
    <3> SUFFICES ASSUME NEW row \in saved' PROVE RowOk(row)'
      OBVIOUS
    <3>1. RowOk(row) /\ row \in Rdps!Rows
      BY <1>T
    <3>2. row.grib.run \in Int
      BY <3>1, <1>0 DEF Rdps!Rows, Rdps!Gribs
    <3> QED
      BY <1>0, <3>1, <3>2 DEF RowOk
  <2> QED
    BY <1>Q, <2>1, <2>2, <2>3, ComputedStay
<1>2. ASSUME NEW r \in 0 .. RdpsEnds, Rdps!Publish(r) PROVE RdpsIInv'
  <2> USE <1>2 DEF Rdps!Publish
  <2>1. Rdps!TypeOK'
    BY <1>0, <1>T DEF Rdps!jobVars, Rdps!bounds, Rdps!Rows
  <2>2. JobIsOfItsHour'
    BY <1>T DEF JobIsOfItsHour
  <2> QED
    BY <1>Q, <2>1, <2>2, RowsStay, ComputedStay
<1>3. CASE Rdps!JobStarts
  <2> USE <1>3 DEF Rdps!JobStarts
  <2>1. queue' \in Seq(Rdps!Gribs) /\ \A i \in 1 .. Len(queue') : queue'[i].run = RunOf(hour, 0)
    BY <1>0, <1>T, UrlsOfAJob
  <2>2. Rdps!TypeOK'
    <3>1. queue' \in Seq(Rdps!Gribs)
      BY <2>1
    <3>2. /\ now' \in 0 .. hour' /\ lastJob' \in 0 .. hour' /\ run_hour' \in {0, Half}
          /\ forecast' \in 0 .. 3 * Half /\ deleting' \subseteq Rdps!Rows
      BY <1>0
    <3>3. downloaded' \in BOOLEAN
      OBVIOUS
    <3> QED
      BY <1>T, <3>1, <3>2, <3>3 DEF Rdps!Rows
  <2>3. JobIsOfItsHour'
    BY <2>1 DEF JobIsOfItsHour, RunOf
  <2> QED
    BY <1>Q, <2>2, <2>3, RowsStay, ComputedStay
<1>4. CASE Rdps!SkipUrl
  <2> USE <1>4 DEF Rdps!SkipUrl
  <2>1. queue' \in Seq(Rdps!Gribs) /\ JobIsOfItsHour'
    BY UrlDone
  <2>2. Rdps!TypeOK'
    BY <1>0, <1>T, <2>1 DEF Rdps!bounds, Rdps!Rows
  <2> QED
    BY <1>Q, <2>1, <2>2, RowsStay, ComputedStay
<1>5. CASE Rdps!DownloadFails
  <2> USE <1>5 DEF Rdps!DownloadFails
  <2>1. queue' \in Seq(Rdps!Gribs) /\ JobIsOfItsHour'
    BY UrlDone
  <2>2. Rdps!TypeOK'
    BY <1>0, <1>T, <2>1 DEF Rdps!Rows
  <2> QED
    BY <1>Q, <2>1, <2>2, RowsStay, ComputedStay
<1>6. CASE Rdps!PutObject
  <2> USE <1>6 DEF Rdps!PutObject
  <2>1. Head(queue) \in Rdps!Gribs
    BY <1>T
  <2>2. Rdps!generate_s3_key(Head(queue)) \in Rdps!Keys
    BY <1>0, <1>T, <2>1, DatesAreNumbers DEF Rdps!generate_s3_key, Rdps!Key, Rdps!Keys
  <2>3. Rdps!TypeOK'
    BY <1>0, <1>T, <2>2 DEF Rdps!bounds, Rdps!Rows
  <2>4. JobIsOfItsHour'
    BY <1>T DEF JobIsOfItsHour, Rdps!generate_s3_key, RunOf
  <2> QED
    BY <1>Q, <2>3, <2>4, RowsStay, ComputedStay
<1>7. CASE Rdps!create_saved_model_run_for_sfms_url
  <2> USE <1>7 DEF Rdps!create_saved_model_run_for_sfms_url
  <2> DEFINE new == [grib |-> Head(queue), key |-> Rdps!generate_s3_key(Head(queue)), created |-> hour]
  <2>1. new \in Rdps!Rows /\ RowOk(new)
    BY RowIsWritten
  <2>2. queue # <<>>
    BY <1>T DEF JobIsOfItsHour
  <2>3. queue' \in Seq(Rdps!Gribs) /\ JobIsOfItsHour'
    BY <2>2, UrlDone
  <2>4. saved' = saved \union {new} /\ hour' = hour /\ objects' = objects
    OBVIOUS
  <2> HIDE DEF new
  <2>5. Rdps!TypeOK'
    BY <1>0, <1>T, <2>1, <2>3, <2>4 DEF Rdps!bounds, Rdps!Rows
  <2>6. RowsOk'
    <3> SUFFICES ASSUME NEW row \in saved' PROVE RowOk(row)'
      OBVIOUS
    <3>1. RowOk(row)
      BY <1>T, <2>1, <2>4
    <3> QED
      BY <2>4, <3>1 DEF RowOk
  <2> QED
    BY <1>Q, <2>3, <2>5, <2>6, ComputedStay
<1>8. CASE Rdps!create_model_run_for_sfms
  <2> USE <1>8 DEF Rdps!create_model_run_for_sfms
  <2>1. Rdps!Day * Rdps!date(now) + run_hour \in 0 .. hour + Half
    <3> DEFINE midnight == Rdps!Day * Rdps!date(now)
    <3>1. now = midnight + Rdps!HourOf(now) /\ Rdps!HourOf(now) \in 0 .. Rdps!Day - 1 /\ midnight \in Nat
      <4>1. now \in Int
        BY <1>0
      <4>2. now = midnight + Rdps!HourOf(now)
        BY <4>1, DateAndHour
      <4> QED
        BY <1>0, <4>2, DatesAreNumbers
    <3> HIDE DEF midnight
    <3>2. midnight + run_hour \in 0 .. hour + Half
      BY <1>0, <1>T, <3>1
    <3> QED
      BY <3>2 DEF midnight
  <2>2. modelRuns' \subseteq 0 .. hour + Half
    BY <1>T, <2>1
  <2>3. CASE run_hour = 0
    <3> USE <2>3
    <3>1. queue' \in Seq(Rdps!Gribs) /\ \A i \in 1 .. Len(queue') : queue'[i].run = RunOf(now, Half)
      BY <1>0, <1>T, UrlsOfAJob
    <3>2. Rdps!TypeOK'
      BY <1>0, <1>T, <2>2, <3>1 DEF Rdps!bounds, Rdps!Rows
    <3>3. JobIsOfItsHour'
      BY <1>T, <3>1 DEF JobIsOfItsHour, RunOf
    <3> QED
      BY <1>Q, <3>2, <3>3, RowsStay, ComputedStay
  <2>4. CASE run_hour # 0
    <3> USE <2>4
    <3>1. Rdps!TypeOK'
      BY <1>0, <1>T, <2>2 DEF Rdps!bounds, Rdps!Rows
    <3>2. JobIsOfItsHour'
      BY <1>T DEF JobIsOfItsHour
    <3> QED
      BY <1>Q, <3>1, <3>2, RowsStay, ComputedStay
  <2> QED
    BY <2>3, <2>4
<1>9. CASE Rdps!apply_retention_policy
  <2> USE <1>9 DEF Rdps!apply_retention_policy
  <2>1. Rdps!TypeOK'
    BY <1>0, <1>T DEF Rdps!bounds, Rdps!Rows, Rdps!get_rdps_sfms_urls_for_deletion
  <2>2. JobIsOfItsHour'
    BY <1>T DEF JobIsOfItsHour
  <2>3. RowsOk'
    <3> SUFFICES ASSUME NEW row \in saved' PROVE RowOk(row)'
      OBVIOUS
    <3>1. RowOk(row) /\ row \in Rdps!Rows /\ hour = now
      BY <1>T DEF JobIsOfItsHour
    <3>2. row.grib.run \in Int
      BY <1>0, <3>1 DEF Rdps!Rows, Rdps!Gribs
    <3>3. ASSUME row.grib.run > hour - Rdps!Day,
                 NEW old \in Rdps!get_rdps_sfms_urls_for_deletion, old.key = row.key
          PROVE  FALSE
      <4>1. RowOk(old) /\ old \in Rdps!Rows /\ old.created < now - Retain
        BY <1>T, <3>3 DEF Rdps!get_rdps_sfms_urls_for_deletion
      <4>2. old.grib.run = row.grib.run /\ old.grib.run <= old.created
        BY <3>1, <3>3, <4>1 DEF RowOk
      <4>3. old.created \in Int /\ Retain >= Rdps!Day
        BY <1>0, <4>1 DEF Rdps!Rows, RdpsParameters
      <4> QED
        BY <1>0, <3>1, <3>2, <3>3, <4>1, <4>2, <4>3
    <3>4. row.grib.run > hour - Rdps!Day => row.key \in objects'
      BY <3>1, <3>3 DEF RowOk
    <3> QED
      BY <3>1, <3>4 DEF RowOk
  <2> QED
    BY <1>Q, <2>1, <2>2, <2>3, ComputedStay
<1>10. CASE Rdps!Compute
  <2> USE <1>10 DEF Rdps!Compute
  <2> DEFINE T == Rdps!AccumulationTime
  <2>1. T \in Int
    <3>1. Rdps!model_run_for_hour(Rdps!HourOf(now)) \in Int
      BY <1>0 DEF Rdps!model_run_for_hour
    <3>2. now \in Nat /\ forecast \in Int
      BY <1>0, <1>T DEF Rdps!TypeOK
    <3>3. Rdps!Day * Rdps!date(now) \in Int
      BY <3>2, DatesAreNumbers
    <3> QED
      BY <3>1, <3>2, <3>3 DEF Rdps!AccumulationTime
  <2>2. Rdps!get_raster_keys_to_diff(T) \in [earlier : Rdps!Keys, later : Rdps!Keys]
    <3>1. Rdps!NoKey \in Rdps!Keys
      BY <1>0 DEF Rdps!NoKey, Rdps!Key, Rdps!Grib, Rdps!Keys, Rdps!Gribs
    <3> DEFINE keys == Rdps!get_raster_keys_to_diff(T)
    <3>2. keys = [earlier |-> keys.earlier, later |-> keys.later]
      BY DEF Rdps!get_raster_keys_to_diff
    <3>3. keys.later \in Rdps!Keys /\ keys.earlier \in Rdps!Keys
      BY <1>T, <3>1 DEF Rdps!CanGenerate
    <3> HIDE DEF keys
    <3>4. keys \in [earlier : Rdps!Keys, later : Rdps!Keys]
      BY <3>2, <3>3
    <3> QED
      BY <3>4 DEF keys
  <2>3. /\ DOMAIN computed' = DOMAIN computed \union {T}
        /\ \A t \in DOMAIN computed' : computed'[t] = Rdps!get_raster_keys_to_diff(t)
    BY <1>T
  <2> HIDE DEF T
  <2>4. ComputedOk'
    BY <1>T, <2>1, <2>3
  <2>5. \A t \in DOMAIN computed' : computed'[t] \in [earlier : Rdps!Keys, later : Rdps!Keys]
    BY <1>T, <2>2, <2>3
  <2>6. Rdps!TypeOK'
    <3>1. forecast' \in 0 .. 3 * Half
      BY <1>0, <1>T
    <3> QED
      BY <1>T, <2>5, <3>1 DEF Rdps!bounds, Rdps!Rows
  <2>7. JobIsOfItsHour'
    BY <1>T DEF JobIsOfItsHour
  <2> QED
    BY <1>Q, <2>4, <2>6, <2>7, RowsStay
<1>11. CASE Rdps!ComputeRaises
  <2> USE <1>11 DEF Rdps!ComputeRaises
  <2>1. Rdps!TypeOK'
    BY <1>0, <1>T DEF Rdps!jobVars, Rdps!bounds, Rdps!Rows
  <2>2. JobIsOfItsHour'
    BY <1>T DEF JobIsOfItsHour
  <2> QED
    BY <1>Q, <2>1, <2>2, RowsStay, ComputedStay
<1>12. CASE Rdps!Commit
  <2> USE <1>12 DEF Rdps!Commit
  <2>1. Rdps!TypeOK'
    BY <1>0, <1>T DEF Rdps!jobVars, Rdps!bounds, Rdps!Rows
  <2>2. JobIsOfItsHour'
    BY <1>T DEF JobIsOfItsHour
  <2> QED
    BY <1>Q, <2>1, <2>2, RowsStay, ComputedStay
<1>13. CASE Rdps!JobDies
  <2> USE <1>13 DEF Rdps!JobDies
  <2>1. Rdps!TypeOK'
    BY <1>0, <1>T DEF Rdps!jobVars, Rdps!Rows
  <2>2. JobIsOfItsHour'
    BY <1>T DEF JobIsOfItsHour
  <2> QED
    BY <1>Q, <2>1, <2>2, RowsStay, ComputedStay
<1>14. CASE UNCHANGED Rdps!vars
  <2> USE <1>14 DEF Rdps!vars, Rdps!jobVars, Rdps!bounds
  <2>1. Rdps!TypeOK'
    BY <1>T DEF Rdps!Rows
  <2>2. JobIsOfItsHour'
    BY <1>T DEF JobIsOfItsHour, Rdps!generate_s3_key, RunOf
  <2> QED
    BY <1>Q, <2>1, <2>2, RowsStay, ComputedStay
<1> HIDE DEF Rdps!TypeOK
<1> QED
  BY <1>1, <1>2, <1>3, <1>4, <1>5, <1>6, <1>7, <1>8, <1>9, <1>10, <1>11, <1>12, <1>13, <1>14 DEF Rdps!Next

-----------------------------------------------------------------------------
(* The inductive invariant of the RDPS job: its types, the rows of the  *)
(* objects in the store, and the hours that the computed rasters cover. *)
THEOREM RdpsInvariant == ASSUME RdpsParameters PROVE Rdps!Spec => []RdpsIInv
<1>1. Rdps!Init => RdpsIInv
  BY RdpsInitially
<1>2. RdpsIInv /\ [Rdps!Next]_Rdps!vars => RdpsIInv'
  BY RdpsInductive
<1> QED
  BY <1>1, <1>2, PTL DEF Rdps!Spec

(* Types of the store, the rows and the job.                               *)
THEOREM RdpsTypeCorrect == ASSUME RdpsParameters PROVE Rdps!Spec => []Rdps!TypeOK
<1>1. RdpsIInv => Rdps!TypeOK
  BY DEF RdpsIInv
<1> QED
  BY <1>1, RdpsInvariant, PTL

(* Whatever failed or was published late, a computed raster is the         *)
(* difference of two gribs of one run that are a day apart, or the first   *)
(* day of a run.                                                           *)
THEOREM RastersCoverOneDay == ASSUME RdpsParameters PROVE Rdps!Spec => []Rdps!ComputedCoversOneDay
<1>1. RdpsIInv => Rdps!ComputedCoversOneDay
  <2> SUFFICES ASSUME RdpsIInv, NEW t \in DOMAIN computed
               PROVE  LET later == computed[t].later.grib
                          earlier == computed[t].earlier.grib
                          from == IF computed[t].earlier = Rdps!NoKey THEN later.run
                                  ELSE earlier.run + earlier.forecast
                      IN  /\ later.run + later.forecast = t /\ from = t - Rdps!Day
                          /\ computed[t].earlier # Rdps!NoKey => earlier.run = later.run
    BY DEF Rdps!ComputedCoversOneDay
  <2>1. t \in Int /\ computed[t] = Rdps!get_raster_keys_to_diff(t)
    BY DEF RdpsIInv
  <2> QED
    BY <2>1, KeysCoverOneDay
<1> QED
  BY <1>1, RdpsInvariant, PTL

(* A row never keeps a job from downloading what is not in the store, as   *)
(* long as retention is a day or more.                                     *)
THEOREM RowsKeepTheirObjects == ASSUME RdpsParameters PROVE Rdps!Spec => []Rdps!SkippedUrlsAreStored
<1>1. RdpsIInv => Rdps!SkippedUrlsAreStored
  BY DEF RdpsIInv, RowOk, Rdps!SkippedUrlsAreStored
<1> QED
  BY <1>1, RdpsInvariant, PTL

(* Only files that were fetched after midnight are under another date than *)
(* that of their run, and only those of the run at noon.                   *)
THEOREM MidnightOnly == ASSUME RdpsParameters PROVE Rdps!Spec => []Rdps!StoredUnderItsOwnDate
<1>1. RdpsIInv => Rdps!StoredUnderItsOwnDate
  BY DEF RdpsIInv, RowOk, Rdps!StoredUnderItsOwnDate
<1> QED
  BY <1>1, RdpsInvariant, PTL
=============================================================================
