----------------------------- MODULE SfmsAdvisory -----------------------------
(***************************************************************************)
(* Fire behaviour advisories from SFMS output: routers/sfms.py receives a  *)
(* HFI raster, stores it and publishes a message in the background; the    *)
(* replicas of auto_spatial_advisory/nats_consumer.py each take messages   *)
(* from the same durable group, acknowledge them first and then run five   *)
(* stages, each of which looks for its own rows and writes them in a       *)
(* transaction of its own if there are none.                               *)
(*                                                                         *)
(* A run stands for a row of run_parameters: run type, run_datetime (the   *)
(* creation time of the raster) and for_date.  Runs are numbered in the    *)
(* order SFMS creates them.  The content of a raster, and of what is       *)
(* computed from it, is the run it was created by.                         *)
(***************************************************************************)
EXTENDS Naturals, Sequences

CONSTANTS
  NRuns,
  Keys,          \* keys of the object store: run type, date and for_date
  UploadKey,     \* the key of a run under run_date, the date of the upload
  StatsKey,      \* the key of a run under run_datetime.date(), a date in UTC
  Consumers,     \* replicas of the consumer
  MaxUploads,    \* bound: uploads and manual messages
  MaxFailures    \* bound: exceptions and dying processes

Runs == 1 .. NRuns
NoRun == 0

ASSUME SfmsAssumption ==
  /\ NRuns \in Nat /\ MaxUploads \in Nat /\ MaxFailures \in Nat
  /\ UploadKey \in [Runs -> Keys] /\ StatsKey \in [Runs -> Keys]

(* The stages of a message, in the order the consumer awaits them.         *)
Hfi == 1       \* process_hfi: run_parameters and advisory_classified_hfi
Tpi == 2       \* process_hfi_elevation: advisory_tpi_stats
HighHfi == 3   \* process_high_hfi_area: high_hfi_area
Fuel == 4      \* process_fuel_type_hfi_by_shape: advisory_fuel_stats
Critical == 5  \* calculate_critical_hours: critical_hours
Stages == Hfi .. Critical

VARIABLES
  hfiRaster,    \* sfms/uploads: key -> content
  maskedRaster, \* psu/rasters/hfi: key -> content
  publishing,   \* background tasks of the API: run -> number of messages
  stream,       \* messages of the JetStream work queue
  rows,         \* what each stage committed, per run: one entry per commit
  pc,           \* consumer -> what it does next
  message,      \* consumer -> the run it works on
  stage,        \* consumer -> the stage it is in
  data,         \* consumer -> what the stage read
  dropped,      \* runs a consumer gave up on (history)
  done,         \* <<stage, run>> that a consumer went through (history)
  uploads, failures

vars == <<hfiRaster, maskedRaster, publishing, stream, rows, pc, message, stage, data,
          dropped, done, uploads, failures>>
consumers == <<pc, message, stage, data>>

Init ==
  /\ hfiRaster = [k \in Keys |-> NoRun]
  /\ maskedRaster = [k \in Keys |-> NoRun]
  /\ publishing = [r \in Runs |-> 0]
  /\ stream = <<>>
  /\ rows = [s \in Stages |-> [r \in Runs |-> <<>>]]
  /\ pc = [c \in Consumers |-> "idle"]
  /\ message = [c \in Consumers |-> NoRun]
  /\ stage = [c \in Consumers |-> Hfi]
  /\ data = [c \in Consumers |-> NoRun]
  /\ dropped = {} /\ done = {} /\ uploads = 0 /\ failures = 0

-----------------------------------------------------------------------------
(* The API.                                                                *)

(***************************************************************************)
(* SFMS posts every file of its directory each time it runs: the newest    *)
(* run of a file, which may have been posted before.                       *)
(***************************************************************************)
upload(r) ==
  /\ uploads < MaxUploads
  /\ hfiRaster[UploadKey[r]] <= r
  /\ hfiRaster' = [hfiRaster EXCEPT ![UploadKey[r]] = r]
  /\ publishing' = [publishing EXCEPT ![r] = @ + 1]
  /\ uploads' = uploads + 1
  /\ UNCHANGED <<maskedRaster, stream, rows, consumers, dropped, done, failures>>

\* An operator asks for a raster that is already stored to be processed.
upload_manual_msg(k) ==
  /\ uploads < MaxUploads
  /\ hfiRaster[k] # NoRun
  /\ publishing' = [publishing EXCEPT ![hfiRaster[k]] = @ + 1]
  /\ uploads' = uploads + 1
  /\ UNCHANGED <<hfiRaster, maskedRaster, stream, rows, consumers, dropped, done, failures>>

publish(r) ==
  /\ publishing[r] > 0
  /\ publishing' = [publishing EXCEPT ![r] = @ - 1]
  /\ stream' = Append(stream, r)
  /\ UNCHANGED <<hfiRaster, maskedRaster, rows, consumers, dropped, done, uploads, failures>>

\* _publish swallows every exception: the file is stored, nobody processes it.
PublishFails(r) ==
  /\ publishing[r] > 0 /\ failures < MaxFailures
  /\ publishing' = [publishing EXCEPT ![r] = @ - 1]
  /\ failures' = failures + 1
  /\ UNCHANGED <<hfiRaster, maskedRaster, stream, rows, consumers, dropped, done, uploads>>

-----------------------------------------------------------------------------
(* A consumer.                                                             *)

Fetch(c) ==
  /\ pc[c] = "idle" /\ stream # <<>>
  /\ message' = [message EXCEPT ![c] = Head(stream)]
  /\ stream' = Tail(stream)
  /\ pc' = [pc EXCEPT ![c] = "fetched"]
  /\ UNCHANGED <<hfiRaster, maskedRaster, publishing, rows, stage, data, dropped, done, uploads,
                 failures>>

\* The message is acknowledged before any of the work is done.
Ack(c) ==
  /\ pc[c] = "fetched"
  /\ pc' = [pc EXCEPT ![c] = "check"]
  /\ stage' = [stage EXCEPT ![c] = Hfi]
  /\ UNCHANGED <<hfiRaster, maskedRaster, publishing, stream, rows, message, data, dropped, done,
                 uploads, failures>>

\* A consumer that dies without an acknowledgement: the message comes back.
Redeliver(c) ==
  /\ pc[c] = "fetched" /\ failures < MaxFailures
  /\ failures' = failures + 1
  /\ stream' = Append(stream, message[c])
  /\ pc' = [pc EXCEPT ![c] = "idle"]
  /\ message' = [message EXCEPT ![c] = NoRun]
  /\ UNCHANGED <<hfiRaster, maskedRaster, publishing, rows, stage, data, dropped, done, uploads>>

\* What a stage looks for before it does its work.
AlreadyProcessed(s, r) == rows[s][r] # <<>>

\* Regression: the loop over the stages goes one too far.
OneStageTooMany(c) ==
  /\ pc' = [pc EXCEPT ![c] = "check"]
  /\ data' = [data EXCEPT ![c] = NoRun]
  /\ stage' = [stage EXCEPT ![c] = @ + 1]
  /\ UNCHANGED message

NextStage(c) ==
  IF stage[c] = Critical
    THEN /\ pc' = [pc EXCEPT ![c] = "idle"]
         /\ message' = [message EXCEPT ![c] = NoRun]
         /\ data' = [data EXCEPT ![c] = NoRun]
         /\ stage' = [stage EXCEPT ![c] = Hfi]
    ELSE /\ pc' = [pc EXCEPT ![c] = "check"]
         /\ data' = [data EXCEPT ![c] = NoRun]
         /\ stage' = [stage EXCEPT ![c] = @ + 1]
         /\ UNCHANGED message

\* The stage has stored what its query found, now or before.
PassStage(c) ==
  /\ NextStage(c)
  /\ done' = done \union {<<stage[c], message[c]>>}

\* Regression: the first stage that is already processed ends the message.
CheckOrLeave(c) ==
  /\ pc[c] = "check"
  /\ IF AlreadyProcessed(stage[c], message[c])
       THEN /\ pc' = [pc EXCEPT ![c] = "idle"]
            /\ message' = [message EXCEPT ![c] = NoRun]
            /\ UNCHANGED <<stage, data>>
       ELSE pc' = [pc EXCEPT ![c] = "read"] /\ UNCHANGED <<message, stage, data>>
  /\ UNCHANGED <<hfiRaster, maskedRaster, publishing, stream, rows, dropped, done, uploads,
                 failures>>

Check(c) ==
  /\ pc[c] = "check"
  /\ IF AlreadyProcessed(stage[c], message[c])
       THEN PassStage(c)
       ELSE pc' = [pc EXCEPT ![c] = "read"] /\ UNCHANGED <<message, stage, data, done>>
  /\ UNCHANGED <<hfiRaster, maskedRaster, publishing, stream, rows, dropped, uploads, failures>>

\* Regression: the fuel statistics are made of the masked raster.
FuelFromMasked(s, r) ==
  CASE s = Hfi      -> hfiRaster[UploadKey[r]]
    [] s = Tpi      -> maskedRaster[StatsKey[r]]
    [] s = HighHfi  -> Len(rows[Hfi][r])
    [] s = Fuel     -> maskedRaster[StatsKey[r]]
    [] s = Critical -> Len(rows[Fuel][r])

(***************************************************************************)
(* What a stage computes from.  The area of high HFI is the sum over the   *)
(* classified polygons of the run: how often each of them is there.        *)
(***************************************************************************)
StageInput(s, r) ==
  CASE s = Hfi      -> hfiRaster[UploadKey[r]]
    [] s = Tpi      -> maskedRaster[StatsKey[r]]
    [] s = HighHfi  -> Len(rows[Hfi][r])
    [] s = Fuel     -> hfiRaster[StatsKey[r]]
    [] s = Critical -> Len(rows[Fuel][r])

\* A raster can be missing; a query that finds no row is no error.
RasterStages == {Hfi, Tpi, Fuel}
IsMissing(s, r) == s \in RasterStages /\ StageInput(s, r) = NoRun

Read(c) ==
  /\ pc[c] = "read"
  /\ ~IsMissing(stage[c], message[c])
  /\ data' = [data EXCEPT ![c] = StageInput(stage[c], message[c])]
  /\ pc' = [pc EXCEPT ![c] = IF stage[c] = Hfi THEN "put" ELSE "write"]
  /\ UNCHANGED <<hfiRaster, maskedRaster, publishing, stream, rows, message, stage, dropped,
                 done, uploads, failures>>

\* Regression: the masked raster is not uploaded over an older one.
PutIfAbsent(c) ==
  /\ pc[c] = "put"
  /\ maskedRaster' = [maskedRaster EXCEPT ![UploadKey[message[c]]] =
                        IF @ = NoRun THEN data[c] ELSE @]
  /\ pc' = [pc EXCEPT ![c] = "write"]
  /\ UNCHANGED <<hfiRaster, publishing, stream, rows, message, stage, data, dropped, done, uploads,
                 failures>>

\* process_hfi uploads the masked raster for the elevation stage.
PutMaskedRaster(c) ==
  /\ pc[c] = "put"
  /\ maskedRaster' = [maskedRaster EXCEPT ![UploadKey[message[c]]] = data[c]]
  /\ pc' = [pc EXCEPT ![c] = "write"]
  /\ UNCHANGED <<hfiRaster, publishing, stream, rows, message, stage, data, dropped, done, uploads,
                 failures>>

\* Regression: the table has no unique constraint.
AnyRowsFit(s, r) == TRUE

\* advisory_fuel_stats alone has a unique constraint against a second copy.
FitsConstraints(s, r) == s = Fuel => rows[s][r] = <<>>

\* The run_parameters row is written in any case, the rows of the other stages
\* if the query of the stage finds something; nothing comes of no rows.
Write(c) ==
  /\ pc[c] = "write"
  /\ FitsConstraints(stage[c], message[c])
  /\ data[c] # NoRun
  /\ rows' = [rows EXCEPT ![stage[c]][message[c]] = Append(@, data[c])]
  /\ PassStage(c)
  /\ UNCHANGED <<hfiRaster, maskedRaster, publishing, stream, dropped, uploads, failures>>

\* No pixel under advisory, snow on all of them, no station with critical hours:
\* the transaction ends without a row, and AlreadyProcessed stays FALSE.
WriteNone(c) ==
  /\ pc[c] = "write" /\ stage[c] # Hfi
  /\ PassStage(c)
  /\ UNCHANGED <<hfiRaster, maskedRaster, publishing, stream, rows, dropped, uploads, failures>>

\* Regression: the stages after one that failed run all the same.
GoOnRegardless(c) ==
  /\ NextStage(c)
  /\ dropped' = dropped \union {message[c]}

GiveUp(c) ==
  /\ pc' = [pc EXCEPT ![c] = "idle"]
  /\ message' = [message EXCEPT ![c] = NoRun]
  /\ stage' = [stage EXCEPT ![c] = Hfi]
  /\ data' = [data EXCEPT ![c] = NoRun]
  /\ dropped' = dropped \union {message[c]}

(***************************************************************************)
(* A stage raises: its transaction is rolled back and the message is not   *)
(* published again, since nobody runs the BackgroundTasks of the handler.  *)
(* A raster that is not there and a violated constraint always raise.      *)
(***************************************************************************)
StageRaises(c) ==
  /\ \/ pc[c] = "read" /\ IsMissing(stage[c], message[c])
     \/ pc[c] = "write" /\ ~FitsConstraints(stage[c], message[c])
  /\ GiveUp(c)
  /\ UNCHANGED <<hfiRaster, maskedRaster, publishing, stream, rows, done, uploads, failures>>

\* Any other exception, or the end of the process.
StageFails(c) ==
  /\ pc[c] \in {"check", "read", "put", "write"} /\ failures < MaxFailures
  /\ failures' = failures + 1
  /\ GiveUp(c)
  /\ UNCHANGED <<hfiRaster, maskedRaster, publishing, stream, rows, done, uploads>>

-----------------------------------------------------------------------------
ConsumerStep(c) ==
  \/ Fetch(c) \/ Ack(c) \/ Check(c) \/ Read(c) \/ PutMaskedRaster(c)
  \/ Write(c) \/ WriteNone(c) \/ StageRaises(c)

Next ==
  \/ \E r \in Runs : upload(r)
  \/ \E k \in Keys : upload_manual_msg(k)
  \/ \E r \in Runs : publish(r)
  \/ \E r \in Runs : PublishFails(r)
  \/ \E c \in Consumers : ConsumerStep(c)
  \/ \E c \in Consumers : Redeliver(c)
  \/ \E c \in Consumers : StageFails(c)

Spec == Init /\ [][Next]_vars

\* Background tasks run, and a consumer that does not die keeps working.
Fairness ==
  /\ \A r \in Runs : WF_vars(publish(r))
  /\ \A c \in Consumers : WF_vars(ConsumerStep(c))
FairSpec == Spec /\ Fairness

-----------------------------------------------------------------------------
TypeOK ==
  /\ hfiRaster \in [Keys -> 0 .. NRuns] /\ maskedRaster \in [Keys -> 0 .. NRuns]
  /\ publishing \in [Runs -> Nat]
  /\ stream \in Seq(Runs)
  /\ rows \in [Stages -> [Runs -> Seq(Nat)]]
  /\ pc \in [Consumers -> {"idle", "fetched", "check", "read", "put", "write"}]
  /\ message \in [Consumers -> 0 .. NRuns]
  /\ \A c \in Consumers : pc[c] # "idle" => message[c] \in Runs
  /\ stage \in [Consumers -> Stages]
  /\ data \in [Consumers -> Nat]
  /\ dropped \in SUBSET Runs /\ done \in SUBSET (Stages \X Runs)
  /\ uploads \in Nat /\ failures \in Nat

(* The stages of a run are gone through in order, whatever fails and       *)
(* however many consumers work on the same run: a stage has rows only if   *)
(* every earlier one has stored what its query found.  An empty table      *)
(* before a filled one means that there was nothing to store, never that   *)
(* the stage failed; every row has its run_parameters, and critical hours  *)
(* have the fuel types they were computed from.                            *)
StagesInOrder ==
  \A r \in Runs, s \in Stages : rows[s][r] # <<>> =>
    /\ \A t \in Stages : t < s => <<t, r>> \in done
    /\ rows[Hfi][r] # <<>>
    /\ s = Critical => rows[Fuel][r] # <<>>

(* A run's rows are written once and the area under advisory counts each   *)
(* polygon once, although the same run may be posted again and a failed    *)
(* message's work done a second time.                                      *)
RowsAreWrittenOnce ==
  \A r \in Runs :
    /\ \A s \in Stages : Len(rows[s][r]) <= 1
    /\ \A i \in DOMAIN rows[HighHfi][r] : rows[HighHfi][r][i] = 1

(* The unique constraint alone keeps the fuel statistics of a run single   *)
(* when two consumers compute them at once.                                *)
FuelStatsAreWrittenOnce == \A r \in Runs : Len(rows[Fuel][r]) <= 1

\* The run whose raster is the last one posted under its key.
Newest(r) == hfiRaster[UploadKey[r]] = r

\* A stage that reads the raster by run_datetime.date() finds the one that was
\* uploaded by run_date: not for a run created in the evening, when UTC is a day on.
FindsItsRaster(s, r) == s = Hfi \/ StatsKey[r] = UploadKey[r]

\* What the rows of stage s of run r were computed from is its own raster, or a
\* newer one that had replaced it; its own if it is the newest run.
ComesOfItsRaster(s, r) ==
  \A i \in DOMAIN rows[s][r] :
    /\ rows[s][r][i] >= r
    /\ Newest(r) => rows[s][r][i] = r

(* However many consumers work side by side, the polygons and the fuel     *)
(* statistics of a run never come from a raster older than the run, those  *)
(* of the newest run from its own: "we only care about the most recent     *)
(* one".  (The elevation, which is made of the masked raster, may: see     *)
(* AloneRowsAreOwnAndOnce.)                                                *)
RasterStatsAreNotStale ==
  \A r \in Runs, s \in {Hfi, Fuel} : FindsItsRaster(s, r) => ComesOfItsRaster(s, r)

Queued(r) == \E i \in DOMAIN stream : stream[i] = r

\* Everything there was to compute of the run has been computed.
Finished(r) == \A s \in Stages : <<s, r>> \in done

(* Once nothing fails any more, a message that is delivered again takes    *)
(* its run through the last stage, from wherever earlier attempts left it, *)
(* if the stages find its rasters.                                         *)
ResumedMessagesAreFinished ==
  \A r \in Runs :
    FindsItsRaster(Tpi, r) => (Queued(r) /\ failures = MaxFailures ~> Finished(r))

(* "Error processing HFI message, adding back to queue": a message whose   *)
(* processing raised is in the queue again later.                          *)
FailedMessagesComeBack ==
  \A r \in Runs : r \in dropped ~> (Queued(r) \/ Finished(r))
=============================================================================
