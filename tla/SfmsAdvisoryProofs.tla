-------------------------- MODULE SfmsAdvisoryProofs --------------------------
(***************************************************************************)
(* What holds of the advisory pipeline for every number of consumers, of   *)
(* runs and of keys, and however often consumers fail.                     *)
(***************************************************************************)
EXTENDS MCSfmsAdvisory, TLAPS, FiniteSetTheorems

USE DEF Hfi, Tpi, HighHfi, Fuel, Critical

\* A consumer that has acknowledged its message and runs a stage.
Working(c) == pc[c] \in {"check", "read", "put", "write"}

(* The type invariant, in the parts the steps below disturb.               *)
RowsOK ==
  /\ rows \in [Stages -> [Runs -> Seq(Nat)]]
  /\ stage \in [Consumers -> Stages]

MessagesOK ==
  /\ stream \in Seq(Runs)
  /\ pc \in [Consumers -> {"idle", "fetched", "check", "read", "put", "write"}]
  /\ message \in [Consumers -> 0 .. NRuns]
  /\ \A c \in Consumers : pc[c] # "idle" => message[c] \in Runs

StoreOK ==
  /\ hfiRaster \in [Keys -> 0 .. NRuns] /\ maskedRaster \in [Keys -> 0 .. NRuns]
  /\ publishing \in [Runs -> Nat]
  /\ data \in [Consumers -> Nat]
  /\ dropped \in SUBSET Runs /\ done \in SUBSET (Stages \X Runs)
  /\ uploads \in Nat /\ failures \in Nat

\* What process_hfi is about to upload is the raster of a run.
PutsARaster == \A c \in Consumers : pc[c] = "put" => stage[c] = Hfi /\ data[c] \in 0 .. NRuns

\* A consumer that works on a stage has gone through the earlier ones, or found
\* that another one had.
EarlierStagesAreThere ==
  \A c \in Consumers : Working(c) =>
    \A s \in Stages : s < stage[c] => <<s, message[c]>> \in done

\* Nobody goes on without the row of run_parameters, and the critical hours that
\* are to be written come of fuel types that are there.
RunsAreThere ==
  /\ \A r \in Runs : <<Hfi, r>> \in done => rows[Hfi][r] # <<>>
  /\ \A c \in Consumers : pc[c] = "write" /\ stage[c] = Critical /\ data[c] # NoRun =>
                            rows[Fuel][message[c]] # <<>>

IInv ==
  /\ RowsOK /\ MessagesOK /\ StoreOK /\ PutsARaster
  /\ EarlierStagesAreThere /\ RunsAreThere
  /\ StagesInOrder
  /\ FuelStatsAreWrittenOnce
-----------------------------------------------------------------------------
(* The next stage, or the end of the message.                              *)
LEMMA NextStageMoves ==
  ASSUME RowsOK, MessagesOK, NEW c \in Consumers, NextStage(c), pc[c] # "idle"
  PROVE  /\ stage' \in [Consumers -> Stages]
         /\ pc' \in [Consumers -> {"idle", "fetched", "check", "read", "put", "write"}]
         /\ message' \in [Consumers -> 0 .. NRuns]
         /\ \A d \in Consumers : pc'[d] # "idle" => message'[d] \in Runs
         /\ \A d \in Consumers \ {c} : /\ stage'[d] = stage[d] /\ pc'[d] = pc[d]
                                       /\ message'[d] = message[d]
         /\ \/ pc'[c] = "idle"
            \/ pc'[c] = "check" /\ message'[c] = message[c] /\ stage'[c] = stage[c] + 1
<1>1. CASE stage[c] = Critical
  <2>1. pc' = [pc EXCEPT ![c] = "idle"] /\ message' = [message EXCEPT ![c] = 0]
        /\ stage' = [stage EXCEPT ![c] = 1]
    BY <1>1 DEF NextStage, NoRun
  <2>2. 0 \in 0 .. NRuns /\ 1 \in Stages
    BY SfmsAssumption DEF Stages
  <2>3. stage' \in [Consumers -> Stages] /\ message' \in [Consumers -> 0 .. NRuns]
    BY <2>1, <2>2 DEF RowsOK, MessagesOK
  <2>4. pc' \in [Consumers -> {"idle", "fetched", "check", "read", "put", "write"}]
    BY <2>1 DEF MessagesOK
  <2>5. \A d \in Consumers : pc'[d] # "idle" => message'[d] \in Runs
    BY <2>1 DEF MessagesOK
  <2>6. pc'[c] = "idle" /\ \A d \in Consumers \ {c} :
          stage'[d] = stage[d] /\ pc'[d] = pc[d] /\ message'[d] = message[d]
    BY <2>1 DEF MessagesOK, RowsOK
  <2> QED
    BY <2>3, <2>4, <2>5, <2>6
<1>2. CASE stage[c] # Critical
  <2>1. pc' = [pc EXCEPT ![c] = "check"] /\ message' = message
        /\ stage' = [stage EXCEPT ![c] = stage[c] + 1]
    BY <1>2 DEF NextStage
  <2>2. stage[c] + 1 \in Stages
    <3>1. stage[c] \in Stages
      BY DEF RowsOK
    <3> QED
      BY <1>2, <3>1 DEF Stages
  <2>3. stage' \in [Consumers -> Stages] /\ message' \in [Consumers -> 0 .. NRuns]
    BY <2>1, <2>2 DEF RowsOK, MessagesOK
  <2>4. pc' \in [Consumers -> {"idle", "fetched", "check", "read", "put", "write"}]
    BY <2>1 DEF MessagesOK
  <2>5. \A d \in Consumers : pc'[d] # "idle" => message'[d] \in Runs
    BY <2>1 DEF MessagesOK
  <2>6. /\ \A d \in Consumers \ {c} :
             stage'[d] = stage[d] /\ pc'[d] = pc[d] /\ message'[d] = message[d]
        /\ pc'[c] = "check" /\ message'[c] = message[c] /\ stage'[c] = stage[c] + 1
    BY <2>1 DEF MessagesOK, RowsOK
  <2> QED
    BY <2>3, <2>4, <2>5, <2>6
<1> QED
  BY <1>1, <1>2

(* Types are preserved by every step.                                      *)
LEMMA RowsOKStep ==
  ASSUME RowsOK, MessagesOK, StoreOK, [Next]_vars
  PROVE  RowsOK'
<1> USE DEF RowsOK
<1>1. ASSUME NEW c \in Consumers, Ack(c) \/ StageRaises(c) \/ StageFails(c)
      PROVE  RowsOK'
  <2>1. rows' = rows /\ stage' = [stage EXCEPT ![c] = 1]
    <3>1. CASE Ack(c)
      BY <3>1 DEF Ack
    <3>2. CASE StageRaises(c)
      BY <3>2 DEF StageRaises, GiveUp
    <3>3. CASE StageFails(c)
      BY <3>3 DEF StageFails, GiveUp
    <3> QED
      BY <1>1, <3>1, <3>2, <3>3
  <2>2. 1 \in Stages
    BY DEF Stages
  <2> QED
    BY <2>1, <2>2
<1>2. ASSUME NEW c \in Consumers, Check(c) \/ WriteNone(c)
      PROVE  RowsOK'
  BY <1>2, NextStageMoves DEF Check, WriteNone, PassStage
<1>3. ASSUME NEW c \in Consumers, Write(c)
      PROVE  RowsOK'
  <2>1. stage[c] \in Stages /\ message[c] \in Runs /\ data[c] \in Nat /\ pc[c] # "idle"
    BY <1>3 DEF Write, MessagesOK, StoreOK
  <2>2. Append(rows[stage[c]][message[c]], data[c]) \in Seq(Nat)
    BY <2>1
  <2>3. rows' \in [Stages -> [Runs -> Seq(Nat)]]
    BY <1>3, <2>1, <2>2 DEF Write
  <2> QED
    BY <1>3, <2>1, <2>3, NextStageMoves DEF Write, PassStage
<1>4. CASE /\ ~\E c \in Consumers : Ack(c) \/ StageRaises(c) \/ StageFails(c)
           /\ ~\E c \in Consumers : Check(c) \/ Write(c) \/ WriteNone(c)
  BY <1>4 DEF Next, vars, consumers, upload, upload_manual_msg, publish, PublishFails,
     ConsumerStep, Fetch, Redeliver, Read, PutMaskedRaster
<1> QED
  BY <1>1, <1>2, <1>3, <1>4

LEMMA MessagesOKStep ==
  ASSUME RowsOK, MessagesOK, [Next]_vars
  PROVE  MessagesOK'
<1> USE DEF MessagesOK
<1>1. ASSUME NEW r \in Runs, publish(r)
      PROVE  MessagesOK'
  <2>1. stream' \in Seq(Runs)
    BY <1>1 DEF publish
  <2> QED
    BY <1>1, <2>1 DEF publish, consumers
<1>2. ASSUME NEW c \in Consumers, Fetch(c)
      PROVE  MessagesOK'
  <2>1. stream # <<>> /\ stream \in Seq(Runs)
    BY <1>2 DEF Fetch
  <2>2. Tail(stream) \in Seq(Runs) /\ Head(stream) \in Runs
    BY <2>1
  <2>3. Runs \subseteq 0 .. NRuns
    BY DEF Runs
  <2> QED
    BY <1>2, <2>2, <2>3 DEF Fetch
<1>3. ASSUME NEW c \in Consumers, Redeliver(c)
      PROVE  MessagesOK'
  <2>1. message[c] \in Runs /\ stream' \in Seq(Runs) /\ 0 \in 0 .. NRuns
    BY <1>3, SfmsAssumption DEF Redeliver
  <2> QED
    BY <1>3, <2>1 DEF Redeliver, NoRun
<1>4. ASSUME NEW c \in Consumers, Check(c)
      PROVE  MessagesOK'
  BY <1>4, NextStageMoves DEF Check, PassStage
<1>5. ASSUME NEW c \in Consumers, Write(c) \/ WriteNone(c)
      PROVE  MessagesOK'
  BY <1>5, NextStageMoves DEF Write, WriteNone, PassStage
<1>6. ASSUME NEW c \in Consumers, Ack(c) \/ Read(c) \/ PutMaskedRaster(c)
      PROVE  MessagesOK'
  BY <1>6 DEF Ack, Read, PutMaskedRaster
<1>7. ASSUME NEW c \in Consumers, StageRaises(c) \/ StageFails(c)
      PROVE  MessagesOK'
  <2>1. 0 \in 0 .. NRuns
    BY SfmsAssumption
  <2> QED
    BY <1>7, <2>1 DEF StageRaises, StageFails, GiveUp, NoRun
<1>8. CASE UNCHANGED <<stream, consumers>>
  BY <1>8 DEF consumers
<1> QED
  BY <1>1, <1>2, <1>3, <1>4, <1>5, <1>6, <1>7, <1>8
     DEF Next, vars, consumers, ConsumerStep, upload, upload_manual_msg, PublishFails

(* What the raster stages and the area stage read is a number.             *)
LEMMA StageInputIsNat ==
  ASSUME RowsOK, StoreOK, NEW s \in Stages, NEW r \in Runs
  PROVE  StageInput(s, r) \in Nat
<1>1. UploadKey[r] \in Keys /\ StatsKey[r] \in Keys /\ 0 .. NRuns \subseteq Nat
  BY SfmsAssumption
<1>2. rows[Hfi][r] \in Seq(Nat) /\ rows[Fuel][r] \in Seq(Nat)
  BY DEF RowsOK, Stages
<1>3. Len(rows[Hfi][r]) \in Nat /\ Len(rows[Fuel][r]) \in Nat
  BY <1>2
<1>4. hfiRaster[UploadKey[r]] \in Nat /\ maskedRaster[StatsKey[r]] \in Nat
      /\ hfiRaster[StatsKey[r]] \in Nat
  BY <1>1 DEF StoreOK
<1> QED
  BY <1>3, <1>4 DEF StageInput, Stages

(* What the stages read, one by one.                                       *)
LEMMA StageInputs ==
  ASSUME NEW r \in Runs
  PROVE  /\ StageInput(Hfi, r) = hfiRaster[UploadKey[r]]
         /\ StageInput(Tpi, r) = maskedRaster[StatsKey[r]]
         /\ StageInput(HighHfi, r) = Len(rows[Hfi][r])
         /\ StageInput(Fuel, r) = hfiRaster[StatsKey[r]]
  BY DEF StageInput

LEMMA StoreOKStep ==
  ASSUME RowsOK, MessagesOK, StoreOK, PutsARaster, [Next]_vars
  PROVE  StoreOK'
<1> USE DEF StoreOK
<1>0. 0 \in 0 .. NRuns /\ 0 .. NRuns \subseteq Nat /\ Runs \subseteq 0 .. NRuns /\ 0 \in Nat
  BY SfmsAssumption DEF Runs
<1>1. ASSUME NEW r \in Runs, upload(r)
      PROVE  StoreOK'
  <2>1. hfiRaster' \in [Keys -> 0 .. NRuns]
    BY <1>0, <1>1 DEF upload
  <2>2. publishing[r] + 1 \in Nat
    OBVIOUS
  <2>3. publishing' \in [Runs -> Nat]
    BY <1>1, <2>2 DEF upload
  <2>4. uploads' \in Nat
    BY <1>1 DEF upload
  <2> QED
    BY <1>1, <2>1, <2>3, <2>4 DEF upload, consumers
<1>2. ASSUME NEW k \in Keys, upload_manual_msg(k)
      PROVE  StoreOK'
  <2>1. hfiRaster[k] \in Runs
    BY <1>2 DEF upload_manual_msg, Runs, NoRun
  <2> QED
    BY <1>2, <2>1 DEF upload_manual_msg, consumers
<1>3. ASSUME NEW r \in Runs, publish(r) \/ PublishFails(r)
      PROVE  StoreOK'
  <2>1. publishing' \in [Runs -> Nat]
    <3>1. publishing[r] \in Nat /\ publishing[r] > 0
      BY <1>3 DEF publish, PublishFails
    <3>2. publishing[r] - 1 \in Nat /\ publishing' = [publishing EXCEPT ![r] = publishing[r] - 1]
      BY <1>3, <3>1 DEF publish, PublishFails
    <3> QED
      BY <3>2
  <2>2. failures' \in Nat
    BY <1>3 DEF publish, PublishFails
  <2> QED
    BY <1>3, <2>1, <2>2 DEF publish, PublishFails, consumers
<1>4. ASSUME NEW c \in Consumers, NextStage(c)
      PROVE  data' \in [Consumers -> Nat]
  BY <1>0, <1>4 DEF NextStage, NoRun
<1>5. ASSUME NEW c \in Consumers, Check(c) \/ Write(c) \/ WriteNone(c)
      PROVE  StoreOK'
  <2>1. data' \in [Consumers -> Nat]
    BY <1>4, <1>5 DEF Check, Write, WriteNone, PassStage
  <2>2. done' \in SUBSET (Stages \X Runs)
    <3>1. stage[c] \in Stages /\ message[c] \in Runs
      BY <1>5 DEF Check, Write, WriteNone, RowsOK, MessagesOK
    <3> QED
      BY <1>5, <3>1 DEF Check, Write, WriteNone, PassStage
  <2> QED
    BY <1>5, <2>1, <2>2 DEF Check, Write, WriteNone
<1>6. ASSUME NEW c \in Consumers, Read(c)
      PROVE  StoreOK'
  <2>1. stage[c] \in Stages /\ message[c] \in Runs
    BY <1>6 DEF Read, RowsOK, MessagesOK
  <2>2. StageInput(stage[c], message[c]) \in Nat
    BY <2>1, StageInputIsNat
  <2> QED
    BY <1>6, <2>2 DEF Read
<1>7. ASSUME NEW c \in Consumers, PutMaskedRaster(c)
      PROVE  StoreOK'
  <2>1. data[c] \in 0 .. NRuns
    BY <1>7 DEF PutMaskedRaster, PutsARaster
  <2> QED
    BY <1>7, <2>1 DEF PutMaskedRaster
<1>8. ASSUME NEW c \in Consumers, StageRaises(c) \/ StageFails(c)
      PROVE  StoreOK'
  <2>1. message[c] \in Runs
    BY <1>8 DEF StageRaises, StageFails, MessagesOK
  <2>2. data' \in [Consumers -> Nat] /\ dropped' \in SUBSET Runs
    BY <1>0, <1>8, <2>1 DEF StageRaises, StageFails, GiveUp, NoRun
  <2>3. failures' \in Nat
    BY <1>8 DEF StageRaises, StageFails
  <2> QED
    BY <1>8, <2>2, <2>3 DEF StageRaises, StageFails
<1>9. ASSUME NEW c \in Consumers, Fetch(c) \/ Ack(c)
      PROVE  StoreOK'
  BY <1>9 DEF Fetch, Ack
<1>10. ASSUME NEW c \in Consumers, Redeliver(c)
       PROVE  StoreOK'
  BY <1>10 DEF Redeliver
<1>11. CASE UNCHANGED vars
  BY <1>11 DEF vars, consumers
<1> QED
  BY <1>1, <1>2, <1>3, <1>5, <1>6, <1>7, <1>8, <1>9, <1>10, <1>11 DEF Next, ConsumerStep

LEMMA PutsARasterStep ==
  ASSUME RowsOK, MessagesOK, StoreOK, PutsARaster, [Next]_vars
  PROVE  PutsARaster'
<1> USE DEF PutsARaster
<1>1. ASSUME NEW c \in Consumers, NextStage(c), pc[c] # "idle"
      PROVE  PutsARaster'
  <2>1. pc' \in [Consumers -> {"idle", "fetched", "check", "read", "put", "write"}]
        /\ pc'[c] # "put" /\ \A d \in Consumers \ {c} : pc'[d] = pc[d] /\ stage'[d] = stage[d]
    BY <1>1, NextStageMoves
  <2>2. \A d \in Consumers \ {c} : data'[d] = data[d]
    BY <1>1 DEF NextStage, StoreOK
  <2> QED
    BY <2>1, <2>2
<1>2. ASSUME NEW c \in Consumers, Check(c) \/ Write(c) \/ WriteNone(c)
      PROVE  PutsARaster'
  <2>1. CASE NextStage(c)
    BY <1>1, <1>2, <2>1 DEF Check, Write, WriteNone
  <2>2. CASE ~NextStage(c)
    BY <1>2, <2>2 DEF Check, Write, WriteNone, PassStage, MessagesOK
  <2> QED
    BY <2>1, <2>2
<1>3. ASSUME NEW c \in Consumers, Read(c)
      PROVE  PutsARaster'
  <2>1. \A d \in Consumers \ {c} : data'[d] = data[d] /\ pc'[d] = pc[d] /\ stage'[d] = stage[d]
    BY <1>3 DEF Read, StoreOK, MessagesOK
  <2>2. ASSUME pc'[c] = "put"
        PROVE  stage'[c] = Hfi /\ data'[c] \in 0 .. NRuns
    <3>1. stage[c] = Hfi /\ message[c] \in Runs
      BY <1>3, <2>2 DEF Read, MessagesOK
    <3>2. stage' = stage /\ data'[c] = hfiRaster[UploadKey[message[c]]]
      BY <1>3, <3>1 DEF Read, StageInput, StoreOK
    <3>3. UploadKey[message[c]] \in Keys
      BY <3>1, SfmsAssumption
    <3> QED
      BY <3>1, <3>2, <3>3 DEF StoreOK
  <2> QED
    BY <2>1, <2>2
<1>4. ASSUME NEW c \in Consumers, StageRaises(c) \/ StageFails(c)
      PROVE  PutsARaster'
  <2>1. pc' = [pc EXCEPT ![c] = "idle"] /\ data' = [data EXCEPT ![c] = 0]
        /\ stage' = [stage EXCEPT ![c] = 1]
    BY <1>4 DEF StageRaises, StageFails, GiveUp, NoRun
  <2> QED
    BY <2>1 DEF MessagesOK, StoreOK, RowsOK
<1>5. ASSUME NEW c \in Consumers,
             Fetch(c) \/ Ack(c) \/ Redeliver(c) \/ PutMaskedRaster(c)
      PROVE  PutsARaster'
  <2>1. data' = data /\ \A d \in Consumers : pc'[d] = "put" => pc[d] = "put" /\ stage'[d] = stage[d]
    BY <1>5 DEF Fetch, Ack, Redeliver, PutMaskedRaster, MessagesOK, RowsOK
  <2> QED
    BY <2>1
<1>6. CASE UNCHANGED <<pc, data, stage>>
  BY <1>6
<1> QED
  BY <1>2, <1>3, <1>4, <1>5, <1>6
     DEF Next, ConsumerStep, vars, consumers, upload, upload_manual_msg, publish, PublishFails

(* A step of a consumer leaves the others alone.                           *)
LEMMA OthersStay ==
  ASSUME RowsOK, MessagesOK, StoreOK, NEW c \in Consumers,
         ConsumerStep(c) \/ Redeliver(c) \/ StageFails(c)
  PROVE  \A d \in Consumers \ {c} : /\ pc'[d] = pc[d] /\ message'[d] = message[d]
                                    /\ stage'[d] = stage[d] /\ data'[d] = data[d]
<1> DEFINE Stays == \A d \in Consumers \ {c} : /\ pc'[d] = pc[d] /\ message'[d] = message[d]
                                               /\ stage'[d] = stage[d] /\ data'[d] = data[d]
<1> USE DEF RowsOK, MessagesOK, StoreOK
<1>1. CASE Fetch(c) \/ Ack(c) \/ Redeliver(c) \/ Read(c) \/ PutMaskedRaster(c)
  BY <1>1 DEF Fetch, Ack, Redeliver, Read, PutMaskedRaster
<1>2. CASE StageRaises(c) \/ StageFails(c)
  BY <1>2 DEF StageRaises, StageFails, GiveUp
<1>3. CASE NextStage(c)
  <2>1. CASE stage[c] = Critical
    BY <1>3, <2>1 DEF NextStage
  <2>2. CASE stage[c] # Critical
    BY <1>3, <2>2 DEF NextStage
  <2> QED
    BY <2>1, <2>2
<1>4. CASE Check(c)
  <2>1. CASE AlreadyProcessed(stage[c], message[c])
    BY <1>3, <1>4, <2>1 DEF Check, PassStage
  <2>2. CASE ~AlreadyProcessed(stage[c], message[c])
    BY <1>4, <2>2 DEF Check
  <2> QED
    BY <2>1, <2>2
<1>5. CASE Write(c) \/ WriteNone(c)
  BY <1>3, <1>5 DEF Write, WriteNone, PassStage
<1> QED
  BY <1>1, <1>2, <1>4, <1>5 DEF ConsumerStep

(* Where a consumer is after any other step than one that reads or puts.   *)
LEMMA PcAfter ==
  ASSUME RowsOK, MessagesOK, StoreOK, NEW c \in Consumers,
         \/ Fetch(c) \/ Ack(c) \/ Check(c) \/ Write(c) \/ WriteNone(c)
         \/ StageRaises(c) \/ Redeliver(c) \/ StageFails(c)
  PROVE  /\ pc'[c] \in {"idle", "fetched", "check", "read"}
         /\ pc'[c] = "read" => /\ Check(c) /\ ~AlreadyProcessed(stage[c], message[c])
                               /\ stage' = stage /\ message' = message
<1>1. CASE Fetch(c) \/ Ack(c) \/ Redeliver(c)
  BY <1>1 DEF Fetch, Ack, Redeliver, MessagesOK
<1>2. CASE StageRaises(c) \/ StageFails(c)
  BY <1>2 DEF StageRaises, StageFails, GiveUp, MessagesOK
<1>3. ASSUME NextStage(c), pc[c] # "idle"
      PROVE  pc'[c] \in {"idle", "check"}
  BY <1>3, NextStageMoves
<1>4. CASE Check(c)
  <2>1. CASE AlreadyProcessed(stage[c], message[c])
    BY <1>3, <1>4, <2>1 DEF Check, PassStage
  <2>2. CASE ~AlreadyProcessed(stage[c], message[c])
    BY <1>4, <2>2 DEF Check, MessagesOK
  <2> QED
    BY <2>1, <2>2
<1>5. CASE Write(c) \/ WriteNone(c)
  BY <1>3, <1>5 DEF Write, WriteNone, PassStage
<1> QED
  BY <1>1, <1>2, <1>4, <1>5

-----------------------------------------------------------------------------
LEMMA CommitLeavesRows ==
  ASSUME RowsOK, NEW s \in Stages, NEW r \in Runs, NEW n \in Nat
  PROVE  Append(rows[s][r], n) # <<>>
<1>1. rows[s][r] \in Seq(Nat)
  BY DEF RowsOK
<1> QED
  BY <1>1

(* Rows are only ever added, and only to the stage a consumer works on.    *)
LEMMA RowsGrow ==
  ASSUME RowsOK, MessagesOK, StoreOK, [Next]_vars
  PROVE  \A s \in Stages, r \in Runs : rows[s][r] # <<>> => rows'[s][r] # <<>>
<1>1. ASSUME NEW c \in Consumers, Write(c)
      PROVE  \A s \in Stages, r \in Runs : rows[s][r] # <<>> => rows'[s][r] # <<>>
  <2>1. stage[c] \in Stages /\ message[c] \in Runs /\ data[c] \in Nat
    BY <1>1 DEF Write, RowsOK, MessagesOK, StoreOK
  <2>2. Append(rows[stage[c]][message[c]], data[c]) # <<>>
    BY <2>1, CommitLeavesRows
  <2> QED
    BY <1>1, <2>1, <2>2 DEF Write, RowsOK
<1>2. CASE UNCHANGED rows
  BY <1>2
<1> QED
  BY <1>1, <1>2 DEF Next, ConsumerStep, vars, upload, upload_manual_msg, publish, PublishFails,
     Fetch, Ack, Redeliver, Check, Read, PutMaskedRaster, WriteNone, StageRaises, StageFails

(* What has been gone through stays so, and holds the stages passed since. *)
LEMMA DoneGrows ==
  ASSUME [Next]_vars
  PROVE  done \subseteq done'
<1>1. ASSUME NEW c \in Consumers, Check(c) \/ Write(c) \/ WriteNone(c)
      PROVE  done \subseteq done'
  BY <1>1 DEF Check, Write, WriteNone, PassStage
<1>2. CASE UNCHANGED done
  BY <1>2
<1> QED
  BY <1>1, <1>2 DEF Next, ConsumerStep, vars, upload, upload_manual_msg, publish, PublishFails,
     Fetch, Ack, Redeliver, Read, PutMaskedRaster, StageRaises, StageFails

(* A consumer leaves a stage for the next one only by going through it.    *)
LEMMA EarlierStagesStep ==
  ASSUME RowsOK, MessagesOK, StoreOK, EarlierStagesAreThere, [Next]_vars
  PROVE  EarlierStagesAreThere'
<1> USE DEF EarlierStagesAreThere
<1>0. done \subseteq done'
  BY DoneGrows
<1>1. ASSUME NEW c \in Consumers, PassStage(c), Working(c)
      PROVE  EarlierStagesAreThere'
  <2>0. pc[c] # "idle" /\ NextStage(c)
    BY <1>1 DEF Working, PassStage
  <2>1. \A d \in Consumers \ {c} :
          stage'[d] = stage[d] /\ pc'[d] = pc[d] /\ message'[d] = message[d]
    BY <2>0, NextStageMoves
  <2>2. \/ pc'[c] = "idle"
        \/ pc'[c] = "check" /\ message'[c] = message[c] /\ stage'[c] = stage[c] + 1
    BY <2>0, NextStageMoves
  <2>3. ASSUME NEW d \in Consumers, d # c, Working(d)', NEW s \in Stages, s < stage'[d]
        PROVE  <<s, message'[d]>> \in done'
    <3>1. Working(d) /\ s < stage[d] /\ message'[d] = message[d]
      BY <2>1, <2>3 DEF Working
    <3> QED
      BY <1>0, <3>1
  <2>4. ASSUME Working(c)', NEW s \in Stages, s < stage'[c]
        PROVE  <<s, message'[c]>> \in done'
    <3>1. message'[c] = message[c] /\ stage'[c] = stage[c] + 1
      BY <2>2, <2>4 DEF Working
    <3>2. stage[c] \in Stages
      BY DEF RowsOK
    <3>3. s < stage[c] \/ s = stage[c]
      BY <2>4, <3>1, <3>2 DEF Stages
    <3> QED
      BY <1>0, <1>1, <3>1, <3>3 DEF PassStage
  <2> QED
    BY <2>3, <2>4
<1>2. ASSUME NEW c \in Consumers, Check(c)
      PROVE  EarlierStagesAreThere'
  <2>1. CASE AlreadyProcessed(stage[c], message[c])
    BY <1>1, <1>2, <2>1 DEF Check, Working
  <2>2. CASE ~AlreadyProcessed(stage[c], message[c])
    BY <1>2, <2>2 DEF Check, Working, MessagesOK
  <2> QED
    BY <2>1, <2>2
<1>3. ASSUME NEW c \in Consumers, Write(c) \/ WriteNone(c)
      PROVE  EarlierStagesAreThere'
  BY <1>1, <1>3 DEF Write, WriteNone, Working
<1>4. ASSUME NEW c \in Consumers, Ack(c)
      PROVE  EarlierStagesAreThere'
  <2>1. stage'[c] = 1 /\ message' = message
    BY <1>4 DEF Ack, RowsOK
  <2>2. \A d \in Consumers \ {c} : stage'[d] = stage[d] /\ pc'[d] = pc[d]
    BY <1>4 DEF Ack, RowsOK, MessagesOK
  <2>3. \A s \in Stages : ~(s < stage'[c])
    BY <2>1 DEF Stages
  <2> QED
    BY <1>0, <2>1, <2>2, <2>3 DEF Working
<1>5. ASSUME NEW c \in Consumers,
             \/ Fetch(c) \/ Redeliver(c) \/ StageRaises(c) \/ StageFails(c)
             \/ Read(c) \/ PutMaskedRaster(c)
      PROVE  EarlierStagesAreThere'
  <2>2. ASSUME NEW d \in Consumers, Working(d)'
        PROVE  Working(d) /\ stage'[d] = stage[d] /\ message'[d] = message[d]
    <3>1. CASE Fetch(c) \/ Redeliver(c)
      BY <2>2, <3>1 DEF Fetch, Redeliver, Working, MessagesOK
    <3>2. CASE StageRaises(c) \/ StageFails(c)
      BY <2>2, <3>2 DEF StageRaises, StageFails, GiveUp, Working, MessagesOK, RowsOK
    <3>3. CASE Read(c)
      BY <2>2, <3>3 DEF Read, Working, MessagesOK
    <3>4. CASE PutMaskedRaster(c)
      BY <2>2, <3>4 DEF PutMaskedRaster, Working, MessagesOK
    <3> QED
      BY <1>5, <3>1, <3>2, <3>3, <3>4
  <2> QED
    BY <1>0, <2>2
<1>6. CASE UNCHANGED consumers
  BY <1>0, <1>6 DEF consumers, Working
<1>7. CASE UNCHANGED vars
  BY <1>6, <1>7 DEF vars, consumers
<1> QED
  BY <1>2, <1>3, <1>4, <1>5, <1>6, <1>7
     DEF Next, ConsumerStep, upload, upload_manual_msg, publish, PublishFails

(* The first stage is passed with its row only.                            *)
LEMMA RunsAreThereStep ==
  ASSUME RowsOK, MessagesOK, StoreOK, PutsARaster, RunsAreThere, [Next]_vars
  PROVE  RunsAreThere'
<1> USE DEF RunsAreThere
<1>0. /\ \A s \in Stages, r \in Runs : rows[s][r] # <<>> => rows'[s][r] # <<>>
      /\ Hfi \in Stages /\ Fuel \in Stages
  BY RowsGrow DEF Stages
<1>1. \A r \in Runs : <<Hfi, r>> \in done' => rows'[Hfi][r] # <<>>
  <2>1. ASSUME NEW c \in Consumers, PassStage(c), NEW r \in Runs, <<Hfi, r>> \in done',
               stage[c] = Hfi => rows'[Hfi][message[c]] # <<>>
        PROVE  rows'[Hfi][r] # <<>>
    BY <1>0, <2>1 DEF PassStage
  <2>2. ASSUME NEW c \in Consumers, Check(c), NEW r \in Runs, <<Hfi, r>> \in done'
        PROVE  rows'[Hfi][r] # <<>>
    <3>1. CASE AlreadyProcessed(stage[c], message[c])
      <4>1. message[c] \in Runs
        BY <2>2 DEF Check, MessagesOK
      <4> QED
        BY <1>0, <2>1, <2>2, <3>1, <4>1 DEF Check, AlreadyProcessed
    <3>2. CASE ~AlreadyProcessed(stage[c], message[c])
      BY <1>0, <2>2, <3>2 DEF Check
    <3> QED
      BY <3>1, <3>2
  <2>3. ASSUME NEW c \in Consumers, Write(c), NEW r \in Runs, <<Hfi, r>> \in done'
        PROVE  rows'[Hfi][r] # <<>>
    <3>1. stage[c] \in Stages /\ message[c] \in Runs /\ data[c] \in Nat
      BY <2>3 DEF Write, RowsOK, MessagesOK, StoreOK
    <3>2. Append(rows[stage[c]][message[c]], data[c]) # <<>>
      BY <3>1, CommitLeavesRows
    <3>3. rows'[stage[c]][message[c]] # <<>>
      BY <2>3, <3>1, <3>2 DEF Write, RowsOK
    <3> QED
      BY <2>1, <2>3, <3>3 DEF Write
  <2>4. ASSUME NEW c \in Consumers, WriteNone(c), NEW r \in Runs, <<Hfi, r>> \in done'
        PROVE  rows'[Hfi][r] # <<>>
    BY <2>1, <2>4 DEF WriteNone
  <2>5. CASE UNCHANGED done
    BY <1>0, <2>5
  <2> QED
    BY <2>2, <2>3, <2>4, <2>5 DEF Next, ConsumerStep, vars, upload, upload_manual_msg, publish,
       PublishFails, Fetch, Ack, Redeliver, Read, PutMaskedRaster, StageRaises, StageFails
<1>2. ASSUME NEW d \in Consumers, pc'[d] = "write", stage'[d] = Critical, data'[d] # NoRun
      PROVE  rows'[Fuel][message'[d]] # <<>>
  <2>1. ASSUME pc[d] = "write", stage[d] = stage'[d], data[d] = data'[d], message[d] = message'[d]
        PROVE  rows'[Fuel][message'[d]] # <<>>
    <3>1. message[d] \in Runs
      BY <2>1 DEF MessagesOK
    <3> QED
      BY <1>0, <1>2, <2>1, <3>1
  <2>2. ASSUME NEW c \in Consumers, ConsumerStep(c) \/ Redeliver(c) \/ StageFails(c), c # d
        PROVE  rows'[Fuel][message'[d]] # <<>>
    <3>1. pc'[d] = pc[d] /\ message'[d] = message[d] /\ stage'[d] = stage[d] /\ data'[d] = data[d]
      BY <2>2, OthersStay
    <3> QED
      BY <1>2, <2>1, <3>1
  <2>3. CASE Read(d)
    <3>1. stage[d] = Critical /\ message'[d] = message[d] /\ message[d] \in Runs /\ rows' = rows
          /\ data'[d] = StageInput(stage[d], message[d])
      BY <1>2, <2>3 DEF Read, MessagesOK, StoreOK
    <3>2. Len(rows[Fuel][message[d]]) # 0
      BY <1>2, <3>1 DEF StageInput, NoRun
    <3> QED
      BY <3>1, <3>2
  <2>4. CASE PutMaskedRaster(d)
    <3>1. stage[d] = Hfi
      BY <2>4 DEF PutMaskedRaster, PutsARaster
    <3> QED
      BY <1>2, <2>4, <3>1 DEF PutMaskedRaster
  <2>5. CASE \/ Fetch(d) \/ Ack(d) \/ Check(d) \/ Write(d) \/ WriteNone(d)
             \/ StageRaises(d) \/ Redeliver(d) \/ StageFails(d)
    BY <1>2, <2>5, PcAfter
  <2>6. CASE UNCHANGED consumers
    BY <1>2, <2>1, <2>6 DEF consumers
  <2> QED
    BY <2>2, <2>3, <2>4, <2>5, <2>6 DEF Next, ConsumerStep, vars, consumers, upload,
       upload_manual_msg, publish, PublishFails
<1> QED
  BY <1>1, <1>2

LEMMA StagesInOrderStep ==
  ASSUME RowsOK, MessagesOK, StoreOK, EarlierStagesAreThere, RunsAreThere, StagesInOrder,
         [Next]_vars
  PROVE  StagesInOrder'
<1>0. /\ done \subseteq done' /\ Hfi \in Stages /\ Fuel \in Stages
      /\ \A s \in Stages, r \in Runs : rows[s][r] # <<>> => rows'[s][r] # <<>>
  BY DoneGrows, RowsGrow DEF Stages
<1>1. ASSUME NEW r \in Runs, NEW s \in Stages, rows[s][r] # <<>>
      PROVE  /\ \A t \in Stages : t < s => <<t, r>> \in done'
             /\ rows'[Hfi][r] # <<>>
             /\ s = Critical => rows'[Fuel][r] # <<>>
  BY <1>0, <1>1 DEF StagesInOrder
<1>2. ASSUME NEW c \in Consumers, Write(c)
      PROVE  StagesInOrder'
  <2>0. stage[c] \in Stages /\ message[c] \in Runs /\ data[c] \in Nat
    BY <1>2 DEF Write, RowsOK, MessagesOK, StoreOK
  <2>1. SUFFICES ASSUME NEW r \in Runs, NEW s \in Stages, rows'[s][r] # <<>>
                 PROVE  /\ \A t \in Stages : t < s => <<t, r>> \in done'
                        /\ rows'[Hfi][r] # <<>>
                        /\ s = Critical => rows'[Fuel][r] # <<>>
    BY DEF StagesInOrder
  <2>2. CASE s = stage[c] /\ r = message[c]
    <3>1. \A t \in Stages : t < s => <<t, r>> \in done
      BY <1>2, <2>2 DEF Write, Working, EarlierStagesAreThere
    <3>2. rows'[Hfi][r] # <<>>
      <4>1. CASE s = Hfi
        BY <2>1, <4>1
      <4>2. CASE s # Hfi
        <5>1. <<Hfi, r>> \in done
          BY <1>0, <3>1, <4>2 DEF Stages
        <5> QED
          BY <1>0, <5>1 DEF RunsAreThere
      <4> QED
        BY <4>1, <4>2
    <3>3. s = Critical => rows'[Fuel][r] # <<>>
      BY <1>0, <1>2, <2>2 DEF Write, RunsAreThere
    <3> QED
      BY <1>0, <3>1, <3>2, <3>3
  <2>3. CASE ~(s = stage[c] /\ r = message[c])
    <3>1. rows'[s][r] = rows[s][r]
      BY <1>2, <2>0, <2>3 DEF Write, RowsOK
    <3> QED
      BY <1>1, <2>1, <3>1
  <2> QED
    BY <2>2, <2>3
<1>3. CASE UNCHANGED rows
  BY <1>1, <1>3 DEF StagesInOrder
<1> QED
  BY <1>2, <1>3 DEF Next, ConsumerStep, vars, upload, upload_manual_msg, publish, PublishFails,
     Fetch, Ack, Redeliver, Check, Read, PutMaskedRaster, WriteNone, StageRaises, StageFails

(* The unique constraint: a second copy of the fuel statistics is refused. *)
LEMMA FuelOnceStep ==
  ASSUME RowsOK, MessagesOK, StoreOK, FuelStatsAreWrittenOnce, [Next]_vars
  PROVE  FuelStatsAreWrittenOnce'
<1> USE DEF FuelStatsAreWrittenOnce
<1>1. ASSUME NEW c \in Consumers, Write(c), NEW r \in Runs
      PROVE  Len(rows'[Fuel][r]) <= 1
  <2>0. stage[c] \in Stages /\ message[c] \in Runs /\ data[c] \in Nat /\ Fuel \in Stages
    BY <1>1 DEF Write, RowsOK, MessagesOK, StoreOK, Stages
  <2>1. CASE stage[c] = Fuel /\ message[c] = r
    <3>1. rows[Fuel][r] = <<>>
      BY <1>1, <2>1 DEF Write, FitsConstraints
    <3>2. rows'[Fuel][r] = Append(<<>>, data[c])
      BY <1>1, <2>0, <2>1, <3>1 DEF Write, RowsOK
    <3> QED
      BY <2>0, <3>2
  <2>2. CASE ~(stage[c] = Fuel /\ message[c] = r)
    <3>1. rows'[Fuel][r] = rows[Fuel][r]
      BY <1>1, <2>0, <2>2 DEF Write, RowsOK
    <3> QED
      BY <3>1
  <2> QED
    BY <2>1, <2>2
<1>2. CASE UNCHANGED rows
  BY <1>2
<1> QED
  BY <1>1, <1>2 DEF Next, ConsumerStep, vars, upload, upload_manual_msg, publish, PublishFails,
     Fetch, Ack, Redeliver, Check, Read, PutMaskedRaster, WriteNone, StageRaises, StageFails

-----------------------------------------------------------------------------
LEMMA InitIInv == Init => IInv
<1> SUFFICES ASSUME Init PROVE IInv
  OBVIOUS
<1>1. 0 \in 0 .. NRuns /\ Hfi \in Stages
  BY SfmsAssumption DEF Stages
<1>2. RowsOK
  BY <1>1 DEF Init, RowsOK
<1>3. MessagesOK
  BY <1>1 DEF Init, MessagesOK, NoRun
<1>4. StoreOK
  BY <1>1 DEF Init, StoreOK, NoRun
<1>5. PutsARaster /\ EarlierStagesAreThere /\ RunsAreThere
  BY DEF Init, PutsARaster, EarlierStagesAreThere, RunsAreThere, Working
<1>6. StagesInOrder
  BY DEF Init, StagesInOrder
<1>7. FuelStatsAreWrittenOnce
  <2>1. Fuel \in Stages
    BY DEF Stages
  <2>2. \A r \in Runs : rows[Fuel][r] = <<>>
    BY <2>1 DEF Init
  <2> QED
    BY <2>2 DEF FuelStatsAreWrittenOnce
<1> QED
  BY <1>2, <1>3, <1>4, <1>5, <1>6, <1>7 DEF IInv

(* The inductive invariant.                                                *)
THEOREM Invariant == Spec => []IInv
<1>1. IInv /\ [Next]_vars => IInv'
  BY RowsOKStep, MessagesOKStep, StoreOKStep, PutsARasterStep, EarlierStagesStep,
     RunsAreThereStep, StagesInOrderStep, FuelOnceStep DEF IInv
<1> QED
  BY InitIInv, <1>1, PTL DEF Spec

(* Type correctness of the pipeline of routers/sfms.py and nats_consumer.  *)
THEOREM TypeCorrect == Spec => []TypeOK
<1>1. IInv => TypeOK
  BY DEF IInv, RowsOK, MessagesOK, StoreOK, TypeOK
<1> QED
  BY <1>1, Invariant, PTL

(* The tables of a run are filled in the order of the stages, for every    *)
(* number of replicas and of runs, whatever fails and comes back.          *)
THEOREM OrderOfStages == Spec => []StagesInOrder
<1>1. IInv => StagesInOrder
  BY DEF IInv
<1> QED
  BY <1>1, Invariant, PTL

(* The unique constraint of advisory_fuel_stats keeps a run's fuel         *)
(* statistics single however many replicas compute them at once.           *)
THEOREM FuelStatsOnce == Spec => []FuelStatsAreWrittenOnce
<1>1. IInv => FuelStatsAreWrittenOnce
  BY DEF IInv
<1> QED
  BY <1>1, Invariant, PTL
-----------------------------------------------------------------------------
\* The run, or a newer one of its day, is in the object store.
Posted(r) == r <= hfiRaster[UploadKey[r]]

\* Nobody hears of a run before it is there.
HeardRunsArePosted ==
  /\ \A k \in Keys : hfiRaster[k] # NoRun => UploadKey[hfiRaster[k]] = k
  /\ \A r \in Runs : publishing[r] > 0 => Posted(r)
  /\ \A i \in DOMAIN stream : Posted(stream[i])
  /\ \A c \in Consumers : pc[c] # "idle" => Posted(message[c])

\* A raster of the run's key that is not older than the run, nor newer than the store.
Fits(r, v) == r <= v /\ v <= hfiRaster[UploadKey[r]]

\* What the stages of S store, and what a consumer has read for them, comes of
\* such a raster, if the stage finds the raster of the run at all.
RowsComeOf(S) ==
  \A r \in Runs, s \in S : FindsItsRaster(s, r) =>
    \A i \in DOMAIN rows[s][r] : Fits(r, rows[s][r][i])
DataComesOf(S) ==
  \A c \in Consumers :
    pc[c] \in {"put", "write"} /\ stage[c] \in S /\ FindsItsRaster(stage[c], message[c]) =>
      Fits(message[c], data[c])

\* No two consumers are at work.
Solo == \A c, d \in Consumers : pc[c] # "idle" /\ pc[d] # "idle" => c = d

\* What a consumer found missing is missing until it writes.
OnceInv ==
  /\ RowsAreWrittenOnce
  /\ \A c \in Consumers :
       /\ pc[c] \in {"read", "put", "write"} => rows[stage[c]][message[c]] = <<>>
       /\ pc[c] = "write" /\ stage[c] = HighHfi => data[c] <= 1

\* The masked raster is not older than a run that was processed, and no consumer
\* is about to put an older one in its place.
MaskedInv ==
  /\ \A k \in Keys : maskedRaster[k] <= hfiRaster[k]
  /\ \A r \in Runs : rows[Hfi][r] # <<>> => Fits(r, maskedRaster[UploadKey[r]])
  /\ \A c \in Consumers :
       /\ pc[c] = "write" /\ stage[c] = Hfi => Fits(message[c], maskedRaster[UploadKey[message[c]]])
       /\ pc[c] = "put" =>
            \A r \in Runs : rows[Hfi][r] # <<>> /\ UploadKey[r] = UploadKey[message[c]] => r <= data[c]

OwnInv == MaskedInv /\ RowsComeOf({Tpi}) /\ DataComesOf({Tpi})

LEMMA StoreGrows ==
  ASSUME StoreOK, [Next]_vars
  PROVE  \A k \in Keys : hfiRaster'[k] \in 0 .. NRuns /\ hfiRaster[k] <= hfiRaster'[k]
<1>0. \A k \in Keys : hfiRaster[k] \in 0 .. NRuns
  BY DEF StoreOK
<1>1. ASSUME NEW r \in Runs, upload(r)
      PROVE  \A k \in Keys : hfiRaster'[k] \in 0 .. NRuns /\ hfiRaster[k] <= hfiRaster'[k]
  <2>1. r \in 0 .. NRuns /\ UploadKey[r] \in Keys
    BY SfmsAssumption DEF Runs
  <2>2. \A k \in Keys : hfiRaster'[k] = IF k = UploadKey[r] THEN r ELSE hfiRaster[k]
    BY <1>1 DEF upload, StoreOK
  <2>3. hfiRaster[UploadKey[r]] <= r
    BY <1>1 DEF upload
  <2>4. \A k \in Keys : hfiRaster[k] <= hfiRaster[k]
    BY <1>0
  <2> QED
    BY <1>0, <2>1, <2>2, <2>3, <2>4
<1>2. CASE hfiRaster' = hfiRaster
  BY <1>0, <1>2
<1> QED
  BY <1>1, <1>2 DEF Next, ConsumerStep, vars, upload_manual_msg, publish, PublishFails,
     Fetch, Ack, Redeliver, Check, Read, PutMaskedRaster, Write, WriteNone, StageRaises, StageFails

LEMMA PostedStays ==
  ASSUME StoreOK, [Next]_vars, NEW r \in Runs, Posted(r)
  PROVE  Posted(r)'
<1>1. r \in Nat /\ UploadKey[r] \in Keys /\ 0 .. NRuns \subseteq Nat
  BY SfmsAssumption DEF Runs
<1>2. hfiRaster[UploadKey[r]] \in Nat /\ hfiRaster'[UploadKey[r]] \in Nat
      /\ hfiRaster[UploadKey[r]] <= hfiRaster'[UploadKey[r]]
  BY <1>1, StoreGrows DEF StoreOK
<1> QED
  BY <1>1, <1>2 DEF Posted

(* Only Fetch gives a consumer a message.                                  *)
LEMMA MessagesStay ==
  ASSUME RowsOK, MessagesOK, [Next]_vars, ~\E c \in Consumers : Fetch(c)
  PROVE  \A d \in Consumers : pc'[d] # "idle" => pc[d] # "idle" /\ message'[d] = message[d]
<1>1. ASSUME NEW c \in Consumers, NextStage(c), pc[c] # "idle"
      PROVE  \A d \in Consumers : pc'[d] # "idle" => pc[d] # "idle" /\ message'[d] = message[d]
  BY <1>1, NextStageMoves
<1>2. ASSUME NEW c \in Consumers, Check(c) \/ Write(c) \/ WriteNone(c)
      PROVE  \A d \in Consumers : pc'[d] # "idle" => pc[d] # "idle" /\ message'[d] = message[d]
  <2>1. pc[c] # "idle"
    BY <1>2 DEF Check, Write, WriteNone
  <2>2. CASE NextStage(c)
    BY <1>1, <2>1, <2>2
  <2>3. CASE ~NextStage(c)
    BY <1>2, <2>1, <2>3 DEF Check, Write, WriteNone, PassStage, MessagesOK
  <2> QED
    BY <2>2, <2>3
<1>3. ASSUME NEW c \in Consumers, Ack(c) \/ Redeliver(c) \/ Read(c) \/ PutMaskedRaster(c)
      PROVE  \A d \in Consumers : pc'[d] # "idle" => pc[d] # "idle" /\ message'[d] = message[d]
  BY <1>3 DEF Ack, Redeliver, Read, PutMaskedRaster, MessagesOK
<1>4. ASSUME NEW c \in Consumers, StageRaises(c) \/ StageFails(c)
      PROVE  \A d \in Consumers : pc'[d] # "idle" => pc[d] # "idle" /\ message'[d] = message[d]
  BY <1>4 DEF StageRaises, StageFails, GiveUp, MessagesOK
<1>5. CASE UNCHANGED consumers
  BY <1>5 DEF consumers
<1> QED
  BY <1>2, <1>3, <1>4, <1>5 DEF Next, ConsumerStep, vars, consumers, upload, upload_manual_msg,
     publish, PublishFails

LEMMA HeardStep ==
  ASSUME RowsOK, MessagesOK, StoreOK, HeardRunsArePosted, [Next]_vars
  PROVE  HeardRunsArePosted'
<1> DEFINE Then(r) == r <= hfiRaster'[UploadKey[r]]
<1>0. \A r \in Runs : r \in Nat /\ UploadKey[r] \in Keys /\ (Posted(r) => Then(r))
  BY SfmsAssumption, PostedStays DEF Runs, Posted
<1> HIDE DEF Then
<1>1. \A k \in Keys : hfiRaster'[k] # NoRun => UploadKey[hfiRaster'[k]] = k
  <2>1. ASSUME NEW r \in Runs, upload(r)
        PROVE  \A k \in Keys : hfiRaster'[k] # NoRun => UploadKey[hfiRaster'[k]] = k
    <3>1. \A k \in Keys : hfiRaster'[k] = IF k = UploadKey[r] THEN r ELSE hfiRaster[k]
      BY <2>1 DEF upload, StoreOK
    <3> QED
      BY <3>1 DEF HeardRunsArePosted
  <2>2. CASE hfiRaster' = hfiRaster
    BY <2>2 DEF HeardRunsArePosted
  <2> QED
    BY <2>1, <2>2 DEF Next, ConsumerStep, vars, upload_manual_msg, publish, PublishFails,
       Fetch, Ack, Redeliver, Check, Read, PutMaskedRaster, Write, WriteNone, StageRaises, StageFails
<1>2. \A r \in Runs : publishing'[r] > 0 => Then(r)
  <2>1. ASSUME NEW q \in Runs, upload(q), NEW r \in Runs, publishing'[r] > 0
        PROVE  Then(r)
    <3>1. CASE r = q
      <4>1. hfiRaster'[UploadKey[r]] = r /\ r <= r
        BY <1>0, <2>1, <3>1 DEF upload, StoreOK
      <4> QED
        BY <4>1 DEF Then
    <3>2. CASE r # q
      <4>1. publishing'[r] = publishing[r]
        BY <2>1, <3>2 DEF upload, StoreOK
      <4> QED
        BY <1>0, <2>1, <4>1 DEF HeardRunsArePosted
    <3> QED
      BY <3>1, <3>2
  <2>2. ASSUME NEW k \in Keys, upload_manual_msg(k), NEW r \in Runs, publishing'[r] > 0
        PROVE  Then(r)
    <3>1. CASE r = hfiRaster[k]
      <4>1. UploadKey[r] = k /\ r <= r
        BY <1>0, <2>2, <3>1 DEF HeardRunsArePosted, upload_manual_msg
      <4>2. Posted(r)
        BY <3>1, <4>1 DEF Posted
      <4> QED
        BY <1>0, <4>2
    <3>2. CASE r # hfiRaster[k]
      <4>1. publishing'[r] = publishing[r]
        BY <2>2, <3>2 DEF upload_manual_msg, StoreOK
      <4> QED
        BY <1>0, <2>2, <4>1 DEF HeardRunsArePosted
    <3> QED
      BY <3>1, <3>2
  <2>3. ASSUME NEW q \in Runs, publish(q) \/ PublishFails(q), NEW r \in Runs, publishing'[r] > 0
        PROVE  Then(r)
    <3>1. publishing[q] \in Nat /\ publishing[q] > 0 /\ publishing' = [publishing EXCEPT ![q] = @ - 1]
      BY <2>3 DEF publish, PublishFails, StoreOK
    <3>2. publishing[r] > 0
      BY <2>3, <3>1 DEF StoreOK
    <3> QED
      BY <1>0, <3>2 DEF HeardRunsArePosted
  <2>4. CASE publishing' = publishing
    BY <1>0, <2>4 DEF HeardRunsArePosted
  <2> QED
    BY <2>1, <2>2, <2>3, <2>4 DEF Next, ConsumerStep, vars, Fetch, Ack, Redeliver, Check, Read,
       PutMaskedRaster, Write, WriteNone, StageRaises, StageFails
<1>3. \A i \in DOMAIN stream' : Then(stream'[i])
  <2>0. \A i \in DOMAIN stream : stream[i] \in Runs /\ Posted(stream[i])
    BY DEF MessagesOK, HeardRunsArePosted
  <2>1. ASSUME NEW r \in Runs, Posted(r), stream' = Append(stream, r), NEW i \in DOMAIN stream'
        PROVE  Then(stream'[i])
    <3>1. stream'[i] = r \/ (i \in DOMAIN stream /\ stream'[i] = stream[i])
      BY <2>1 DEF MessagesOK
    <3>2. stream'[i] \in Runs /\ Posted(stream'[i])
      BY <2>0, <2>1, <3>1
    <3> QED
      BY <1>0, <3>2
  <2>2. ASSUME NEW c \in Consumers, Fetch(c), NEW i \in DOMAIN stream'
        PROVE  Then(stream'[i])
    <3>1. i + 1 \in DOMAIN stream /\ stream'[i] = stream[i + 1]
      BY <2>2 DEF Fetch, MessagesOK
    <3>2. stream'[i] \in Runs /\ Posted(stream'[i])
      BY <2>0, <3>1
    <3> QED
      BY <1>0, <3>2
  <2>3. CASE stream' = stream
    BY <1>0, <2>0, <2>3
  <2>4. ASSUME NEW r \in Runs, publish(r)
        PROVE  Posted(r) /\ stream' = Append(stream, r)
    BY <2>4 DEF publish, HeardRunsArePosted
  <2>5. ASSUME NEW c \in Consumers, Redeliver(c)
        PROVE  message[c] \in Runs /\ Posted(message[c]) /\ stream' = Append(stream, message[c])
    BY <2>5 DEF Redeliver, HeardRunsArePosted, MessagesOK
  <2> QED
    BY <2>1, <2>2, <2>3, <2>4, <2>5 DEF Next, ConsumerStep, vars, upload, upload_manual_msg,
       PublishFails, Ack, Check, Read, PutMaskedRaster, Write, WriteNone, StageRaises, StageFails
<1>4. \A c \in Consumers : pc'[c] # "idle" => Then(message'[c])
  <2>0. \A d \in Consumers : pc[d] # "idle" => message[d] \in Runs /\ Posted(message[d])
    BY DEF HeardRunsArePosted, MessagesOK
  <2>1. ASSUME NEW c \in Consumers, Fetch(c), NEW d \in Consumers, pc'[d] # "idle"
        PROVE  message'[d] \in Runs /\ Posted(message'[d])
    <3>1. CASE d = c
      <4>1. stream # <<>> /\ message'[d] = Head(stream)
        BY <2>1, <3>1 DEF Fetch, MessagesOK
      <4>2. 1 \in DOMAIN stream /\ Head(stream) = stream[1]
        BY <4>1 DEF MessagesOK
      <4> QED
        BY <4>1, <4>2 DEF HeardRunsArePosted, MessagesOK
    <3>2. CASE d # c
      BY <2>0, <2>1, <3>2 DEF Fetch, MessagesOK
    <3> QED
      BY <3>1, <3>2
  <2>2. ASSUME NEW d \in Consumers, pc'[d] # "idle"
        PROVE  message'[d] \in Runs /\ Posted(message'[d])
    BY <2>0, <2>1, <2>2, MessagesStay
  <2> QED
    BY <1>0, <2>2
<1> QED
  BY <1>1, <1>2, <1>3, <1>4 DEF HeardRunsArePosted, Posted, Then

(* A raster that fits a run fits it when newer ones have come, too.        *)
LEMMA FitsStays ==
  ASSUME StoreOK, [Next]_vars, NEW r \in Runs, NEW v \in Nat, Fits(r, v)
  PROVE  Fits(r, v)'
<1>1. r \in Nat /\ UploadKey[r] \in Keys /\ 0 .. NRuns \subseteq Nat
  BY SfmsAssumption DEF Runs
<1>2. hfiRaster[UploadKey[r]] \in Nat /\ hfiRaster'[UploadKey[r]] \in Nat
      /\ hfiRaster[UploadKey[r]] <= hfiRaster'[UploadKey[r]]
  BY <1>1, StoreGrows DEF StoreOK
<1> QED
  BY <1>1, <1>2 DEF Fits

(* What is written is what was read.                                       *)
LEMMA RowsComeOfStep ==
  ASSUME RowsOK, MessagesOK, StoreOK, NEW S \in SUBSET Stages,
         RowsComeOf(S), DataComesOf(S), [Next]_vars
  PROVE  RowsComeOf(S)'
<1> DEFINE Later(r, v) == r <= v /\ v <= hfiRaster'[UploadKey[r]]
<1>0. \A r \in Runs, v \in Nat : Fits(r, v) => Later(r, v)
  BY FitsStays DEF Fits
<1> HIDE DEF Later
<1>1. \A s \in Stages, r \in Runs : rows[s][r] \in Seq(Nat) /\ \A i \in DOMAIN rows[s][r] : rows[s][r][i] \in Nat
  BY DEF RowsOK
<1>2. ASSUME NEW r \in Runs, NEW s \in S, FindsItsRaster(s, r), NEW i \in DOMAIN rows[s][r]
      PROVE  Later(r, rows[s][r][i])
  BY <1>0, <1>1, <1>2 DEF RowsComeOf
<1>3. ASSUME NEW c \in Consumers, Write(c), NEW r \in Runs, NEW s \in S, FindsItsRaster(s, r),
             NEW i \in DOMAIN rows'[s][r]
      PROVE  Later(r, rows'[s][r][i])
  <2>1. stage[c] \in Stages /\ message[c] \in Runs /\ data[c] \in Nat /\ pc[c] = "write"
    BY <1>3 DEF Write, RowsOK, MessagesOK, StoreOK
  <2>2. rows'[s][r] = IF s = stage[c] /\ r = message[c] THEN Append(rows[s][r], data[c]) ELSE rows[s][r]
    BY <1>3, <2>1 DEF Write, RowsOK
  <2>3. CASE s = stage[c] /\ r = message[c]
    <3>1. rows'[s][r] = Append(rows[s][r], data[c]) /\ rows[s][r] \in Seq(Nat)
      BY <1>1, <2>2, <2>3
    <3>2. \/ i \in DOMAIN rows[s][r] /\ rows'[s][r][i] = rows[s][r][i]
          \/ rows'[s][r][i] = data[c]
      BY <1>3, <2>1, <3>1
    <3>3. Later(r, data[c])
      BY <1>0, <1>3, <2>1, <2>3 DEF DataComesOf
    <3> QED
      BY <1>2, <1>3, <3>2, <3>3
  <2>4. CASE ~(s = stage[c] /\ r = message[c])
    BY <1>2, <1>3, <2>2, <2>4
  <2> QED
    BY <2>3, <2>4
<1>4. ASSUME UNCHANGED rows, NEW r \in Runs, NEW s \in S, FindsItsRaster(s, r),
             NEW i \in DOMAIN rows'[s][r]
      PROVE  Later(r, rows'[s][r][i])
  BY <1>2, <1>4
<1>5. ASSUME NEW r \in Runs, NEW s \in S, FindsItsRaster(s, r), NEW i \in DOMAIN rows'[s][r]
      PROVE  Later(r, rows'[s][r][i])
  <2>1. UNCHANGED rows \/ \E c \in Consumers : Write(c)
    BY DEF Next, ConsumerStep, vars, upload, upload_manual_msg, publish, PublishFails,
       Fetch, Ack, Redeliver, Check, Read, PutMaskedRaster, WriteNone, StageRaises, StageFails
  <2> QED
    BY <1>3, <1>4, <1>5, <2>1
<1> QED
  BY <1>5 DEF RowsComeOf, Fits, Later, FindsItsRaster

LEMMA DataComesOfStep ==
  ASSUME RowsOK, MessagesOK, StoreOK, PutsARaster, NEW S \in SUBSET Stages, DataComesOf(S), [Next]_vars,
         \A c \in Consumers : Read(c) /\ stage[c] \in S /\ FindsItsRaster(stage[c], message[c]) =>
           Fits(message[c], StageInput(stage[c], message[c]))
  PROVE  DataComesOf(S)'
<1> DEFINE Later(r, v) == r <= v /\ v <= hfiRaster'[UploadKey[r]]
<1>0. \A r \in Runs, v \in Nat : Fits(r, v) => Later(r, v)
  BY FitsStays DEF Fits
<1> HIDE DEF Later
<1>1. ASSUME NEW d \in Consumers, pc'[d] \in {"put", "write"}, stage'[d] \in S,
             FindsItsRaster(stage'[d], message'[d])
      PROVE  Later(message'[d], data'[d])
  <2>1. ASSUME pc[d] \in {"put", "write"}, stage'[d] = stage[d], message'[d] = message[d],
               data'[d] = data[d]
        PROVE  Later(message'[d], data'[d])
    <3>1. message[d] \in Runs /\ data[d] \in Nat
      BY <2>1 DEF MessagesOK, StoreOK
    <3> QED
      BY <1>0, <1>1, <2>1, <3>1 DEF DataComesOf
  <2>2. ASSUME NEW c \in Consumers, ConsumerStep(c) \/ Redeliver(c) \/ StageFails(c), c # d
        PROVE  Later(message'[d], data'[d])
    <3>1. pc'[d] = pc[d] /\ message'[d] = message[d] /\ stage'[d] = stage[d] /\ data'[d] = data[d]
      BY <2>2, OthersStay
    <3> QED
      BY <1>1, <2>1, <3>1
  <2>3. CASE Read(d)
    <3>1. /\ data'[d] = StageInput(stage[d], message[d]) /\ stage'[d] = stage[d]
          /\ message'[d] = message[d] /\ message[d] \in Runs /\ stage[d] \in Stages
      BY <2>3 DEF Read, RowsOK, MessagesOK, StoreOK
    <3>2. StageInput(stage[d], message[d]) \in Nat
      BY <3>1, StageInputIsNat
    <3>3. Fits(message[d], StageInput(stage[d], message[d]))
      BY <1>1, <2>3, <3>1
    <3> QED
      BY <1>0, <3>1, <3>2, <3>3
  <2>4. CASE PutMaskedRaster(d)
    <3>1. pc[d] = "put" /\ stage' = stage /\ message' = message /\ data' = data
      BY <2>4 DEF PutMaskedRaster
    <3> QED
      BY <2>1, <3>1
  <2>5. CASE \/ Fetch(d) \/ Ack(d) \/ Check(d) \/ Write(d) \/ WriteNone(d)
             \/ StageRaises(d) \/ Redeliver(d) \/ StageFails(d)
    BY <1>1, <2>5, PcAfter
  <2>6. CASE UNCHANGED consumers
    BY <1>1, <2>1, <2>6 DEF consumers
  <2> QED
    BY <2>2, <2>3, <2>4, <2>5, <2>6 DEF Next, ConsumerStep, vars, consumers, upload,
       upload_manual_msg, publish, PublishFails
<1> QED
  BY <1>1 DEF DataComesOf, Fits, Later, FindsItsRaster

(* The stages that read the raster as it was uploaded.                     *)
Unmasked == {Hfi, Fuel}

NotStaleInv == HeardRunsArePosted /\ RowsComeOf(Unmasked) /\ DataComesOf(Unmasked)

StoreInv == IInv /\ NotStaleInv

LEMMA NotStaleStep ==
  ASSUME IInv, NotStaleInv, [Next]_vars
  PROVE  NotStaleInv'
<1> USE DEF IInv, NotStaleInv
<1>0. Unmasked \in SUBSET Stages
  BY DEF Unmasked, Stages
<1>1. HeardRunsArePosted'
  BY HeardStep
<1>2. RowsComeOf(Unmasked)'
  BY <1>0, RowsComeOfStep
<1>3. ASSUME NEW c \in Consumers, Read(c), stage[c] \in Unmasked, FindsItsRaster(stage[c], message[c])
      PROVE  Fits(message[c], StageInput(stage[c], message[c]))
  <2>1. message[c] \in Runs /\ Posted(message[c])
    BY <1>3 DEF Read, MessagesOK, HeardRunsArePosted
  <2>2. StageInput(stage[c], message[c]) = hfiRaster[UploadKey[message[c]]]
    BY <1>3, <2>1, StageInputs DEF Unmasked, FindsItsRaster
  <2>3. hfiRaster[UploadKey[message[c]]] \in 0 .. NRuns
    BY <2>1, SfmsAssumption DEF StoreOK
  <2> QED
    BY <2>1, <2>2, <2>3 DEF Fits, Posted
<1>4. DataComesOf(Unmasked)'
  BY <1>0, <1>3, DataComesOfStep
<1> QED
  BY <1>1, <1>2, <1>4

LEMMA InitStoreInv == Init => StoreInv
<1>1. Init => HeardRunsArePosted
  BY DEF Init, HeardRunsArePosted, NoRun
<1>2. Init => RowsComeOf(Unmasked) /\ DataComesOf(Unmasked)
  <2>1. Unmasked \subseteq Stages
    BY DEF Unmasked, Stages
  <2> QED
    BY <2>1 DEF Init, RowsComeOf, DataComesOf
<1> QED
  BY <1>1, <1>2, InitIInv DEF StoreInv, NotStaleInv

LEMMA StoreStep ==
  ASSUME StoreInv, [Next]_vars
  PROVE  StoreInv'
<1>1. IInv /\ NotStaleInv
  BY DEF StoreInv
<1>2. IInv'
  BY <1>1, RowsOKStep, MessagesOKStep, StoreOKStep, PutsARasterStep, EarlierStagesStep,
     RunsAreThereStep, StagesInOrderStep, FuelOnceStep DEF IInv
<1> QED
  BY <1>1, <1>2, NotStaleStep DEF StoreInv

(* A raster that fits is the run's own while the run is the newest.        *)
LEMMA FittingRowsAreOwn ==
  ASSUME StoreOK, RowsOK, NEW S \in SUBSET Stages, RowsComeOf(S), NEW r \in Runs, NEW s \in S,
         FindsItsRaster(s, r)
  PROVE  ComesOfItsRaster(s, r)
<1>1. SUFFICES ASSUME NEW i \in DOMAIN rows[s][r]
               PROVE  rows[s][r][i] >= r /\ (Newest(r) => rows[s][r][i] = r)
  BY DEF ComesOfItsRaster
<1>2. r \in Nat /\ rows[s][r][i] \in Nat
  <2>1. rows[s][r] \in Seq(Nat)
    BY DEF RowsOK
  <2> QED
    BY <2>1, <1>1 DEF Runs
<1>3. r <= rows[s][r][i] /\ rows[s][r][i] <= hfiRaster[UploadKey[r]]
  BY DEF RowsComeOf, Fits
<1>4. Newest(r) => rows[s][r][i] <= r
  BY <1>3 DEF Newest
<1> QED
  BY <1>2, <1>3, <1>4

(* Any number of replicas: the polygons and the fuel statistics of a run   *)
(* are never those of an older run, and the newest run has its own,        *)
(* although runs share keys, are posted again, fail and are redelivered.   *)
THEOREM RasterStatsComeOfTheirRun == Spec => []RasterStatsAreNotStale
<1>1. StoreInv => RasterStatsAreNotStale
  <2>1. Unmasked \in SUBSET Stages
    BY DEF Unmasked, Stages
  <2> QED
    BY <2>1, FittingRowsAreOwn DEF RasterStatsAreNotStale, StoreInv, NotStaleInv, IInv, Unmasked
<1> QED
  BY <1>1, InitStoreInv, StoreStep, PTL DEF Spec

-----------------------------------------------------------------------------
(* A consumer nobody works beside.                                         *)
LEMMA OnceStep ==
  ASSUME RowsOK, MessagesOK, StoreOK, PutsARaster, Solo, OnceInv, [Next]_vars
  PROVE  OnceInv'
<1> DEFINE Now(c) == /\ pc[c] \in {"read", "put", "write"} => rows[stage[c]][message[c]] = <<>>
                     /\ pc[c] = "write" /\ stage[c] = HighHfi => data[c] <= 1
           Then(c) == /\ pc'[c] \in {"read", "put", "write"} => rows'[stage'[c]][message'[c]] = <<>>
                      /\ pc'[c] = "write" /\ stage'[c] = HighHfi => data'[c] <= 1
           Once(t) == \A r \in Runs :
                        /\ \A s \in Stages : Len(t[s][r]) <= 1
                        /\ \A i \in DOMAIN t[HighHfi][r] : t[HighHfi][r][i] = 1
<1>0. Once(rows) /\ \A c \in Consumers : Now(c)
  BY DEF OnceInv, RowsAreWrittenOnce
<1>1. Once(rows')
  <2>1. ASSUME NEW c \in Consumers, Write(c)
        PROVE  Once(rows')
    <3>1. /\ stage[c] \in Stages /\ message[c] \in Runs /\ data[c] \in Nat
          /\ rows[stage[c]][message[c]] = <<>> /\ HighHfi \in Stages
          /\ stage[c] = HighHfi => data[c] = 1
      <4>1. /\ stage[c] \in Stages /\ message[c] \in Runs /\ data[c] \in Nat /\ data[c] # 0
            /\ rows[stage[c]][message[c]] = <<>> /\ (stage[c] = HighHfi => data[c] <= 1)
        BY <1>0, <2>1 DEF Write, RowsOK, MessagesOK, StoreOK, NoRun
      <4>2. \A n \in Nat : n # 0 /\ n <= 1 => n = 1
        OBVIOUS
      <4> QED
        BY <4>1, <4>2 DEF Stages
    <3>2. \A s \in Stages, r \in Runs :
            rows'[s][r] = IF s = stage[c] /\ r = message[c] THEN Append(<<>>, data[c]) ELSE rows[s][r]
      BY <2>1, <3>1 DEF Write, RowsOK
    <3>3. \A n \in Nat : Append(<<>>, n) = <<n>>
      OBVIOUS
    <3>4. \A n \in Nat : Len(<<n>>) = 1 /\ <<n>>[1] = n /\ \A i \in DOMAIN <<n>> : i = 1
      OBVIOUS
    <3>5. ASSUME NEW r \in Runs, NEW s \in Stages
          PROVE  /\ Len(rows'[s][r]) <= 1
                 /\ s = HighHfi => \A i \in DOMAIN rows'[s][r] : rows'[s][r][i] = 1
      <4>1. CASE s = stage[c] /\ r = message[c]
        <5>1. rows'[s][r] = <<data[c]>> /\ (s = HighHfi => data[c] = 1)
          BY <3>1, <3>2, <3>3, <4>1
        <5> QED
          BY <3>1, <3>4, <5>1
      <4>2. CASE ~(s = stage[c] /\ r = message[c])
        BY <1>0, <3>2, <4>2
      <4> QED
        BY <4>1, <4>2
    <3> QED
      BY <3>1, <3>5
  <2>2. CASE UNCHANGED rows
    BY <1>0, <2>2
  <2> HIDE DEF Once
  <2> QED
    BY <2>1, <2>2 DEF Next, ConsumerStep, vars, upload, upload_manual_msg, publish, PublishFails,
       Fetch, Ack, Redeliver, Check, Read, PutMaskedRaster, WriteNone, StageRaises, StageFails
<1>2. \A c \in Consumers : Then(c)
  <2>1. ASSUME NEW c \in Consumers, Read(c)
        PROVE  Then(c)
    <3>1. /\ pc'[c] # "read" /\ data'[c] = StageInput(stage[c], message[c])
          /\ stage' = stage /\ message' = message /\ rows' = rows /\ pc[c] = "read"
      BY <2>1 DEF Read, MessagesOK, StoreOK
    <3>2. ASSUME stage[c] = HighHfi
          PROVE  data'[c] <= 1
      <4>1. message[c] \in Runs /\ Hfi \in Stages
        BY <3>1 DEF MessagesOK, Stages
      <4> QED
        BY <1>0, <3>1, <3>2, <4>1, StageInputs
    <3> QED
      BY <1>0, <3>1, <3>2
  <2>2. ASSUME NEW c \in Consumers, PutMaskedRaster(c)
        PROVE  Then(c)
    <3>1. stage[c] = Hfi
      BY <2>2 DEF PutMaskedRaster, PutsARaster
    <3> QED
      BY <1>0, <2>2, <3>1 DEF PutMaskedRaster
  <2>3. ASSUME NEW c \in Consumers,
               \/ Fetch(c) \/ Ack(c) \/ Check(c) \/ Write(c) \/ WriteNone(c)
               \/ StageRaises(c) \/ Redeliver(c) \/ StageFails(c)
        PROVE  Then(c)
    <3>1. pc'[c] \in {"idle", "fetched", "check", "read"}
      BY <2>3, PcAfter
    <3>2. ASSUME pc'[c] = "read"
          PROVE  rows'[stage'[c]][message'[c]] = <<>>
      BY <2>3, <3>2, PcAfter DEF Check, AlreadyProcessed
    <3> QED
      BY <3>1, <3>2
  <2>4. ASSUME NEW c \in Consumers, ConsumerStep(c) \/ Redeliver(c) \/ StageFails(c),
               NEW d \in Consumers \ {c}
        PROVE  Then(d)
    <3>1. pc'[d] = pc[d] /\ message'[d] = message[d] /\ stage'[d] = stage[d] /\ data'[d] = data[d]
      BY <2>4, OthersStay
    <3>2. CASE UNCHANGED rows
      BY <1>0, <3>1, <3>2
    <3>3. CASE Write(c)
      BY <2>4, <3>1, <3>3 DEF Write, Solo
    <3> HIDE DEF Then
    <3> QED
      BY <2>4, <3>2, <3>3 DEF ConsumerStep, Fetch, Ack, Redeliver, Check, Read, PutMaskedRaster,
         WriteNone, StageRaises, StageFails
  <2>5. ASSUME NEW c \in Consumers, UNCHANGED <<consumers, rows>>
        PROVE  Then(c)
    BY <1>0, <2>5 DEF consumers
  <2> HIDE DEF Then
  <2>6. ASSUME NEW c \in Consumers, ConsumerStep(c) \/ Redeliver(c) \/ StageFails(c)
        PROVE  \A d \in Consumers : Then(d)
    BY <2>1, <2>2, <2>3, <2>4, <2>6 DEF ConsumerStep
  <2> QED
    BY <2>5, <2>6 DEF Next, vars, consumers, upload, upload_manual_msg, publish, PublishFails
<1> QED
  BY <1>1, <1>2 DEF OnceInv, RowsAreWrittenOnce

LEMMA MaskedStep ==
  ASSUME RowsOK, MessagesOK, StoreOK, PutsARaster, HeardRunsArePosted, DataComesOf(Unmasked),
         Solo, MaskedInv, [Next]_vars
  PROVE  MaskedInv'
<1> DEFINE Later(r, v) == r <= v /\ v <= hfiRaster'[UploadKey[r]]
           Now(c) == /\ pc[c] = "write" /\ stage[c] = Hfi =>
                          Fits(message[c], maskedRaster[UploadKey[message[c]]])
                     /\ pc[c] = "put" =>
                          \A r \in Runs : rows[Hfi][r] # <<>> /\ UploadKey[r] = UploadKey[message[c]]
                                            => r <= data[c]
           Then(c) == /\ pc'[c] = "write" /\ stage'[c] = Hfi =>
                           Later(message'[c], maskedRaster'[UploadKey[message'[c]]])
                      /\ pc'[c] = "put" =>
                           \A r \in Runs : rows'[Hfi][r] # <<>> /\ UploadKey[r] = UploadKey[message'[c]]
                                             => r <= data'[c]
<1>0. /\ \A k \in Keys : maskedRaster[k] <= hfiRaster[k]
      /\ \A r \in Runs : rows[Hfi][r] # <<>> => Fits(r, maskedRaster[UploadKey[r]])
      /\ \A c \in Consumers : Now(c)
  BY DEF MaskedInv
<1>1. /\ \A r \in Runs : r \in Nat /\ UploadKey[r] \in Keys
      /\ \A k \in Keys : /\ hfiRaster[k] \in Nat /\ hfiRaster'[k] \in Nat /\ maskedRaster[k] \in Nat
                         /\ hfiRaster[k] <= hfiRaster'[k]
  <2>1. \A k \in Keys : hfiRaster'[k] \in 0 .. NRuns /\ hfiRaster[k] <= hfiRaster'[k]
    BY StoreGrows
  <2> QED
    BY <2>1, SfmsAssumption DEF Runs, StoreOK
<1>2. \A r \in Runs, v \in Nat : Fits(r, v) => Later(r, v)
  BY <1>1 DEF Fits
<1>3. Hfi \in Stages /\ Hfi \in Unmasked
  BY DEF Stages, Unmasked
<1>4. \A c \in Consumers : pc[c] # "idle" => message[c] \in Runs /\ Posted(message[c])
  BY DEF MessagesOK, HeardRunsArePosted
<1>5. ASSUME NEW c \in Consumers, PutMaskedRaster(c)
      PROVE  /\ message[c] \in Runs /\ stage[c] = Hfi /\ pc[c] = "put" /\ data[c] \in Nat
             /\ Fits(message[c], data[c])
  <2>1. message[c] \in Runs /\ stage[c] = Hfi /\ pc[c] = "put" /\ data[c] \in Nat
    BY <1>4, <1>5 DEF PutMaskedRaster, PutsARaster, StoreOK
  <2> QED
    BY <1>3, <2>1 DEF DataComesOf, FindsItsRaster
<1> HIDE DEF Later
<1>6. \A k \in Keys : maskedRaster'[k] <= hfiRaster'[k]
  <2>1. ASSUME NEW c \in Consumers, PutMaskedRaster(c)
        PROVE  \A k \in Keys : maskedRaster'[k] <= hfiRaster'[k]
    <3>1. message[c] \in Runs /\ hfiRaster' = hfiRaster
          /\ data[c] <= hfiRaster[UploadKey[message[c]]]
      BY <1>5, <2>1 DEF PutMaskedRaster, Fits
    <3>2. \A k \in Keys : maskedRaster'[k] = IF k = UploadKey[message[c]] THEN data[c] ELSE maskedRaster[k]
      BY <2>1 DEF PutMaskedRaster, StoreOK
    <3> QED
      BY <1>0, <3>1, <3>2
  <2>2. CASE maskedRaster' = maskedRaster
    BY <1>0, <1>1, <2>2
  <2> QED
    BY <2>1, <2>2 DEF Next, ConsumerStep, vars, upload, upload_manual_msg, publish, PublishFails,
       Fetch, Ack, Redeliver, Check, Read, Write, WriteNone, StageRaises, StageFails
<1>7. ASSUME NEW c \in Consumers, Write(c), NEW r \in Runs, rows'[Hfi][r] # <<>>
      PROVE  Later(r, maskedRaster'[UploadKey[r]])
  <2>1. stage[c] \in Stages /\ message[c] \in Runs /\ maskedRaster' = maskedRaster /\ pc[c] = "write"
    BY <1>7 DEF Write, RowsOK, MessagesOK
  <2>2. rows'[Hfi][r] = IF Hfi = stage[c] /\ r = message[c] THEN Append(rows[Hfi][r], data[c]) ELSE rows[Hfi][r]
    BY <1>3, <1>7, <2>1 DEF Write, RowsOK
  <2>3. CASE Hfi = stage[c] /\ r = message[c]
    BY <1>0, <1>1, <1>2, <2>1, <2>3
  <2>4. CASE ~(Hfi = stage[c] /\ r = message[c])
    BY <1>0, <1>1, <1>2, <1>7, <2>1, <2>2, <2>4
  <2> QED
    BY <2>3, <2>4
<1>8. ASSUME UNCHANGED <<rows, maskedRaster>>
      PROVE  \A r \in Runs : rows'[Hfi][r] # <<>> => Later(r, maskedRaster'[UploadKey[r]])
  BY <1>0, <1>1, <1>2, <1>8
<1>9. ASSUME NEW c \in Consumers, PutMaskedRaster(c), NEW r \in Runs, rows'[Hfi][r] # <<>>
      PROVE  Later(r, maskedRaster'[UploadKey[r]])
  <2>1. hfiRaster' = hfiRaster /\ rows' = rows
    BY <1>9 DEF PutMaskedRaster
  <2>2. \A k \in Keys : maskedRaster'[k] = IF k = UploadKey[message[c]] THEN data[c] ELSE maskedRaster[k]
    BY <1>9 DEF PutMaskedRaster, StoreOK
  <2>3. CASE UploadKey[r] = UploadKey[message[c]]
    <3>1. r <= data[c] /\ data[c] <= hfiRaster[UploadKey[r]]
      BY <1>0, <1>5, <1>9, <2>1, <2>3 DEF Fits
    <3> QED
      BY <1>1, <2>1, <2>2, <2>3, <3>1 DEF Later
  <2>4. CASE UploadKey[r] # UploadKey[message[c]]
    <3>1. maskedRaster'[UploadKey[r]] = maskedRaster[UploadKey[r]]
      BY <1>1, <2>2, <2>4
    <3> QED
      BY <1>0, <1>1, <1>2, <1>9, <2>1, <3>1
  <2> QED
    BY <2>3, <2>4
<1>10. \A r \in Runs : rows'[Hfi][r] # <<>> => Later(r, maskedRaster'[UploadKey[r]])
  <2>1. \/ \E c \in Consumers : Write(c) \/ PutMaskedRaster(c)
        \/ UNCHANGED <<rows, maskedRaster>>
    BY DEF Next, ConsumerStep, vars, upload, upload_manual_msg, publish, PublishFails,
       Fetch, Ack, Redeliver, Check, Read, WriteNone, StageRaises, StageFails
  <2> QED
    BY <1>7, <1>8, <1>9, <2>1
<1>11. ASSUME NEW c \in Consumers, Read(c)
       PROVE  Then(c)
  <2>1. /\ pc'[c] = IF stage[c] = Hfi THEN "put" ELSE "write"
        /\ data'[c] = StageInput(stage[c], message[c]) /\ message[c] \in Runs
        /\ stage' = stage /\ message' = message /\ rows' = rows
    BY <1>11 DEF Read, MessagesOK, StoreOK
  <2>2. ASSUME stage[c] = Hfi, NEW r \in Runs, rows[Hfi][r] # <<>>, UploadKey[r] = UploadKey[message[c]]
        PROVE  r <= data'[c]
    <3>1. r <= maskedRaster[UploadKey[r]] /\ maskedRaster[UploadKey[r]] <= hfiRaster[UploadKey[r]]
      BY <1>0, <2>2 DEF Fits
    <3>2. data'[c] = hfiRaster[UploadKey[r]]
      BY <2>1, <2>2, StageInputs
    <3> QED
      BY <1>1, <3>1, <3>2
  <2> QED
    BY <2>1, <2>2
<1>12. ASSUME NEW c \in Consumers, PutMaskedRaster(c)
       PROVE  Then(c)
  <2>1. message' = message /\ stage' = stage /\ pc'[c] = "write"
    BY <1>12 DEF PutMaskedRaster, MessagesOK
  <2>2. maskedRaster'[UploadKey[message[c]]] = data[c]
    BY <1>1, <1>5, <1>12 DEF PutMaskedRaster, StoreOK
  <2> QED
    BY <1>2, <1>5, <1>12, <2>1, <2>2
<1>13. ASSUME NEW c \in Consumers,
              pc'[c] = pc[c], message'[c] = message[c], stage'[c] = stage[c], data'[c] = data[c],
              UNCHANGED <<rows, maskedRaster>>
       PROVE  Then(c)
  <2>1. CASE pc[c] = "write"
    <3>1. message[c] \in Runs /\ maskedRaster[UploadKey[message[c]]] \in Nat
      BY <1>1, <2>1 DEF MessagesOK
    <3> QED
      BY <1>0, <1>2, <1>13, <2>1, <3>1
  <2>2. CASE pc[c] # "write"
    BY <1>0, <1>13, <2>2
  <2> QED
    BY <2>1, <2>2
<1>14. ASSUME NEW c \in Consumers, ConsumerStep(c) \/ Redeliver(c) \/ StageFails(c),
              NEW d \in Consumers \ {c}
       PROVE  Then(d)
  <2>1. pc'[d] = pc[d] /\ message'[d] = message[d] /\ stage'[d] = stage[d] /\ data'[d] = data[d]
    BY <1>14, OthersStay
  <2>2. CASE UNCHANGED <<rows, maskedRaster>>
    BY <1>13, <2>1, <2>2
  <2>3. CASE Write(c) \/ PutMaskedRaster(c)
    <3>1. pc[d] = "idle"
      BY <2>3 DEF Write, PutMaskedRaster, Solo
    <3> QED
      BY <2>1, <3>1
  <2> HIDE DEF Then
  <2> QED
    BY <1>14, <2>2, <2>3 DEF ConsumerStep, Fetch, Ack, Redeliver, Check, Read, WriteNone, StageRaises, StageFails
<1>15. \A c \in Consumers : Then(c)
  <2>1. ASSUME NEW c \in Consumers,
               \/ Fetch(c) \/ Ack(c) \/ Check(c) \/ Write(c) \/ WriteNone(c)
               \/ StageRaises(c) \/ Redeliver(c) \/ StageFails(c)
        PROVE  Then(c)
    <3>1. pc'[c] \in {"idle", "fetched", "check", "read"}
      BY <2>1, PcAfter
    <3> QED
      BY <3>1
  <2>2. ASSUME UNCHANGED <<consumers, rows, maskedRaster>>, NEW c \in Consumers
        PROVE  Then(c)
    <3>1. pc'[c] = pc[c] /\ message'[c] = message[c] /\ stage'[c] = stage[c] /\ data'[c] = data[c]
      BY <2>2 DEF consumers
    <3> QED
      BY <1>13, <2>2, <3>1
  <2> HIDE DEF Then
  <2>3. ASSUME NEW c \in Consumers, ConsumerStep(c) \/ Redeliver(c) \/ StageFails(c)
        PROVE  \A d \in Consumers : Then(d)
    BY <1>11, <1>12, <1>14, <2>1, <2>3 DEF ConsumerStep
  <2> QED
    BY <2>2, <2>3 DEF Next, vars, consumers, upload, upload_manual_msg, publish, PublishFails
<1> QED
  BY <1>6, <1>10, <1>15 DEF MaskedInv, Fits, Later

(* The elevation is computed from the masked raster, which nobody else     *)
(* replaces between the stages of one consumer's message.                  *)
LEMMA OwnStep ==
  ASSUME StoreInv, Solo, OwnInv, [Next]_vars
  PROVE  OwnInv'
<1> USE DEF OwnInv, StoreInv, IInv, NotStaleInv
<1>0. {Tpi} \in SUBSET Stages /\ Hfi \in Stages
  BY DEF Stages
<1>1. MaskedInv'
  BY MaskedStep
<1>2. RowsComeOf({Tpi})'
  BY <1>0, RowsComeOfStep
<1>3. ASSUME NEW c \in Consumers, Read(c), stage[c] \in {Tpi}, FindsItsRaster(stage[c], message[c])
      PROVE  Fits(message[c], StageInput(stage[c], message[c]))
  <2>1. message[c] \in Runs /\ Working(c)
    BY <1>3 DEF Read, MessagesOK, Working
  <2>2. <<Hfi, message[c]>> \in done
    BY <1>0, <1>3, <2>1 DEF EarlierStagesAreThere
  <2>3. rows[Hfi][message[c]] # <<>>
    BY <2>1, <2>2 DEF RunsAreThere
  <2>4. StageInput(stage[c], message[c]) = maskedRaster[UploadKey[message[c]]]
    BY <1>3, <2>1, StageInputs DEF FindsItsRaster
  <2> QED
    BY <2>1, <2>3, <2>4 DEF MaskedInv
<1>4. DataComesOf({Tpi})'
  BY <1>0, <1>3, DataComesOfStep
<1> QED
  BY <1>1, <1>2, <1>4

(* What one replica does: a consumer nobody works beside leaves its        *)
(* invariants to the next step.                                            *)
DeployInv ==
  /\ IsFiniteSet(deployed)
  /\ \A c \in Consumers : pc[c] # "idle" => c \in deployed

AloneInv == StoreInv /\ DeployInv /\ (Alone => OnceInv /\ OwnInv)

LEMMA AloneIsSolo ==
  ASSUME DeployInv, Alone
  PROVE  Solo
<1>1. PICK x : deployed = {x}
  BY FS_Singleton DEF DeployInv, Alone
<1> QED
  BY <1>1 DEF DeployInv, Solo

LEMMA AloneInvariant ==
  ASSUME IsFiniteSet(Consumers)
  PROVE  MCSpec => []AloneInv
<1>1. MCInit => AloneInv
  <2> SUFFICES ASSUME MCInit PROVE AloneInv
    OBVIOUS
  <2>1. Init /\ (deployed = {CHOOSE c \in Consumers : TRUE} \/ deployed = Consumers)
    BY DEF MCInit
  <2>2. StoreInv
    BY <2>1, InitStoreInv
  <2>3. DeployInv
    <3>1. IsFiniteSet({CHOOSE c \in Consumers : TRUE})
      BY FS_Singleton, Zenon
    <3>2. IsFiniteSet(deployed)
      BY <2>1, <3>1
    <3> QED
      BY <2>1, <3>2 DEF Init, DeployInv
  <2>4. \A s \in Stages, r \in Runs : rows[s][r] = <<>>
    BY <2>1 DEF Init
  <2>5. {Hfi, Tpi, Fuel, HighHfi} \subseteq Stages
    BY DEF Stages
  <2>6. OnceInv
    BY <2>1, <2>4, <2>5 DEF OnceInv, RowsAreWrittenOnce, Init
  <2>7. MaskedInv
    BY <2>1, <2>4, <2>5 DEF MaskedInv, Init, NoRun
  <2>8. RowsComeOf({Tpi}) /\ DataComesOf({Tpi})
    BY <2>1, <2>4, <2>5 DEF RowsComeOf, DataComesOf, Init
  <2> QED
    BY <2>2, <2>3, <2>6, <2>7, <2>8 DEF AloneInv, OwnInv
<1>2. AloneInv /\ [MCNext]_<<vars, deployed>> => AloneInv'
  <2> SUFFICES ASSUME AloneInv, [MCNext]_<<vars, deployed>> PROVE AloneInv'
    OBVIOUS
  <2>1. [Next]_vars /\ deployed' = deployed
        /\ \A c \in Consumers \ deployed : pc'[c] = pc[c]
    BY DEF MCNext, vars
  <2>2. StoreInv'
    BY <2>1, StoreStep DEF AloneInv
  <2>3. DeployInv'
    BY <2>1 DEF AloneInv, DeployInv
  <2>4. ASSUME Alone'
        PROVE  OnceInv' /\ OwnInv'
    <3>1. Alone /\ Solo
      BY <2>1, <2>4, AloneIsSolo DEF Alone, AloneInv
    <3>2. OnceInv'
      BY <2>1, <3>1, OnceStep DEF AloneInv, StoreInv, IInv
    <3>3. OwnInv'
      BY <2>1, <3>1, OwnStep DEF AloneInv
    <3> QED
      BY <3>2, <3>3
  <2> QED
    BY <2>2, <2>3, <2>4 DEF AloneInv
<1> QED
  BY <1>1, <1>2, PTL DEF MCSpec

(* What one replica adds: the rows of a run are written once, and the      *)
(* elevation comes of the run's own raster or a newer one, although runs   *)
(* share keys, are posted again and fail; any number of runs and keys.     *)
THEOREM AloneRowsAreSafe ==
  ASSUME IsFiniteSet(Consumers)
  PROVE  MCSpec => []AloneRowsAreOwnAndOnce
<1>1. AloneInv => AloneRowsAreOwnAndOnce
  <2> SUFFICES ASSUME AloneInv, Alone
               PROVE  /\ RowsAreWrittenOnce
                      /\ \A r \in Runs : FindsItsRaster(Tpi, r) => ComesOfItsRaster(Tpi, r)
    BY DEF AloneRowsAreOwnAndOnce
  <2>1. OnceInv /\ OwnInv /\ StoreOK /\ RowsOK
    BY DEF AloneInv, StoreInv, IInv
  <2>2. {Tpi} \in SUBSET Stages
    BY DEF Stages
  <2> QED
    BY <2>1, <2>2, FittingRowsAreOwn DEF OnceInv, OwnInv
<1> QED
  BY <1>1, AloneInvariant, PTL
=============================================================================
